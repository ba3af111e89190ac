---------------------------- MODULE RoomsProofs ----------------------------
(***************************************************************************)
(* Proofs about MCRooms: the registry of the persistent rooms, for every   *)
(* number of requests, names and rooms, and the rounds of a room, for any  *)
(* members, messages and bounds.                                           *)
(***************************************************************************)
EXTENDS MCRooms, SieveProofs, TLAPS

-----------------------------------------------------------------------------
(* The registry.                                                           *)

\* Every action of Next, one step of a case split each.
LEMMA RegistryCases ==
  ASSUME Next, NEW P,
         \A q \in Requests : Start(q) => P, \A q \in Requests : Find(q) => P,
         \A q \in Requests : Create(q) => P, \A q \in Requests : Persist(q) => P,
         \A q \in Requests : Attach(q) => P, \A q \in Requests : Attached(q) => P,
         \A q \in Requests : Inject(q) => P, \A q \in Requests : NotifyOne(q) => P,
         \A r \in Rooms : Listen(r) => P, \A r \in Rooms : LockState(r) => P,
         \A r \in Rooms : TurnBegin(r) => P, \A r \in Rooms : RoundsOver(r) => P,
         \A r \in Rooms : TurnPanics(r) => P, \A r \in Rooms : TurnEnd(r) => P,
         TimePasses => P, GcTick => P, gc_idle => P
  PROVE  P
BY DEF Next, Handle, Run

Places ==
  {"idle", "find", "create", "found", "attach", "attaching", "attached", "inject", "injecting",
   "notify", "sent"}

\* What the proof needs of the types: the map of the rooms, what gc goes by,
\* and where the requests are.
MapTyped ==
  /\ made \in Nat /\ made <= MaxRooms
  /\ rooms \in [Names -> 0 .. made]
  /\ named = [r \in Rooms |-> named[r]]
  /\ stale \subseteq 1 .. made
  /\ evicted \subseteq 1 .. made
  /\ pc \in [Requests -> Places]
  /\ wants \in [Requests -> Names]

\* A room in the map is there under the name it was made for.
MapIsNamed == \A n \in Names : rooms[n] # NoRoom => named[rooms[n]] = n

\* The room of a request is in the map, or gc took it out.
Had(n) == rooms[n] # NoRoom \/ \E r \in evicted : named[r] = n

\* get_or_create has given the request a room, which no message has reached.
Underway(q) ==
  pc[q] \in {"found", "attach", "attaching", "attached", "inject", "injecting"}

\* A request on its way has a room: get_or_create made or found it, and none
\* but gc takes a room out.  What is told to be sent was injected, but for that.
Delivery ==
  \A q \in Requests :
    /\ Underway(q) => Had(wants[q])
    /\ pc[q] = "sent" /\ q \notin injected => \E r \in evicted : named[r] = wants[q]
    /\ pc[q] = "notify" => q \in injected

RegistryInv == MapTyped /\ MapIsNamed /\ Delivery

\* One request takes a step that leaves the map of the rooms alone, from and
\* to places of chat:message that a room does or does not go with.
StepOf(q) ==
  /\ UNCHANGED <<rooms, made, named, evicted, wants>>
  /\ stale' \subseteq stale
  /\ \A p \in Requests \ {q} : pc'[p] = pc[p]
  /\ pc' \in [Requests -> Places]
  /\ injected \subseteq injected'
  /\ \/ pc'[q] \in {"find", "create"}
     \/ pc'[q] = "found" /\ rooms[wants[q]] # NoRoom
     \/ /\ pc[q] \in {"found", "attach", "attaching", "attached", "inject"}
        /\ pc'[q] \in {"attach", "attaching", "attached", "inject", "injecting"}
     \/ pc[q] = "inject" /\ pc'[q] = "sent" /\ rooms[wants[q]] = NoRoom
     \/ pc'[q] = "notify" /\ q \in injected'
     \/ pc[q] = "notify" /\ pc'[q] = "sent"

LEMMA StepsOfRequests ==
  ASSUME pc \in [Requests -> Places], NEW q \in Requests,
         Start(q) \/ Find(q) \/ Persist(q) \/ Attach(q) \/ Attached(q) \/ Inject(q) \/ NotifyOne(q)
  PROVE  StepOf(q)
<1> USE DEF Goes, Places
<1>1. CASE Start(q)
  <2>1. Goes(q, "idle", "find")  BY <1>1 DEF Start
  <2> QED BY <1>1, <2>1 DEF StepOf, Start
<1>2. CASE Find(q)
  <2>1. CASE Goes(q, "find", "found")
    BY <1>2, <2>1 DEF StepOf, Find, Touch, Goes
  <2>2. CASE Goes(q, "find", "create")
    BY <1>2, <2>2 DEF StepOf, Find, Touch
  <2> QED BY <1>2, <2>1, <2>2 DEF Find
<1>3. CASE Persist(q)
  <2>1. Goes(q, "found", "attach")  BY <1>3 DEF Persist
  <2> QED BY <1>3, <2>1 DEF StepOf, Persist
<1>4. CASE Attach(q)
  <2>1. CASE Enter(q, "attach", "attaching", "attached")
    <3>1. CASE Goes(q, "attach", "attaching")
      BY <2>1, <3>1 DEF StepOf, Enter
    <3>2. CASE Goes(q, "attach", "attached")
      BY <2>1, <3>2 DEF StepOf, Enter
    <3> QED BY <2>1, <3>1, <3>2 DEF Enter
  <2>2. CASE ~Enter(q, "attach", "attaching", "attached")
    <3>1. Goes(q, "attaching", "attached")  BY <1>4, <2>2 DEF Attach
    <3> QED BY <1>4, <2>2, <3>1 DEF StepOf, Attach, Touch
  <2> QED BY <2>1, <2>2
<1>5. CASE Attached(q)
  <2>1. Goes(q, "attached", "inject")  BY <1>5 DEF Attached
  <2> QED BY <1>5, <2>1 DEF StepOf, Attached
<1>6. CASE Inject(q)
  <2>1. CASE Enter(q, "inject", "injecting", "sent")
    <3>1. CASE Goes(q, "inject", "injecting")
      BY <2>1, <3>1 DEF StepOf, Enter
    <3>2. CASE rooms[wants[q]] = NoRoom /\ Goes(q, "inject", "sent")
      BY <2>1, <3>2 DEF StepOf, Enter
    <3> QED BY <2>1, <3>1, <3>2 DEF Enter
  <2>2. CASE ~Enter(q, "inject", "injecting", "sent")
    <3>1. Goes(q, "injecting", "notify")  BY <1>6, <2>2 DEF Inject
    <3> QED BY <1>6, <2>2, <3>1 DEF StepOf, Inject, Touch
  <2> QED BY <2>1, <2>2
<1>7. CASE NotifyOne(q)
  <2>1. Goes(q, "notify", "sent")  BY <1>7 DEF NotifyOne
  <2> QED BY <1>7, <2>1 DEF StepOf, NotifyOne
<1> QED BY <1>1, <1>2, <1>3, <1>4, <1>5, <1>6, <1>7

LEMMA RequestKeepsRegistry ==
  ASSUME RegistryInv, NEW q \in Requests, StepOf(q)
  PROVE  RegistryInv'
<1>1. MapTyped'
  BY DEF RegistryInv, MapTyped, StepOf
<1>2. MapIsNamed'
  BY DEF RegistryInv, MapIsNamed, StepOf
<1>3. Delivery'
  <2> SUFFICES ASSUME NEW p \in Requests
               PROVE  /\ Underway(p)' => Had(wants[p])'
                      /\ pc'[p] = "sent" /\ p \notin injected' =>
                           \E r \in evicted' : named'[r] = wants'[p]
                      /\ pc'[p] = "notify" => p \in injected'
    BY DEF Delivery
  <2>2. injected \subseteq injected' /\ UNCHANGED <<rooms, made, named, evicted, wants>>
    BY DEF StepOf
  <2>3. Had(wants[p])' <=> Had(wants[p])
    BY <2>2 DEF Had
  <2>4. CASE p # q
    <3>1. pc'[p] = pc[p]
      BY <2>4 DEF StepOf
    <3> QED BY <2>2, <2>3, <3>1 DEF RegistryInv, Delivery, Underway
  <2>5. CASE p = q
    <3>3. CASE pc'[q] \in {"find", "create"}
      BY <3>3, <2>5 DEF Underway
    <3>4. CASE pc'[q] = "found" /\ rooms[wants[q]] # NoRoom
      BY <3>4, <2>5, <2>2 DEF Underway, Had
    <3>5. CASE /\ pc[q] \in {"found", "attach", "attaching", "attached", "inject"}
               /\ pc'[q] \in {"attach", "attaching", "attached", "inject", "injecting"}
      BY <3>5, <2>5, <2>3 DEF Underway, RegistryInv, Delivery
    <3>6. CASE pc[q] = "inject" /\ pc'[q] = "sent" /\ rooms[wants[q]] = NoRoom
      BY <3>6, <2>5, <2>2 DEF Underway, RegistryInv, Delivery, Had
    <3>7. CASE pc'[q] = "notify" /\ q \in injected'
      BY <3>7, <2>5 DEF Underway
    <3>8. CASE pc[q] = "notify" /\ pc'[q] = "sent"
      BY <3>8, <2>5, <2>2 DEF Underway, RegistryInv, Delivery
    <3> QED
      BY <3>3, <3>4, <3>5, <3>6, <3>7, <3>8 DEF StepOf
  <2> QED BY <2>4, <2>5
<1> QED BY <1>1, <1>2, <1>3 DEF RegistryInv

\* The second look of get_or_create finds a room or makes one.
LEMMA CreateKeepsRegistry ==
  ASSUME RegistryInv, RegistryAssumption, NEW q \in Requests, Create(q)
  PROVE  RegistryInv'
<1>1. CASE rooms[wants[q]] # NoRoom
  <2>1. UNCHANGED <<rooms, made, named, evicted, wants, injected>> /\ stale' \subseteq stale
    BY <1>1 DEF Create, Touch
  <2>2. pc' = [pc EXCEPT ![q] = "found"] /\ pc \in [Requests -> Places]
    BY DEF Create, Goes, RegistryInv, MapTyped
  <2>3. StepOf(q)
    BY <1>1, <2>1, <2>2 DEF StepOf, Places
  <2> QED BY <2>3, RequestKeepsRegistry
<1>2. CASE rooms[wants[q]] = NoRoom
  <2> DEFINE r == made + 1
             n == wants[q]
  <2> USE DEF RegistryInv, NoRoom, Rooms
  <2>1. /\ made < MaxRooms /\ made' = r
        /\ named' = [named EXCEPT ![r] = n]
        /\ rooms' = [rooms EXCEPT ![n] = r]
        /\ UNCHANGED <<stale, evicted, wants, injected>>
        /\ pc[q] = "create" /\ pc' = [pc EXCEPT ![q] = "found"]
    BY <1>2 DEF Create, Make, Goes
  <2>2. r \in Rooms /\ n \in Names /\ r # NoRoom /\ \A x \in 1 .. made : x # r
    BY <2>1, RegistryAssumption DEF RegistryAssumption, MapTyped
  <2>3. named'[r] = n /\ \A x \in 1 .. made : named'[x] = named[x]
    BY <2>1, <2>2, RegistryAssumption DEF MapTyped, RegistryAssumption
  <2>4. rooms'[n] = r /\ \A m \in Names \ {n} : rooms'[m] = rooms[m]
    BY <2>1, <2>2 DEF MapTyped
  <2>5. MapTyped'
    <3>1. made' \in Nat /\ made' <= MaxRooms
      BY <2>1, RegistryAssumption DEF MapTyped, RegistryAssumption
    <3>2. rooms' \in [Names -> 0 .. made']
      BY <2>1, <2>2 DEF MapTyped
    <3>3. named' = [x \in Rooms |-> named'[x]]
      BY <2>1, <2>2 DEF MapTyped
    <3>4. stale' \subseteq 1 .. made' /\ evicted' \subseteq 1 .. made'
      BY <2>1 DEF MapTyped
    <3>5. pc' \in [Requests -> Places] /\ wants' \in [Requests -> Names]
      BY <2>1 DEF MapTyped, Places
    <3> QED BY <3>1, <3>2, <3>3, <3>4, <3>5 DEF MapTyped
  <2>6. MapIsNamed'
    <3> SUFFICES ASSUME NEW m \in Names, rooms'[m] # NoRoom PROVE named'[rooms'[m]] = m
      BY DEF MapIsNamed
    <3>1. CASE m = n  BY <3>1, <2>3, <2>4
    <3>2. CASE m # n
      <4>1. rooms'[m] = rooms[m] /\ rooms[m] \in 1 .. made
        BY <3>2, <2>4 DEF MapTyped
      <4> QED BY <4>1, <2>3 DEF MapIsNamed
    <3> QED BY <3>1, <3>2
  <2>7. Delivery'
    <3> SUFFICES ASSUME NEW p \in Requests
                 PROVE  /\ Underway(p)' => Had(wants[p])'
                        /\ pc'[p] = "sent" /\ p \notin injected' =>
                             \E x \in evicted' : named'[x] = wants'[p]
                        /\ pc'[p] = "notify" => p \in injected'
      BY DEF Delivery
    <3>1. \A m : (\E x \in evicted : named[x] = m) => \E x \in evicted' : named'[x] = m
      BY <2>1, <2>3 DEF MapTyped
    <3>2. \A m \in Names : Had(m) => Had(m)'
      <4> SUFFICES ASSUME NEW m \in Names, Had(m) PROVE Had(m)'
        OBVIOUS
      <4>1. CASE m = n  BY <4>1, <2>4, <2>2 DEF Had
      <4>2. CASE m # n  BY <4>2, <2>4, <3>1 DEF Had
      <4> QED BY <4>1, <4>2
    <3>3. wants'[p] = wants[p] /\ wants[p] \in Names
      BY <2>1 DEF MapTyped
    <3>4. CASE p = q
      <4>1. pc'[p] = "found" /\ Had(n)'
        BY <3>4, <2>1, <2>2, <2>4 DEF MapTyped, Had
      <4> QED BY <4>1, <3>4, <3>3, <2>1
    <3>5. CASE p # q
      <4>1. pc'[p] = pc[p]
        BY <3>5, <2>1 DEF MapTyped
      <4>2. /\ Underway(p) => Had(wants[p])
            /\ pc[p] = "sent" /\ p \notin injected => \E x \in evicted : named[x] = wants[p]
            /\ pc[p] = "notify" => p \in injected
        BY DEF Delivery
      <4>4. Underway(p)' => Had(wants[p])'
        BY <4>1, <4>2, <3>2, <3>3 DEF Underway, Had
      <4> QED BY <4>1, <4>2, <4>4, <3>1, <3>3, <2>1
    <3> QED BY <3>4, <3>5
  <2> QED BY <2>5, <2>6, <2>7
<1> QED BY <1>1, <1>2

\* gc takes rooms out, each of which it was made for the name it is under.
LEMMA GcKeepsRegistry ==
  ASSUME RegistryInv, RegistryAssumption, gc_idle
  PROVE  RegistryInv'
<1> USE DEF RegistryInv, NoRoom, Rooms
<1>1. /\ rooms' = [n \in Names |-> IF rooms[n] \in stale THEN NoRoom ELSE rooms[n]]
      /\ evicted' = evicted \cup (stale \cap {rooms[n] : n \in Names})
      /\ UNCHANGED <<made, named, stale, pc, wants, injected>>
  BY DEF gc_idle, requestVars
<1>2. MapTyped'
  <2>1. rooms' \in [Names -> 0 .. made]
    BY <1>1 DEF MapTyped
  <2>2. evicted' \subseteq 1 .. made
    BY <1>1 DEF MapTyped
  <2> QED BY <1>1, <2>1, <2>2 DEF MapTyped
<1>3. MapIsNamed'
  BY <1>1 DEF MapIsNamed, MapTyped
<1>4. Delivery'
  <2>1. \A n \in Names : Had(n) => Had(n)'
    <3> SUFFICES ASSUME NEW n \in Names, Had(n) PROVE Had(n)'
      OBVIOUS
    <3>1. CASE rooms[n] # NoRoom /\ rooms[n] \in stale
      <4>1. rooms[n] \in evicted' /\ named'[rooms[n]] = n
        BY <3>1, <1>1 DEF MapIsNamed
      <4> QED BY <4>1 DEF Had
    <3>2. CASE rooms[n] # NoRoom /\ rooms[n] \notin stale
      BY <3>2, <1>1 DEF Had
    <3>3. CASE \E r \in evicted : named[r] = n
      BY <3>3, <1>1 DEF Had
    <3> QED BY <3>1, <3>2, <3>3 DEF Had
  <2> QED
    BY <2>1, <1>1 DEF Delivery, Underway, Had, MapTyped
<1> QED BY <1>2, <1>3, <1>4

\* What reads nothing of the map, and moves no request.
LEMMA OthersKeepRegistry ==
  ASSUME RegistryInv,
         UNCHANGED <<rooms, made, named, evicted, pc, wants, injected>>,
         stale' \subseteq 1 .. made
  PROVE  RegistryInv'
<1>1. MapTyped'
  BY DEF RegistryInv, MapTyped
<1>2. MapIsNamed'
  BY DEF RegistryInv, MapIsNamed
<1>3. Delivery'
  BY DEF RegistryInv, Delivery, Underway, Had
<1> QED BY <1>1, <1>2, <1>3 DEF RegistryInv

LEMMA RegistryStep ==
  ASSUME RegistryInv, RegistryAssumption, [Next]_vars
  PROVE  RegistryInv'
<1>1. CASE UNCHANGED vars
  <2>1. stale' \subseteq 1 .. made
    BY <1>1 DEF vars, lockVars, RegistryInv, MapTyped
  <2> QED
    BY <1>1, <2>1, OthersKeepRegistry DEF vars, lockVars, requestVars
<1>2. CASE Next
  <2> DEFINE Goal == RegistryInv'
             Aside == /\ UNCHANGED <<rooms, made, named, evicted, pc, wants, injected>>
                      /\ stale' \subseteq 1 .. made
  <2>0. Aside => Goal
    BY OthersKeepRegistry
  <2>1. \A q \in Requests :
          Start(q) \/ Find(q) \/ Persist(q) \/ Attach(q) \/ Attached(q) \/ Inject(q)
            \/ NotifyOne(q) => Goal
    <3>1. pc \in [Requests -> Places]
      BY DEF RegistryInv, MapTyped
    <3> QED BY <3>1, StepsOfRequests, RequestKeepsRegistry
  <2>2. \A q \in Requests : Create(q) => Goal
    BY CreateKeepsRegistry
  <2>3. gc_idle => Goal
    BY GcKeepsRegistry
  <2>4. stale \subseteq 1 .. made
    BY DEF RegistryInv, MapTyped
  <2>5. \A r \in Rooms : Listen(r) \/ LockState(r) \/ TurnBegin(r) \/ RoundsOver(r)
                           \/ TurnPanics(r) \/ TurnEnd(r) => Aside
    BY <2>4 DEF Listen, LockState, TurnBegin, RoundsOver, TurnPanics, TurnEnd, Touch, lockVars, requestVars
  <2>6. TimePasses \/ GcTick => Aside
    BY <2>4 DEF TimePasses, GcTick, requestVars
  <2> HIDE DEF Goal, Aside
  <2>7. Goal
    BY <1>2, <2>0, <2>1, <2>2, <2>3, <2>5, <2>6, RegistryCases
  <2> QED BY <2>7 DEF Goal
<1> QED BY <1>1, <1>2

LEMMA RegistryInit == RegistryAssumption /\ Init => RegistryInv
<1> SUFFICES ASSUME RegistryAssumption, Init PROVE RegistryInv
  OBVIOUS
<1> USE DEF Init, NoRoom, Rooms
<1>1. MapTyped
  BY DEF MapTyped, Places, RegistryAssumption
<1>2. MapIsNamed
  BY DEF MapIsNamed
<1>3. Delivery
  BY DEF Delivery, Underway
<1> QED BY <1>1, <1>2, <1>3 DEF RegistryInv

\* A message whose caller was told that it is sent reached its room, unless gc
\* removed that room while chat:message was under way: attach_door and
\* inject_message look the room up again, each under a lock of its own.
THEOREM RoomsLoseNoMessage == RoomsSpec => []MessageNotLost
<1>1. RoomsInit => RegistryInv
  BY RegistryInit, RegistryAssumption DEF RoomsInit
<1>2. RegistryInv /\ [RoomsNext]_<<which, vars, talksVars>> => RegistryInv'
  BY RegistryStep, RegistryAssumption DEF RoomsNext
<1>3. RegistryInv => MessageNotLost
  BY DEF RegistryInv, Delivery, MessageNotLost
<1> QED BY <1>1, <1>2, <1>3, PTL DEF RoomsSpec

-----------------------------------------------------------------------------
(* The rounds of a room.                                                   *)

AgentTasks == {"out", "llm", "tools", "done", "stays", "panicked"}

UserStates == {"unsent", "attach", "inject", "sent"}

\* What was said, and what histories hold.
Sayings == [agent : Agents, round : Nat]

Lines == [kind : {"talk", "polled", "injected"}, text : Messages \cup Sayings]

Told(s) == {s[i] : i \in DOMAIN s}

Never(h, x) == \A k \in DOMAIN h : h[k] # x

Once(h, x) == \E k \in DOMAIN h : h[k] = x /\ \A l \in DOMAIN h : h[l] = x => l = k

Apart(s) == \A i, j \in DOMAIN s : s[i] = s[j] => i = j

RoundsTyped ==
  /\ hist \in [Agents -> Seq(Lines)] /\ transcript \in Seq(Sayings)
  /\ active \subseteq Agents /\ members \subseteq Agents
  /\ inbox \in Seq(Messages) /\ db \in Seq(Messages) /\ cursor \in Nat
  /\ round \in Nat /\ max_rounds \in Nat /\ has_door \in BOOLEAN
  /\ task \in [Agents -> AgentTasks] /\ results \in Seq(Agents)
  /\ user \in [Messages -> UserStates]

\* An agent's result comes once in a round, when it has no call to make.
ResultsOnce == Apart(results) /\ \A i \in DOMAIN results : task[results[i]] \notin {"llm", "tools"}

\* Everyone in the room has heard all that others said.
AllHeard == \A a \in active : \A e \in Told(transcript) : e.agent # a => Once(hist[a], Talks!Talk(e))

\* At the head of a round: all but what was said in the last one.
HeardUpToLast ==
  /\ \A a \in active : \A e \in Told(transcript) :
       e.agent # a => IF e.round + 1 < round THEN Once(hist[a], Talks!Talk(e))
                                             ELSE Never(hist[a], Talks!Talk(e))
  /\ round > 0 => \E e \in Told(transcript) : e.round + 1 = round

\* Nobody has heard what was not said, and nothing was said twice.
OnlyWhatWasSaid ==
  /\ \A a \in Agents : \A k \in DOMAIN hist[a] :
       hist[a][k].kind = "talk" => hist[a][k].text \in Told(transcript)
  /\ Apart(transcript)
  /\ \A e \in Told(transcript) : e.round < round

\* A room of room:run, which has no door and one run.
OneRun ==
  /\ \A m \in Messages : user[m] \in {"unsent", "sent"}
  /\ phase \in {"begin", "head", "agents", "summary", "cleanup", "over", "dropped"}
  /\ phase = "begin" => transcript = <<>> /\ round = 0
  /\ phase \in {"begin", "head", "agents"} => OnlyWhatWasSaid
  /\ phase = "head" => HeardUpToLast
  /\ phase = "agents" => AllHeard
  /\ phase = "summary" /\ round < max_rounds => AllHeard

RoundsInv ==
  /\ RoundsTyped
  /\ phase = "agents" => ResultsOnce
  /\ ~has_door => OneRun

\* Where the elements of two sequences, one after the other, are.
LEMMA ConcatAt ==
  ASSUME NEW R, NEW s \in Seq(R), NEW t \in Seq(R)
  PROVE  /\ s \o t \in Seq(R)
         /\ \A k \in DOMAIN s : k \in DOMAIN (s \o t) /\ (s \o t)[k] = s[k]
         /\ \A k \in DOMAIN t : k + Len(s) \in DOMAIN (s \o t) /\ (s \o t)[k + Len(s)] = t[k]
         /\ \A k \in DOMAIN (s \o t) :
              \/ k \in DOMAIN s /\ (s \o t)[k] = s[k]
              \/ \E l \in DOMAIN t : k = l + Len(s) /\ (s \o t)[k] = t[l]
<1>1. /\ s \o t \in Seq(R) /\ Len(s \o t) = Len(s) + Len(t) /\ Len(s) \in Nat /\ Len(t) \in Nat
      /\ DOMAIN (s \o t) = 1..(Len(s) + Len(t)) /\ DOMAIN s = 1..Len(s) /\ DOMAIN t = 1..Len(t)
  OBVIOUS
<1>2. \A k \in 1..(Len(s) + Len(t)) : (s \o t)[k] = IF k <= Len(s) THEN s[k] ELSE t[k - Len(s)]
  OBVIOUS
<1>3. ASSUME NEW k \in DOMAIN t
      PROVE  k + Len(s) \in DOMAIN (s \o t) /\ (s \o t)[k + Len(s)] = t[k]
  BY <1>1, <1>2, <1>3
<1>4. ASSUME NEW k \in DOMAIN (s \o t)
      PROVE  \/ k \in DOMAIN s /\ (s \o t)[k] = s[k]
             \/ \E l \in DOMAIN t : k = l + Len(s) /\ (s \o t)[k] = t[l]
  <2>1. CASE k <= Len(s)
    BY <1>1, <1>2, <1>4, <2>1
  <2>2. CASE ~(k <= Len(s))
    <3>1. k - Len(s) \in DOMAIN t /\ k = (k - Len(s)) + Len(s) /\ (s \o t)[k] = t[k - Len(s)]
      BY <1>1, <1>2, <1>4, <2>2
    <3> QED BY <3>1
  <2> QED BY <2>1, <2>2
<1>5. \A k \in DOMAIN s : k \in DOMAIN (s \o t) /\ (s \o t)[k] = s[k]
  BY <1>1, <1>2
<1> QED BY <1>1, <1>3, <1>4, <1>5

LEMMA NeverConcat ==
  ASSUME NEW R, NEW s \in Seq(R), NEW t \in Seq(R), NEW x, Never(s, x), Never(t, x)
  PROVE  Never(s \o t, x)
<1>1. ASSUME NEW k \in DOMAIN (s \o t) PROVE (s \o t)[k] # x
  BY <1>1, ConcatAt DEF Never
<1> QED BY <1>1 DEF Never

LEMMA OnceConcat ==
  ASSUME NEW R, NEW s \in Seq(R), NEW t \in Seq(R), NEW x,
         (Once(s, x) /\ Never(t, x)) \/ (Never(s, x) /\ Once(t, x))
  PROVE  Once(s \o t, x)
<1>1. CASE Once(s, x) /\ Never(t, x)
  <2>1. PICK k \in DOMAIN s : s[k] = x /\ \A l \in DOMAIN s : s[l] = x => l = k
    BY <1>1 DEF Once
  <2>2. k \in DOMAIN (s \o t) /\ (s \o t)[k] = x
    BY <2>1, ConcatAt
  <2>3. ASSUME NEW l \in DOMAIN (s \o t), (s \o t)[l] = x PROVE l = k
    <3>1. ~\E j \in DOMAIN t : l = j + Len(s) /\ (s \o t)[l] = t[j]
      BY <1>1, <2>3 DEF Never
    <3> QED BY <2>1, <2>3, <3>1, ConcatAt
  <2> QED BY <2>2, <2>3 DEF Once
<1>2. CASE Never(s, x) /\ Once(t, x)
  <2>1. PICK k \in DOMAIN t : t[k] = x /\ \A l \in DOMAIN t : t[l] = x => l = k
    BY <1>2 DEF Once
  <2>2. k + Len(s) \in DOMAIN (s \o t) /\ (s \o t)[k + Len(s)] = x
    BY <2>1, ConcatAt
  <2>3. ASSUME NEW l \in DOMAIN (s \o t), (s \o t)[l] = x PROVE l = k + Len(s)
    <3>1. ~(l \in DOMAIN s /\ (s \o t)[l] = s[l])
      BY <1>2, <2>3 DEF Never
    <3>2. PICK j \in DOMAIN t : l = j + Len(s) /\ (s \o t)[l] = t[j]
      BY <3>1, ConcatAt
    <3> QED BY <2>1, <2>3, <3>2
  <2> QED BY <2>2, <2>3 DEF Once
<1> QED BY <1>1, <1>2

LEMMA SplitAt ==
  ASSUME NEW R, NEW s \in Seq(R), NEW k \in 1..Len(s)
  PROVE  s = SubSeq(s, 1, k - 1) \o (<<s[k]>> \o SubSeq(s, k + 1, Len(s)))
<1> DEFINE b == SubSeq(s, 1, k - 1)
           a == SubSeq(s, k + 1, Len(s))
           w == <<s[k]>> \o a
<1>1. /\ b \in Seq(R) /\ Len(b) = k - 1
      /\ \A i \in 1..(k - 1) : b[i] = s[i]
  OBVIOUS
<1>2. /\ a \in Seq(R) /\ Len(a) = Len(s) - k
      /\ \A i \in 1..(Len(s) - k) : a[i] = s[i + k]
  OBVIOUS
<1> HIDE DEF a
<1>3. s[k] \in R /\ Len(s) \in Nat /\ k \in Nat /\ Len(a) \in Nat
  BY <1>2
<1>4. <<s[k]>> \in Seq(R) /\ Len(<<s[k]>>) = 1 /\ <<s[k]>>[1] = s[k]
  BY <1>3
<1>5. w \in Seq(R) /\ Len(w) = Len(s) - k + 1
  <2>1. a \in Seq(R)
    BY <1>2
  <2>2. w \in Seq(R) /\ Len(w) = 1 + Len(a)
    BY <1>4, <2>1
  <2> QED BY <1>2, <1>3, <2>2
<1>6. ASSUME NEW i \in 1..(Len(s) - k + 1) PROVE w[i] = s[i + k - 1]
  <2>1. CASE i = 1
    BY <1>2, <1>3, <1>4, <2>1
  <2>2. CASE i # 1
    <3>1. i - 1 \in 1..(Len(s) - k) /\ (i - 1) + k = i + k - 1
      BY <1>3, <1>6, <2>2
    <3>2. w[i] = a[i - 1]
      BY <1>2, <1>3, <1>6, <2>2
    <3> QED BY <1>2, <3>1, <3>2
  <2> QED BY <2>1, <2>2
<1> HIDE DEF b, w
<1> DEFINE q == b \o w
<1>7. q \in Seq(R) /\ Len(q) = Len(s)
  BY <1>1, <1>3, <1>5
<1>8. \A i \in 1..Len(s) : q[i] = IF i <= k - 1 THEN b[i] ELSE w[i - (k - 1)]
  <2>1. b \in Seq(R) /\ w \in Seq(R)
    BY <1>1, <1>5
  <2>2. \A i \in 1..(Len(b) + Len(w)) : q[i] = IF i <= Len(b) THEN b[i] ELSE w[i - Len(b)]
    BY <2>1
  <2>3. Len(b) = k - 1 /\ Len(b) + Len(w) = Len(s)
    BY <1>1, <1>3, <1>5
  <2> QED BY <2>2, <2>3
<1> HIDE DEF q
<1>9. ASSUME NEW i \in 1..Len(s) PROVE q[i] = s[i]
  <2>1. CASE i <= k - 1
    BY <1>1, <1>3, <1>8, <1>9, <2>1
  <2>2. CASE ~(i <= k - 1)
    <3>1. i - (k - 1) \in 1..(Len(s) - k + 1) /\ (i - (k - 1)) + k - 1 = i
      BY <1>3, <1>9, <2>2
    <3> QED BY <1>6, <1>8, <1>9, <2>2, <3>1
  <2> QED BY <2>1, <2>2
<1>10. q = s
  BY <1>7, <1>9
<1> QED BY <1>10 DEF q, w, a, b

\* What follows the k-th element of a sequence, element by element.
LEMMA TailPart ==
  ASSUME NEW R, NEW s \in Seq(R), NEW k \in 1..Len(s), NEW i \in 1..Len(s) - k
  PROVE  SubSeq(s, k + 1, Len(s))[i] = s[i + k]
<1>1. Len(s) \in Nat /\ k \in Nat /\ k >= 1 /\ k <= Len(s)
  OBVIOUS
<1>2. i \in 1..(Len(s) - (k + 1) + 1) /\ (k + 1) + i - 1 = i + k
  BY <1>1
<1>3. SubSeq(s, k + 1, Len(s))[i] = s[(k + 1) + i - 1]
  BY <1>1, <1>2
<1> QED BY <1>2, <1>3

\* What is once in a sequence is once in what is sifted from it.
LEMMA SiftOnce ==
  ASSUME NEW R, NEW s \in Seq(R), NEW S, NEW x \in S, Once(s, x)
  PROVE  Once(Sift(s, S), x)
<1>1. PICK k \in DOMAIN s : s[k] = x /\ \A l \in DOMAIN s : s[l] = x => l = k
  BY DEF Once
<1> DEFINE before == SubSeq(s, 1, k - 1)
           after == SubSeq(s, k + 1, Len(s))
           rest == R \ {x}
<1>2. k \in 1..Len(s) /\ Len(s) \in Nat /\ x \in R
  BY <1>1
<1>3. /\ before \in Seq(R) /\ after \in Seq(R) /\ <<x>> \in Seq(R)
      /\ Len(before) = k - 1 /\ Len(after) = Len(s) - k
  BY <1>2
<1>4. ASSUME NEW i \in 1..Len(before) PROVE before[i] \in rest
  <2>1. i \in 1..k - 1
    BY <1>3, <1>4
  <2>2. i \in 1..Len(s) /\ i # k
    BY <1>2, <2>1
  <2>3. before[i] = s[i]
    BY <1>2, <2>1
  <2>4. s[i] \in R /\ s[i] # x
    BY <1>1, <2>2
  <2> QED BY <2>3, <2>4 DEF rest
<1>5. ASSUME NEW i \in 1..Len(after) PROVE after[i] \in rest
  <2>1. i \in 1..Len(s) - k
    BY <1>3, <1>5
  <2>2. i + k \in 1..Len(s) /\ i + k # k
    BY <1>2, <2>1
  <2>3. after[i] = s[i + k]
    BY <1>2, <2>1, TailPart
  <2>4. s[i + k] \in R /\ s[i + k] # x
    BY <1>1, <2>2
  <2> QED BY <2>3, <2>4 DEF rest
<1>6. s = before \o (<<x>> \o after)
  BY <1>1, <1>2, SplitAt
<1> HIDE DEF before, after, rest
<1>7. before \in Seq(rest) /\ after \in Seq(rest)
  BY <1>3, <1>4, <1>5
<1>8. Sift(before, S) \in Seq(rest \cap S) /\ Sift(after, S) \in Seq(rest \cap S)
  BY <1>7, SiftIn
<1>9. Never(Sift(before, S), x) /\ Never(Sift(after, S), x)
  <2>1. x \notin rest \cap S
    BY DEF rest
  <2> QED BY <1>8, <2>1 DEF Never
<1>10. Sift(<<x>>, S) = <<x>>
  <2>1. \A i \in 1..Len(<<x>>) : <<x>>[i] \in S
    OBVIOUS
  <2> QED BY <1>3, <2>1, SiftAll
<1>11. Sift(<<x>> \o after, S) = <<x>> \o Sift(after, S)
  <2> DEFINE q == <<x>>
  <2> HIDE DEF q
  <2>1. q \in Seq(R)
    BY <1>3 DEF q
  <2>2. after \in Seq(R)
    BY <1>3
  <2>3. Sift(q \o after, S) = Sift(q, S) \o Sift(after, S)
    BY <2>1, <2>2, SiftConcat
  <2> QED BY <1>10, <2>3 DEF q
<1>12. <<x>> \o after \in Seq(R)
  BY <1>3
<1>13. Sift(s, S) = Sift(before, S) \o (<<x>> \o Sift(after, S))
  <2> DEFINE q == <<x>> \o after
  <2> HIDE DEF q
  <2>1. q \in Seq(R)
    BY <1>12 DEF q
  <2>2. before \in Seq(R)
    BY <1>3
  <2>3. Sift(before \o q, S) = Sift(before, S) \o Sift(q, S)
    BY <2>1, <2>2, SiftConcat
  <2> QED BY <1>6, <1>11, <2>3 DEF q
<1>14. Once(<<x>>, x)
  BY DEF Once
<1>15. <<x>> \in Seq(S) /\ Sift(before, S) \in Seq(S) /\ Sift(after, S) \in Seq(S)
  BY <1>8
<1>16. Once(<<x>> \o Sift(after, S), x)
  BY <1>9, <1>14, <1>15, OnceConcat
<1>17. <<x>> \o Sift(after, S) \in Seq(S)
  BY <1>15
<1>18. Once(Sift(before, S) \o (<<x>> \o Sift(after, S)), x)
  <2> DEFINE u == Sift(before, S)
             v == <<x>> \o Sift(after, S)
  <2> HIDE DEF u, v
  <2>1. u \in Seq(S) /\ v \in Seq(S) /\ Never(u, x) /\ Once(v, x)
    BY <1>9, <1>15, <1>16, <1>17 DEF u, v
  <2>2. Once(u \o v, x)
    BY <2>1, OnceConcat
  <2> QED BY <2>2 DEF u, v
<1> QED BY <1>13, <1>18

LEMMA GoneIsTyped ==
  ASSUME RoundsTyped, Talks!RoomGone
  PROVE  /\ hist' \in [Agents -> Seq(Lines)] /\ transcript' \in Seq(Sayings)
         /\ active' \subseteq Agents /\ round' \in Nat /\ cursor' \in Nat
<1>1. /\ active' = {} /\ hist' = [a \in Agents |-> <<>>] /\ transcript' = <<>> /\ round' = 0
      /\ cursor' = Len(db) /\ db \in Seq(Messages)
  BY DEF Talks!RoomGone, RoundsTyped
<1>2. \A S : <<>> \in Seq(S)
  OBVIOUS
<1> QED BY <1>1, <1>2

\* The steps that say nothing and are heard by nobody: those of users, of the
\* writer, and of a run between its rounds.
LEMMA UsersKeep ==
  ASSUME RoundsInv, NEW m \in Messages,
         Talks!Say(m) \/ Talks!AttachDoor(m) \/ Talks!InjectMessage(m)
  PROVE  RoundsInv'
<1>1. RoundsTyped
  BY DEF RoundsInv
<1>2. CASE Talks!Say(m)
  <2>1. /\ user' = [user EXCEPT ![m] = IF has_door THEN "attach" ELSE "sent"]
        /\ inbox' = Append(inbox, m)
        /\ UNCHANGED <<has_door, members, max_rounds, active, hist, transcript, phase, round, cursor,
                       task, results, db>>
    BY <1>2 DEF Talks!Say, Talks!roomVars, Talks!runVars, Talks!agentVars
  <2>2. user' \in [Messages -> UserStates] /\ inbox' \in Seq(Messages)
    BY <1>1, <2>1 DEF RoundsTyped, UserStates
  <2>3. RoundsTyped'
    BY <1>1, <2>1, <2>2 DEF RoundsTyped
  <2>4. ~has_door => \A n \in Messages : user[n] \in {"unsent", "sent"} => user'[n] \in {"unsent", "sent"}
    BY <1>1, <2>1 DEF RoundsTyped
  <2> QED BY <2>1, <2>3, <2>4
             DEF RoundsInv, OneRun, ResultsOnce, OnlyWhatWasSaid, HeardUpToLast, AllHeard
<1>3. CASE Talks!AttachDoor(m)
  <2>1. /\ user' = [user EXCEPT ![m] = "inject"] /\ transcript' = <<>> /\ active' = members
        /\ phase = "idle"
        /\ UNCHANGED <<has_door, members, max_rounds, hist, phase, round, cursor, task, results,
                       inbox, db>>
    BY <1>3 DEF Talks!AttachDoor, Talks!runVars, Talks!agentVars
  <2>2. user' \in [Messages -> UserStates] /\ transcript' \in Seq(Sayings)
    BY <1>1, <2>1 DEF RoundsTyped, UserStates
  <2>3. RoundsTyped'
    BY <1>1, <2>1, <2>2 DEF RoundsTyped
  <2> QED BY <2>1, <2>3 DEF RoundsInv, OneRun
<1>4. CASE Talks!InjectMessage(m)
  <2>1. /\ user' = [user EXCEPT ![m] = "sent"] /\ phase = "idle"
        /\ hist' = [a \in Agents |-> IF a \in members THEN Append(hist[a], Talks!Injected(m)) ELSE hist[a]]
        /\ UNCHANGED <<has_door, members, max_rounds, active, transcript, phase, round, cursor, task,
                       results, inbox, db>>
    BY <1>4 DEF Talks!InjectMessage, Talks!runVars, Talks!agentVars
  <2>2. Talks!Injected(m) \in Lines
    BY DEF Talks!Injected, Lines
  <2>3. ASSUME NEW a \in Agents PROVE Append(hist[a], Talks!Injected(m)) \in Seq(Lines)
    <3>1. hist[a] \in Seq(Lines)
      BY <1>1 DEF RoundsTyped
    <3> QED BY <2>2, <3>1
  <2>4. hist' \in [Agents -> Seq(Lines)]
    BY <1>1, <2>1, <2>3 DEF RoundsTyped
  <2>5. user' \in [Messages -> UserStates]
    BY <1>1, <2>1 DEF RoundsTyped, UserStates
  <2>6. RoundsTyped'
    BY <1>1, <2>1, <2>4, <2>5 DEF RoundsTyped
  <2> QED BY <2>1, <2>6 DEF RoundsInv, OneRun
<1> QED BY <1>2, <1>3, <1>4

LEMMA BetweenKeeps ==
  ASSUME RoundsInv,
         \/ Talks!WriterInserts \/ Talks!TurnBegin \/ Talks!Begin \/ Talks!RoundsUsedUp
         \/ Talks!Summarize \/ Talks!Finish \/ Talks!Dropped \/ UNCHANGED talksVars
  PROVE  RoundsInv'
<1>1. RoundsTyped
  BY DEF RoundsInv
<1>2. CASE Talks!WriterInserts
  <2>1. /\ inbox # <<>> /\ db' = Append(db, Head(inbox)) /\ inbox' = Tail(inbox)
        /\ UNCHANGED <<has_door, members, max_rounds, active, hist, transcript, phase, round, cursor,
                       task, results, user>>
    BY <1>2 DEF Talks!WriterInserts, Talks!roomVars, Talks!runVars, Talks!agentVars
  <2>2. db' \in Seq(Messages) /\ inbox' \in Seq(Messages)
    <3>1. db \in Seq(Messages) /\ inbox \in Seq(Messages)
      BY <1>1 DEF RoundsTyped
    <3>2. Head(inbox) \in Messages /\ Tail(inbox) \in Seq(Messages)
      BY <2>1, <3>1
    <3> QED BY <2>1, <3>1, <3>2
  <2>3. RoundsTyped'
    BY <1>1, <2>1, <2>2 DEF RoundsTyped
  <2> QED BY <2>1, <2>3
             DEF RoundsInv, OneRun, ResultsOnce, OnlyWhatWasSaid, HeardUpToLast, AllHeard
<1>3. CASE Talks!TurnBegin
  <2>1. /\ phase = "idle" /\ phase' = "begin"
        /\ UNCHANGED <<has_door, members, max_rounds, active, hist, transcript, round, cursor, task,
                       results, user, inbox, db>>
    BY <1>3 DEF Talks!TurnBegin, Talks!roomVars, Talks!agentVars
  <2>2. RoundsTyped'
    BY <1>1, <2>1 DEF RoundsTyped
  <2> QED BY <2>1, <2>2 DEF RoundsInv, OneRun
<1>4. CASE Talks!Begin
  <2>1. /\ phase = "begin"
        /\ UNCHANGED <<has_door, members, max_rounds, active, hist, transcript, task, results, user,
                       inbox, db>>
        /\ \/ phase' = "over" /\ UNCHANGED <<round, cursor>>
           \/ phase' = "head" /\ round' = 0 /\ cursor' = Len(db)
    BY <1>4 DEF Talks!Begin, Talks!agentVars, Talks!userVars
  <2>2. Len(db) \in Nat
    BY <1>1 DEF RoundsTyped
  <2>3. RoundsTyped'
    BY <1>1, <2>1, <2>2 DEF RoundsTyped
  <2>4. ASSUME ~has_door PROVE OneRun'
    <3>1. OneRun /\ transcript = <<>> /\ round = 0 /\ OnlyWhatWasSaid
      BY <2>1, <2>4 DEF RoundsInv, OneRun
    <3>2. Told(transcript) = {}
      BY <3>1 DEF Told
    <3>3. HeardUpToLast'
      BY <2>1, <3>1, <3>2 DEF HeardUpToLast, Told
    <3>4. phase' = "head" => OnlyWhatWasSaid'
      BY <2>1, <3>1 DEF OnlyWhatWasSaid, Told
    <3> QED BY <2>1, <3>1, <3>3, <3>4 DEF OneRun
  <2> QED BY <2>1, <2>3, <2>4 DEF RoundsInv
<1>5. CASE Talks!RoundsUsedUp
  <2>1. /\ phase = "head" /\ round = max_rounds /\ phase' = "summary"
        /\ UNCHANGED <<has_door, members, max_rounds, active, hist, transcript, round, cursor, task,
                       results, user, inbox, db>>
    BY <1>5 DEF Talks!RoundsUsedUp, Talks!roomVars, Talks!agentVars, Talks!userVars
  <2>2. RoundsTyped' /\ ~(round' < max_rounds')
    BY <1>1, <2>1 DEF RoundsTyped
  <2> QED BY <2>1, <2>2 DEF RoundsInv, OneRun
<1>6. CASE Talks!Summarize
  <2>1. /\ phase = "summary" /\ phase' = "cleanup"
        /\ UNCHANGED <<has_door, members, max_rounds, active, hist, transcript, round, cursor, task,
                       results, user, inbox, db>>
    BY <1>6 DEF Talks!Summarize, Talks!roomVars, Talks!agentVars, Talks!userVars
  <2>2. RoundsTyped'
    BY <1>1, <2>1 DEF RoundsTyped
  <2> QED BY <2>1, <2>2 DEF RoundsInv, OneRun
<1>7. CASE Talks!Finish
  <2>1. /\ phase = "cleanup" /\ phase' = (IF has_door THEN "idle" ELSE "over")
        /\ UNCHANGED <<has_door, members, max_rounds, task, results, user, inbox, db>>
        /\ \/ UNCHANGED <<active, hist, transcript, round, cursor>>
           \/ Talks!RoomGone
    BY <1>7 DEF Talks!Finish, Talks!agentVars, Talks!userVars
  <2>2. RoundsTyped'
    <3>1. CASE UNCHANGED <<active, hist, transcript, round, cursor>>
      BY <1>1, <2>1, <3>1 DEF RoundsTyped
    <3>2. CASE Talks!RoomGone
      BY <1>1, <2>1, <3>2, GoneIsTyped DEF RoundsTyped
    <3> QED BY <2>1, <3>1, <3>2
  <2> QED BY <2>1, <2>2 DEF RoundsInv, OneRun
<1>8. CASE Talks!Dropped
  <2>1. /\ phase' = "dropped" /\ task' = [a \in Agents |-> "out"] /\ results' = <<>> /\ Talks!RoomGone
        /\ UNCHANGED <<has_door, members, max_rounds, user, inbox, db>>
    BY <1>8 DEF Talks!Dropped, Talks!userVars
  <2>2. task' \in [Agents -> AgentTasks] /\ results' \in Seq(Agents)
    BY <2>1 DEF AgentTasks
  <2>3. RoundsTyped'
    BY <1>1, <2>1, <2>2, GoneIsTyped DEF RoundsTyped
  <2> QED BY <2>1, <2>3 DEF RoundsInv, OneRun
<1>9. CASE UNCHANGED talksVars
  BY <1>9 DEF talksVars, RoundsInv, RoundsTyped, OneRun, ResultsOnce, OnlyWhatWasSaid, HeardUpToLast,
              AllHeard
<1> QED BY <1>2, <1>3, <1>4, <1>5, <1>6, <1>7, <1>8, <1>9

\* An agent at work.
LEMMA AgentKeeps ==
  ASSUME RoundsInv, NEW a \in Agents,
         Talks!AgentStep(a) \/ Talks!AgentTools(a) \/ Talks!AgentPanics(a)
  PROVE  RoundsInv'
<1>1. /\ RoundsTyped /\ phase = "agents" /\ task[a] \in {"llm", "tools"} /\ ResultsOnce
  BY DEF RoundsInv, Talks!AgentStep, Talks!AgentTools, Talks!AgentPanics
<1>2. /\ UNCHANGED <<has_door, members, max_rounds, active, hist, transcript, round, cursor, inbox, db,
                     user>>
      /\ phase' \in {phase, "dead"} /\ (~has_door => phase' = phase)
      /\ \E to \in AgentTasks :
           /\ task' = [task EXCEPT ![a] = to]
           /\ results' = results \/ (to \notin {"llm", "tools"} /\ results' = Append(results, a))
  <2> DEFINE Goes2(to) == /\ task' = [task EXCEPT ![a] = to]
                          /\ results' = results
                             \/ (to \notin {"llm", "tools"} /\ results' = Append(results, a))
  <2>0. \A to, n : Talks!Comes(a, to, n) => Goes2(to)
    BY DEF Talks!Comes
  <2>1. CASE Talks!AgentStep(a)
    <3>1. \E to \in {"done", "tools", "stays"} : \E n : Talks!Comes(a, to, n)
      <4>1. CASE Talks!Comes(a, "stays", 0)
        BY <4>1
      <4>2. CASE \E got \in Talks!call_llm(a) :
                   Talks!Comes(a, CASE got.answer = "done" -> "done"
                                    [] got.answer = "tools" -> "tools"
                                    [] OTHER -> "stays", loops[a])
        <5>1. PICK got \in Talks!call_llm(a) :
                Talks!Comes(a, CASE got.answer = "done" -> "done"
                                 [] got.answer = "tools" -> "tools"
                                 [] OTHER -> "stays", loops[a])
          BY <4>2
        <5> DEFINE to == CASE got.answer = "done" -> "done"
                           [] got.answer = "tools" -> "tools"
                           [] OTHER -> "stays"
        <5>2. to \in {"done", "tools", "stays"}
          OBVIOUS
        <5>3. Talks!Comes(a, to, loops[a])
          BY <5>1
        <5> HIDE DEF to
        <5> QED BY <5>2, <5>3
      <4> QED BY <2>1, <4>1, <4>2 DEF Talks!AgentStep
    <3>2. PICK to \in {"done", "tools", "stays"} : Goes2(to)
      BY <2>0, <3>1
    <3>3. to \in AgentTasks
      BY DEF AgentTasks
    <3>4. UNCHANGED <<has_door, members, max_rounds, active, hist, transcript, phase, round, cursor,
                      inbox, db, user>>
      BY <2>1 DEF Talks!AgentStep, Talks!roomVars, Talks!runVars, Talks!userVars
    <3> QED BY <3>2, <3>3, <3>4
  <2>2. CASE Talks!AgentTools(a)
    <3>1. \E to \in {"llm", "stays"} : \E n : Talks!Comes(a, to, n)
      <4>1. CASE Talks!Comes(a, "stays", 0)
        BY <4>1
      <4>2. CASE Talks!Comes(a, IF loops[a] + 1 < MAX_INNER_LOOPS THEN "llm" ELSE "stays", loops[a] + 1)
        <5> DEFINE to == IF loops[a] + 1 < MAX_INNER_LOOPS THEN "llm" ELSE "stays"
        <5>1. to \in {"llm", "stays"}
          OBVIOUS
        <5>2. Talks!Comes(a, to, loops[a] + 1)
          BY <4>2
        <5> HIDE DEF to
        <5> QED BY <5>1, <5>2
      <4> QED BY <2>2, <4>1, <4>2 DEF Talks!AgentTools
    <3>2. PICK to \in {"llm", "stays"} : Goes2(to)
      BY <2>0, <3>1
    <3>3. to \in AgentTasks
      BY DEF AgentTasks
    <3>4. UNCHANGED <<has_door, members, max_rounds, active, hist, transcript, phase, round, cursor,
                      inbox, db, user>>
      BY <2>2 DEF Talks!AgentTools, Talks!roomVars, Talks!runVars, Talks!userVars
    <3> QED BY <3>2, <3>3, <3>4
  <2>3. CASE Talks!AgentPanics(a)
    <3>1. /\ UNCHANGED <<has_door, members, max_rounds, active, hist, transcript, round, cursor,
                         results, inbox, db, user>>
          /\ task' = [task EXCEPT ![a] = "panicked"]
      BY <2>3 DEF Talks!AgentPanics, Talks!roomVars, Talks!userVars
    <3>2. phase' \in {phase, "dead"} /\ (~has_door => phase' = phase)
      BY <2>3 DEF Talks!AgentPanics
    <3>3. "panicked" \in AgentTasks
      BY DEF AgentTasks
    <3> QED BY <3>1, <3>2, <3>3
  <2> QED BY <2>1, <2>2, <2>3
<1>3. PICK to \in AgentTasks :
        /\ task' = [task EXCEPT ![a] = to]
        /\ results' = results \/ (to \notin {"llm", "tools"} /\ results' = Append(results, a))
  BY <1>2
<1>4. /\ task \in [Agents -> AgentTasks] /\ results \in Seq(Agents)
      /\ \A i \in DOMAIN results : results[i] \in Agents /\ results[i] # a
  <2>1. task \in [Agents -> AgentTasks] /\ results \in Seq(Agents)
    BY <1>1 DEF RoundsTyped
  <2> QED BY <1>1, <2>1 DEF ResultsOnce
<1>5. task' \in [Agents -> AgentTasks] /\ \A b \in Agents \ {a} : task'[b] = task[b]
  BY <1>3, <1>4
<1>6. results' \in Seq(Agents) /\ ResultsOnce'
  <2>1. CASE results' = results
    BY <1>1, <1>4, <1>5, <2>1 DEF ResultsOnce
  <2>2. CASE to \notin {"llm", "tools"} /\ results' = Append(results, a)
    <3>1. /\ results' \in Seq(Agents) /\ DOMAIN results = 1..Len(results) /\ Len(results) \in Nat
          /\ DOMAIN results' = 1..(Len(results) + 1) /\ results'[Len(results) + 1] = a
          /\ \A i \in 1..Len(results) : results'[i] = results[i]
      BY <1>4, <2>2
    <3>2. task'[a] \notin {"llm", "tools"}
      BY <1>3, <1>4, <2>2
    <3>3. ASSUME NEW i \in DOMAIN results' PROVE task'[results'[i]] \notin {"llm", "tools"}
      <4>1. CASE i = Len(results) + 1
        BY <3>1, <3>2, <4>1
      <4>2. CASE i \in DOMAIN results
        BY <1>1, <1>4, <1>5, <3>1, <4>2 DEF ResultsOnce
      <4> QED BY <3>1, <3>3, <4>1, <4>2
    <3>4. ASSUME NEW i \in DOMAIN results', NEW j \in DOMAIN results', results'[i] = results'[j]
          PROVE  i = j
      <4>1. CASE i \in DOMAIN results /\ j \in DOMAIN results
        BY <1>1, <3>1, <3>4, <4>1 DEF ResultsOnce, Apart
      <4>2. CASE i = Len(results) + 1 /\ j \in DOMAIN results
        BY <1>4, <3>1, <3>4, <4>2
      <4>3. CASE i \in DOMAIN results /\ j = Len(results) + 1
        BY <1>4, <3>1, <3>4, <4>3
      <4> QED BY <3>1, <3>4, <4>1, <4>2, <4>3
    <3> QED BY <3>1, <3>3, <3>4 DEF ResultsOnce, Apart
  <2> QED BY <1>3, <2>1, <2>2
<1>7. RoundsTyped'
  BY <1>1, <1>2, <1>5, <1>6 DEF RoundsTyped
<1>8. ~has_door => OneRun'
  BY <1>1, <1>2 DEF RoundsInv, OneRun, OnlyWhatWasSaid, AllHeard
<1> QED BY <1>2, <1>6, <1>7, <1>8 DEF RoundsInv

\* What the head of a round brings: to those in the room the news and a page.
LEMMA PollBrings ==
  ASSUME RoundsTyped, Talks!Poll
  PROVE  /\ cursor' \in Nat
         /\ \A a \in Agents \ active : hist'[a] = hist[a]
         /\ \A a \in active : \E t \in Seq(Lines) :
              /\ hist'[a] = hist[a] \o (IF round > 0 THEN Talks!News(a) ELSE <<>>) \o t
              /\ \A k \in DOMAIN t : t[k].kind = "polled"
         /\ hist' = [a \in Agents |-> hist'[a]]
<1>1. PICK page \in {<<>>, Talks!Fetched} :
        /\ hist' = [a \in Agents |->
                      IF a \notin active THEN hist[a]
                      ELSE hist[a] \o (IF round > 0 THEN Talks!News(a) ELSE <<>>)
                                   \o [i \in DOMAIN page |-> Talks!Polled(page[i])]]
        /\ cursor' = cursor + Len(page)
  BY DEF Talks!Poll
<1>2. page \in Seq(Messages)
  <2>1. <<>> \in Seq(Messages)
    OBVIOUS
  <2>2. Talks!Fetched \in Seq(Messages)
    <3>1. db \in Seq(Messages) /\ cursor \in Nat /\ PageLimit \in Nat
      BY RoomsAssumption DEF RoomsAssumption, RoundsTyped
    <3> DEFINE to == IF cursor + PageLimit <= Len(db) THEN cursor + PageLimit ELSE Len(db)
    <3>2. to \in Nat /\ to <= Len(db)
      BY <3>1
    <3> HIDE DEF to
    <3>3. SubSeq(db, cursor + 1, to) \in Seq(Messages)
      BY <3>1, <3>2
    <3> QED BY <3>3 DEF Talks!Fetched, to
  <2> QED BY <2>1, <2>2
<1> DEFINE t == [i \in DOMAIN page |-> Talks!Polled(page[i])]
<1>3. t \in Seq(Lines) /\ \A k \in DOMAIN t : t[k].kind = "polled"
  <2>1. DOMAIN page = 1..Len(page) /\ Len(page) \in Nat
    BY <1>2
  <2>2. ASSUME NEW i \in 1..Len(page)
        PROVE  Talks!Polled(page[i]) \in Lines /\ Talks!Polled(page[i]).kind = "polled"
    <3>1. page[i] \in Messages
      BY <1>2, <2>2
    <3> QED BY <3>1 DEF Talks!Polled, Lines
  <2>3. t \in [1..Len(page) -> Lines] /\ \A k \in 1..Len(page) : t[k].kind = "polled"
    BY <2>1, <2>2
  <2> HIDE DEF t
  <2>4. t \in Seq(Lines)
    BY <2>1, <2>3
  <2> QED BY <2>3, <2>4
<1>4. ASSUME NEW a \in active PROVE hist'[a] = hist[a] \o (IF round > 0 THEN Talks!News(a) ELSE <<>>) \o t
  BY <1>1, <1>4 DEF RoundsTyped
<1>5. cursor' \in Nat
  <2>1. Len(page) \in Nat /\ cursor \in Nat
    BY <1>2 DEF RoundsTyped
  <2> QED BY <1>1, <2>1
<1>6. \A a \in Agents \ active : hist'[a] = hist[a]
  BY <1>1
<1> HIDE DEF t
<1> QED BY <1>1, <1>3, <1>4, <1>5, <1>6

LEMMA TalksSift == \A s, S : Talks!Sift(s, S) = Sift(s, S)
BY DEF Talks!Sift, Talks!Sifted, Sift, Sifted

LEMMA TalksRange == \A s : Talks!Range(s) = Told(s)
BY DEF Talks!Range, Told

LEMMA ToldIn ==
  ASSUME NEW S, NEW s \in Seq(S)
  PROVE  Told(s) \subseteq S
<1>1. \A i \in DOMAIN s : s[i] \in S
  OBVIOUS
<1> QED BY <1>1 DEF Told

LEMMA ToldConcat ==
  ASSUME NEW R, NEW s \in Seq(R), NEW t \in Seq(R)
  PROVE  Told(s \o t) = Told(s) \cup Told(t)
<1>1. ASSUME NEW x \in Told(s \o t) PROVE x \in Told(s) \cup Told(t)
  BY <1>1, ConcatAt DEF Told
<1>2. ASSUME NEW x \in Told(s) PROVE x \in Told(s \o t)
  BY <1>2, ConcatAt DEF Told
<1>3. ASSUME NEW x \in Told(t) PROVE x \in Told(s \o t)
  <2>1. PICK k \in DOMAIN t : x = t[k]
    BY <1>3 DEF Told
  <2>2. k + Len(s) \in DOMAIN (s \o t) /\ (s \o t)[k + Len(s)] = t[k]
    BY ConcatAt
  <2> QED BY <2>1, <2>2 DEF Told
<1> QED BY <1>1, <1>2, <1>3

LEMMA ApartConcat ==
  ASSUME NEW R, NEW s \in Seq(R), NEW t \in Seq(R), Apart(s), Apart(t), Told(s) \cap Told(t) = {}
  PROVE  Apart(s \o t)
<1>1. ASSUME NEW i \in DOMAIN (s \o t), NEW j \in DOMAIN (s \o t), (s \o t)[i] = (s \o t)[j]
      PROVE  i = j
  <2>1. /\ \/ i \in DOMAIN s /\ (s \o t)[i] = s[i]
           \/ \E k \in DOMAIN t : i = k + Len(s) /\ (s \o t)[i] = t[k]
        /\ \/ j \in DOMAIN s /\ (s \o t)[j] = s[j]
           \/ \E k \in DOMAIN t : j = k + Len(s) /\ (s \o t)[j] = t[k]
    BY <1>1, ConcatAt
  <2>2. \A k \in DOMAIN s, l \in DOMAIN t : s[k] # t[l]
    BY DEF Told
  <2> QED BY <1>1, <2>1, <2>2 DEF Apart
<1> QED BY <1>1 DEF Apart

LEMMA ApartOnce ==
  ASSUME NEW s, Apart(s), NEW x \in Told(s)
  PROVE  Once(s, x)
BY DEF Apart, Told, Once

\* The news of agent a: what was said in the last round.
LEMMA NewsTyped ==
  ASSUME RoundsTyped, NEW a \in Agents
  PROVE  /\ Talks!News(a) \in Seq(Lines)
         /\ \A k \in DOMAIN Talks!News(a) :
              \E e \in Told(transcript) : /\ Talks!News(a)[k] = Talks!Talk(e)
                                          /\ \A f \in Told(transcript) : f.round <= e.round
         /\ \A e \in Told(transcript) :
              (\A f \in Told(transcript) : f.round <= e.round) /\ e.agent # a /\ Once(transcript, e)
                => Once(Talks!News(a), Talks!Talk(e))
<1> DEFINE last == {e \in Told(transcript) : \A f \in Told(transcript) : f.round <= e.round}
           S == {e \in last : e.agent # a}
           new == Sift(transcript, S)
           news == [i \in DOMAIN new |-> Talks!Talk(new[i])]
<1>1. Talks!News(a) = news
  BY TalksSift, TalksRange DEF Talks!News
<1>2. transcript \in Seq(Sayings)
  BY DEF RoundsTyped
<1>3. \A e : e \in S <=> /\ e \in Told(transcript) /\ e.agent # a
                         /\ \A f \in Told(transcript) : f.round <= e.round
  OBVIOUS
<1> HIDE DEF S
<1>4. new \in Seq(Sayings \cap S)
  BY <1>2, SiftIn
<1>5. ASSUME NEW e \in S, Once(transcript, e) PROVE Once(new, e)
  BY <1>2, <1>5, SiftOnce
<1> HIDE DEF new
<1>6. DOMAIN new = 1..Len(new) /\ Len(new) \in Nat /\ \A i \in DOMAIN new : new[i] \in Sayings \cap S
  BY <1>4
<1>7. ASSUME NEW i \in DOMAIN new PROVE Talks!Talk(new[i]) \in Lines
  BY <1>6, <1>7 DEF Talks!Talk, Lines
<1>8. DOMAIN news = DOMAIN new /\ \A i \in DOMAIN new : news[i] = Talks!Talk(new[i])
  OBVIOUS
<1>9. news \in [1..Len(new) -> Lines]
  BY <1>6, <1>7
<1> HIDE DEF news
<1>10. news \in Seq(Lines)
  BY <1>6, <1>9
<1>11. ASSUME NEW k \in DOMAIN news
       PROVE  \E e \in Told(transcript) : /\ news[k] = Talks!Talk(e)
                                          /\ \A f \in Told(transcript) : f.round <= e.round
  <2>1. new[k] \in S /\ news[k] = Talks!Talk(new[k])
    BY <1>6, <1>8, <1>11
  <2> QED BY <1>3, <2>1
<1>12. ASSUME NEW e \in S, Once(transcript, e) PROVE Once(news, Talks!Talk(e))
  <2>1. PICK k \in DOMAIN new : new[k] = e /\ \A l \in DOMAIN new : new[l] = e => l = k
    BY <1>5, <1>12 DEF Once
  <2>2. ASSUME NEW l \in DOMAIN new, Talks!Talk(new[l]) = Talks!Talk(e) PROVE new[l] = e
    BY <2>2 DEF Talks!Talk
  <2> QED BY <1>8, <2>1, <2>2 DEF Once
<1> QED BY <1>1, <1>3, <1>10, <1>11, <1>12

LEMMA NewsAre ==
  ASSUME RoundsTyped, OnlyWhatWasSaid, NEW a \in Agents,
         NEW x \in Told(transcript), x.round + 1 = round
  PROVE  /\ \A k \in DOMAIN Talks!News(a) :
              \E e \in Told(transcript) : e.round + 1 = round /\ Talks!News(a)[k] = Talks!Talk(e)
         /\ \A e \in Told(transcript) :
              e.round + 1 = round /\ e.agent # a => Once(Talks!News(a), Talks!Talk(e))
<1>1. Told(transcript) \subseteq Sayings /\ round \in Nat
  BY ToldIn DEF RoundsTyped
<1>2. \A e \in Told(transcript) : e.round \in Nat /\ e.round < round
  BY <1>1 DEF Sayings, OnlyWhatWasSaid
<1>3. \A e \in Told(transcript) : (\A f \in Told(transcript) : f.round <= e.round) <=> e.round + 1 = round
  BY <1>1, <1>2
<1>4. ASSUME NEW k \in DOMAIN Talks!News(a)
      PROVE  \E e \in Told(transcript) : e.round + 1 = round /\ Talks!News(a)[k] = Talks!Talk(e)
  <2>1. PICK e \in Told(transcript) : /\ Talks!News(a)[k] = Talks!Talk(e)
                                      /\ \A f \in Told(transcript) : f.round <= e.round
    BY <1>4, NewsTyped
  <2> QED BY <1>3, <2>1
<1>5. ASSUME NEW e \in Told(transcript), e.round + 1 = round, e.agent # a
      PROVE  Once(Talks!News(a), Talks!Talk(e))
  <2>1. Once(transcript, e)
    BY ApartOnce DEF OnlyWhatWasSaid
  <2> QED BY <1>3, <1>5, <2>1, NewsTyped
<1> QED BY <1>4, <1>5

\* At the head of a round everyone hears what was said in the last one.
LEMMA RoundHeadKeeps ==
  ASSUME RoundsInv, Talks!RoundHead
  PROVE  RoundsInv'
<1>1. /\ RoundsTyped /\ phase = "head"
      /\ phase' = (IF active = {} THEN "summary" ELSE "agents")
      /\ task' = [a \in Agents |-> IF a \in active THEN "llm" ELSE "out"]
      /\ results' = <<>> /\ Talks!Poll
      /\ UNCHANGED <<has_door, members, max_rounds, active, transcript, round, inbox, db, user>>
  BY DEF RoundsInv, Talks!RoundHead, Talks!userVars
<1>2. task' \in [Agents -> AgentTasks] /\ results' \in Seq(Agents) /\ ResultsOnce'
  BY <1>1 DEF AgentTasks, ResultsOnce, Apart
<1> DEFINE Brought(a) == IF round > 0 THEN Talks!News(a) ELSE <<>>
<1>3. /\ cursor' \in Nat /\ hist' = [a \in Agents |-> hist'[a]]
      /\ \A a \in Agents \ active : hist'[a] = hist[a]
      /\ \A a \in active : \E t \in Seq(Lines) :
           /\ hist'[a] = hist[a] \o Brought(a) \o t
           /\ \A k \in DOMAIN t : t[k].kind = "polled"
  BY <1>1, PollBrings
<1>4. ASSUME NEW a \in Agents PROVE hist[a] \in Seq(Lines) /\ Brought(a) \in Seq(Lines)
  BY <1>1, <1>4, NewsTyped DEF RoundsTyped
<1>5. active \subseteq Agents /\ round \in Nat
  BY <1>1 DEF RoundsTyped
<1> HIDE DEF Brought
<1>6. ASSUME NEW a \in Agents PROVE hist'[a] \in Seq(Lines)
  <2>1. CASE a \in active
    <3>1. PICK t \in Seq(Lines) : hist'[a] = hist[a] \o Brought(a) \o t
      BY <1>3, <2>1
    <3> QED BY <1>4, <3>1
  <2> QED BY <1>3, <1>4, <2>1
<1>7. hist' \in [Agents -> Seq(Lines)]
  BY <1>3, <1>6
<1>8. RoundsTyped'
  BY <1>1, <1>2, <1>3, <1>7 DEF RoundsTyped
<1>9. ASSUME ~has_door PROVE OneRun'
  <2>1. OneRun /\ HeardUpToLast /\ OnlyWhatWasSaid
    BY <1>1, <1>9 DEF RoundsInv, OneRun
  <2>2. round > 0 => \E x \in Told(transcript) : x.round + 1 = round
    BY <2>1 DEF HeardUpToLast
  <2>3. \A e \in Told(transcript) : e.round \in Nat /\ e.round < round
    <3>1. Told(transcript) \subseteq Sayings
      BY <1>1, ToldIn DEF RoundsTyped
    <3> QED BY <2>1, <3>1 DEF OnlyWhatWasSaid, Sayings
  <2>4. ASSUME NEW a \in active, NEW k \in DOMAIN Brought(a)
        PROVE  \E e \in Told(transcript) : e.round + 1 = round /\ Brought(a)[k] = Talks!Talk(e)
    <3>1. round > 0 /\ Brought(a) = Talks!News(a)
      BY <1>5, <2>4 DEF Brought
    <3> QED BY <1>1, <1>5, <2>1, <2>2, <2>4, <3>1, NewsAre
  <2>5. ASSUME NEW a \in active, NEW e \in Told(transcript), e.agent # a
        PROVE  Once(hist'[a], Talks!Talk(e))
    <3>1. PICK t \in Seq(Lines) : /\ hist'[a] = hist[a] \o Brought(a) \o t
                                  /\ \A k \in DOMAIN t : t[k].kind = "polled"
      BY <1>3
    <3>2. Never(t, Talks!Talk(e))
      <4>1. Talks!Talk(e).kind = "talk"
        BY DEF Talks!Talk
      <4> QED BY <3>1, <4>1 DEF Never
    <3>3. Once(hist[a] \o Brought(a), Talks!Talk(e))
      <4>1. CASE e.round + 1 < round
        <5>1. Once(hist[a], Talks!Talk(e))
          BY <2>1, <2>5, <4>1 DEF HeardUpToLast
        <5>2. Never(Brought(a), Talks!Talk(e))
          <6>1. ASSUME NEW k \in DOMAIN Brought(a), Brought(a)[k] = Talks!Talk(e) PROVE FALSE
            <7>1. PICK f \in Told(transcript) : f.round + 1 = round /\ Brought(a)[k] = Talks!Talk(f)
              BY <2>4, <6>1
            <7>2. f = e
              BY <6>1, <7>1 DEF Talks!Talk
            <7> QED BY <2>3, <4>1, <7>1, <7>2
          <6> QED BY <6>1 DEF Never
        <5> QED BY <1>4, <1>5, <5>1, <5>2, OnceConcat
      <4>2. CASE ~(e.round + 1 < round)
        <5>1. Never(hist[a], Talks!Talk(e))
          BY <2>1, <2>5, <4>2 DEF HeardUpToLast
        <5>2. e.round + 1 = round /\ round > 0
          BY <1>5, <2>3, <4>2
        <5>3. Once(Brought(a), Talks!Talk(e))
          BY <1>1, <1>5, <2>1, <2>5, <5>2, NewsAre DEF Brought
        <5> QED BY <1>4, <1>5, <5>1, <5>3, OnceConcat
      <4> QED BY <4>1, <4>2
    <3>4. hist[a] \o Brought(a) \in Seq(Lines)
      BY <1>4, <1>5
    <3> QED BY <3>1, <3>2, <3>3, <3>4, OnceConcat
  <2>6. AllHeard'
    BY <1>1, <2>5 DEF AllHeard
  <2>7. ASSUME NEW a \in Agents, NEW k \in DOMAIN hist'[a], hist'[a][k].kind = "talk"
        PROVE  hist'[a][k].text \in Told(transcript)
    <3>1. CASE a \notin active
      BY <1>3, <2>1, <2>7, <3>1 DEF OnlyWhatWasSaid
    <3>2. CASE a \in active
      <4>1. PICK t \in Seq(Lines) : /\ hist'[a] = (hist[a] \o Brought(a)) \o t
                                    /\ \A l \in DOMAIN t : t[l].kind = "polled"
        BY <1>3, <3>2
      <4>2. hist[a] \o Brought(a) \in Seq(Lines)
        BY <1>4
      <4>3. k \in DOMAIN (hist[a] \o Brought(a)) /\ hist'[a][k] = (hist[a] \o Brought(a))[k]
        <5>1. ~\E l \in DOMAIN t : hist'[a][k] = t[l]
          BY <2>7, <4>1
        <5> QED BY <2>7, <4>1, <4>2, <5>1, ConcatAt
      <4>4. \/ k \in DOMAIN hist[a] /\ hist'[a][k] = hist[a][k]
            \/ \E l \in DOMAIN Brought(a) : hist'[a][k] = Brought(a)[l]
        BY <1>4, <4>3, ConcatAt
      <4>5. ASSUME NEW l \in DOMAIN Brought(a), hist'[a][k] = Brought(a)[l]
            PROVE  hist'[a][k].text \in Told(transcript)
        <5>1. PICK e \in Told(transcript) : Brought(a)[l] = Talks!Talk(e)
          BY <2>4, <3>2, <4>5
        <5> QED BY <4>5, <5>1 DEF Talks!Talk
      <4> QED BY <2>1, <2>7, <4>4, <4>5 DEF OnlyWhatWasSaid
    <3> QED BY <3>1, <3>2
  <2>8. OnlyWhatWasSaid'
    BY <1>1, <2>1, <2>7 DEF OnlyWhatWasSaid
  <2> QED BY <1>1, <2>1, <2>6, <2>8 DEF OneRun
<1> QED BY <1>1, <1>2, <1>8, <1>9 DEF RoundsInv

\* What agents said in a round, each once, is new.
LEMMA EntriesAre ==
  ASSUME RoundsTyped, Apart(results)
  PROVE  /\ Talks!Entries \in Seq(Sayings) /\ Apart(Talks!Entries)
         /\ \A e \in Told(Talks!Entries) : e.round = round
         /\ Talks!Said = <<>> => Talks!Entries = <<>>
         /\ Talks!Said # <<>> => \E e \in Told(Talks!Entries) : e.round = round
<1> DEFINE said == Sift(results, spoke)
           entries == [i \in DOMAIN said |-> [agent |-> said[i], round |-> round]]
<1>1. Talks!Said = said /\ Talks!Entries = entries
  BY TalksSift DEF Talks!Said, Talks!Entries
<1>2. results \in Seq(Agents) /\ round \in Nat
  BY DEF RoundsTyped
<1>3. said \in Seq(Agents \cap spoke)
  BY <1>2, SiftIn
<1>4. Apart(said)
  <2>1. results \in Seq(Told(results))
    <3>1. \A i \in 1..Len(results) : results[i] \in Told(results)
      BY <1>2 DEF Told
    <3> QED BY <1>2, <3>1
  <2>2. said \in Seq(Told(results) \cap spoke)
    BY <2>1, SiftIn
  <2>3. ASSUME NEW i \in DOMAIN said, NEW j \in DOMAIN said, said[i] = said[j] PROVE i = j
    <3>1. said[i] \in Told(results) \cap spoke
      BY <2>2, <2>3
    <3>2. Once(results, said[i])
      BY <3>1, ApartOnce
    <3>3. Once(said, said[i])
      BY <1>2, <3>1, <3>2, SiftOnce
    <3> QED BY <2>3, <3>3 DEF Once
  <2> QED BY <2>3 DEF Apart
<1> HIDE DEF said
<1>5. DOMAIN said = 1..Len(said) /\ Len(said) \in Nat /\ \A i \in DOMAIN said : said[i] \in Agents
  BY <1>3
<1>6. DOMAIN entries = DOMAIN said
      /\ \A i \in DOMAIN said : entries[i] = [agent |-> said[i], round |-> round]
  OBVIOUS
<1>7. entries \in [1..Len(said) -> Sayings]
  BY <1>2, <1>5 DEF Sayings
<1> HIDE DEF entries
<1>8. entries \in Seq(Sayings)
  BY <1>5, <1>7
<1>9. Apart(entries)
  <2>1. ASSUME NEW i \in DOMAIN entries, NEW j \in DOMAIN entries, entries[i] = entries[j] PROVE i = j
    <3>1. said[i] = said[j]
      BY <1>6, <2>1
    <3> QED BY <1>4, <1>6, <2>1, <3>1 DEF Apart
  <2> QED BY <2>1 DEF Apart
<1>10. \A e \in Told(entries) : e.round = round
  BY <1>6 DEF Told
<1>11. ASSUME said = <<>> PROVE entries = <<>>
  <2>1. Len(entries) = 0
    BY <1>5, <1>6, <1>8, <1>11
  <2> QED BY <1>8, <2>1
<1>12. ASSUME said # <<>> PROVE \E e \in Told(entries) : e.round = round
  <2>1. 1 \in DOMAIN entries
    BY <1>3, <1>6, <1>12
  <2> QED BY <1>6, <2>1 DEF Told
<1> QED BY <1>1, <1>8, <1>9, <1>10, <1>11, <1>12

\* A room that stops by itself stops when nobody said anything.
LEMMA RoundEndKeeps ==
  ASSUME RoundsInv, Talks!RoundEnd
  PROVE  RoundsInv'
<1>1. /\ RoundsTyped /\ phase = "agents" /\ ResultsOnce
      /\ transcript' = transcript \o Talks!Entries /\ active' = active \ Talks!Left
      /\ \/ Talks!Stops(active') /\ phase' = "summary" /\ round' = round
         \/ ~Talks!Stops(active') /\ phase' = "head" /\ round' = round + 1
      /\ task' = [a \in Agents |-> "out"] /\ results' = <<>>
      /\ UNCHANGED <<has_door, members, max_rounds, hist, cursor, inbox, db, user>>
  BY DEF RoundsInv, Talks!RoundEnd, Talks!userVars
<1>2. /\ Talks!Entries \in Seq(Sayings) /\ Apart(Talks!Entries)
      /\ \A e \in Told(Talks!Entries) : e.round = round
      /\ Talks!Said = <<>> => Talks!Entries = <<>>
      /\ Talks!Said # <<>> => \E e \in Told(Talks!Entries) : e.round = round
  BY <1>1, EntriesAre DEF ResultsOnce
<1>3. transcript \in Seq(Sayings) /\ round \in Nat /\ active' \subseteq active /\ active \subseteq Agents
  BY <1>1 DEF RoundsTyped
<1>4. transcript' \in Seq(Sayings) /\ round' \in Nat
  BY <1>1, <1>2, <1>3
<1>5. task' \in [Agents -> AgentTasks] /\ results' \in Seq(Agents)
  BY <1>1 DEF AgentTasks
<1>6. RoundsTyped'
  BY <1>1, <1>3, <1>4, <1>5 DEF RoundsTyped
<1>7. ASSUME ~has_door PROVE OneRun'
  <2>1. OneRun /\ AllHeard /\ OnlyWhatWasSaid
    BY <1>1, <1>7 DEF RoundsInv, OneRun
  <2>2. CASE Talks!Stops(active')
    <3>1. phase' = "summary" /\ round' = round
      BY <1>1, <2>2
    <3>2. active' = {} \/ Talks!Said = <<>>
      BY <1>7, <2>2 DEF Talks!Stops
    <3>3. CASE active' = {}
      BY <1>1, <2>1, <3>1, <3>3 DEF OneRun, AllHeard
    <3>4. CASE Talks!Said = <<>>
      <4>1. transcript' = transcript
        BY <1>1, <1>2, <1>3, <3>4
      <4>2. AllHeard'
        BY <1>1, <1>3, <2>1, <4>1 DEF AllHeard
      <4> QED BY <1>1, <2>1, <3>1, <4>2 DEF OneRun
    <3> QED BY <3>2, <3>3, <3>4
  <2>3. CASE ~Talks!Stops(active')
    <3>1. phase' = "head" /\ round' = round + 1 /\ Talks!Said # <<>>
      BY <1>1, <2>3 DEF Talks!Stops
    <3>2. Told(transcript') = Told(transcript) \cup Told(Talks!Entries)
      BY <1>1, <1>2, <1>3, ToldConcat
    <3>3. \A e \in Told(transcript) : e.round \in Nat /\ e.round < round
      <4>1. Told(transcript) \subseteq Sayings
        BY <1>3, ToldIn
      <4> QED BY <2>1, <4>1 DEF OnlyWhatWasSaid, Sayings
    <3>4. Told(transcript) \cap Told(Talks!Entries) = {}
      <4>1. ASSUME NEW e \in Told(transcript), e \in Told(Talks!Entries) PROVE FALSE
        BY <1>2, <1>3, <3>3, <4>1
      <4> QED BY <4>1
    <3>5. ASSUME NEW a \in active', NEW e \in Told(transcript'), e.agent # a
          PROVE  IF e.round + 1 < round' THEN Once(hist'[a], Talks!Talk(e))
                                         ELSE Never(hist'[a], Talks!Talk(e))
      <4>1. CASE e \in Told(transcript)
        <5>1. e.round + 1 < round'
          BY <1>3, <3>1, <3>3, <4>1
        <5> QED BY <1>1, <1>3, <2>1, <3>5, <4>1, <5>1 DEF AllHeard
      <4>2. CASE e \in Told(Talks!Entries)
        <5>1. ~(e.round + 1 < round') /\ e \notin Told(transcript)
          BY <1>2, <1>3, <3>1, <3>4, <4>2
        <5>2. Never(hist[a], Talks!Talk(e))
          <6>1. ASSUME NEW k \in DOMAIN hist[a], hist[a][k] = Talks!Talk(e) PROVE FALSE
            <7>1. hist[a][k].kind = "talk" /\ hist[a][k].text = e
              BY <6>1 DEF Talks!Talk
            <7> QED BY <1>3, <2>1, <5>1, <7>1 DEF OnlyWhatWasSaid
          <6> QED BY <6>1 DEF Never
        <5> QED BY <1>1, <5>1, <5>2
      <4> QED BY <3>2, <4>1, <4>2
    <3>6. \E e \in Told(transcript') : e.round + 1 = round'
      <4>1. PICK e \in Told(Talks!Entries) : e.round = round
        BY <1>2, <3>1
      <4>2. e \in Told(transcript') /\ e.round + 1 = round'
        BY <3>1, <3>2, <4>1
      <4> QED BY <4>2
    <3>7. HeardUpToLast'
      BY <3>5, <3>6 DEF HeardUpToLast
    <3>8. Apart(transcript')
      BY <1>1, <1>2, <1>3, <2>1, <3>4, ApartConcat DEF OnlyWhatWasSaid
    <3>9. \A e \in Told(transcript') : e.round < round'
      BY <1>2, <1>3, <3>1, <3>2, <3>3
    <3>10. \A a \in Agents : \A k \in DOMAIN hist'[a] :
             hist'[a][k].kind = "talk" => hist'[a][k].text \in Told(transcript')
      BY <1>1, <2>1, <3>2 DEF OnlyWhatWasSaid
    <3>11. OnlyWhatWasSaid'
      BY <3>8, <3>9, <3>10 DEF OnlyWhatWasSaid
    <3> QED BY <1>1, <2>1, <3>1, <3>7, <3>11 DEF OneRun
  <2> QED BY <2>2, <2>3
<1> QED BY <1>1, <1>6, <1>7 DEF RoundsInv

LEMMA TalksStep ==
  ASSUME RoundsInv, [Talks!Next]_talksVars
  PROVE  RoundsInv'
BY UsersKeep, BetweenKeeps, AgentKeeps, RoundHeadKeeps, RoundEndKeeps DEF Talks!Next, Talks!Run

\* A discussion is not cut off: a room of room:run that stops by itself, before
\* its rounds are used up, stops when everyone in it has heard, once, all that
\* the others said, the last words of those who left too, whoever the agents
\* are and whatever the models answer (runtime/room/runner.rs run,
\* inject_transcript).
THEOREM RoundsAreHeard == RoomsSpec => []NothingUnheard
<1>1. RoomsInit => RoundsInv
  <2> SUFFICES ASSUME Talks!Init PROVE RoundsInv
    BY DEF RoomsInit
  <2>1. /\ has_door \in BOOLEAN /\ members \subseteq Agents /\ max_rounds \in {0, MaxRounds}
        /\ active = members /\ transcript = <<>> /\ round = 0 /\ cursor = 0
        /\ results = <<>> /\ inbox = <<>> /\ db = <<>>
        /\ hist = [a \in Agents |-> <<>>] /\ task = [a \in Agents |-> "out"]
        /\ user = [m \in Messages |-> "unsent"]
        /\ phase = (IF has_door THEN "idle" ELSE "begin")
    BY DEF Talks!Init
  <2>2. \A S : <<>> \in Seq(S)
    OBVIOUS
  <2>3. max_rounds \in Nat
    BY <2>1, RoomsAssumption DEF RoomsAssumption
  <2>4. hist \in [Agents -> Seq(Lines)] /\ task \in [Agents -> AgentTasks] /\ user \in [Messages -> UserStates]
    BY <2>1, <2>2 DEF AgentTasks, UserStates
  <2>5. RoundsTyped
    BY <2>1, <2>2, <2>3, <2>4 DEF RoundsTyped
  <2>6. Told(transcript) = {} /\ Apart(transcript) /\ \A a \in Agents : DOMAIN hist[a] = {}
    BY <2>1 DEF Told, Apart
  <2>7. OnlyWhatWasSaid
    BY <2>6 DEF OnlyWhatWasSaid
  <2>8. ~has_door => OneRun
    BY <2>1, <2>7 DEF OneRun
  <2> QED BY <2>1, <2>5, <2>8 DEF RoundsInv
<1>2. RoundsInv /\ [RoomsNext]_<<which, vars, talksVars>> => RoundsInv'
  <2>1. [RoomsNext]_<<which, vars, talksVars>> => [Talks!Next]_talksVars
    BY DEF RoomsNext
  <2> QED BY <2>1, TalksStep
<1>3. RoundsInv => NothingUnheard
  <2> SUFFICES ASSUME RoundsInv, phase = "summary", ~has_door, round < max_rounds,
                      NEW a \in active, NEW i \in DOMAIN transcript, transcript[i].agent # a
               PROVE  Talks!Times(a, Talks!Talk(transcript[i])) = 1
    BY DEF NothingUnheard, Talks!NothingUnheard
  <2>1. AllHeard
    BY DEF RoundsInv, OneRun
  <2>2. Once(hist[a], Talks!Talk(transcript[i]))
    BY <2>1 DEF AllHeard, Told
  <2>3. PICK k \in DOMAIN hist[a] :
          /\ hist[a][k] = Talks!Talk(transcript[i])
          /\ \A l \in DOMAIN hist[a] : hist[a][l] = Talks!Talk(transcript[i]) => l = k
    BY <2>2 DEF Once
  <2>4. {l \in DOMAIN hist[a] : hist[a][l] = Talks!Talk(transcript[i])} = {k}
    BY <2>3
  <2>5. Cardinality({k}) = 1
    BY FS_Singleton
  <2>6. Talks!Times(a, Talks!Talk(transcript[i]))
          = Cardinality({l \in DOMAIN hist[a] : hist[a][l] = Talks!Talk(transcript[i])})
    BY DEF Talks!Times, Talks!Cardinality, Talks!IsFiniteSet, Cardinality, IsFiniteSet
  <2> HIDE DEF Talks!Talk
  <2> QED BY <2>4, <2>5, <2>6
<1> QED BY <1>1, <1>2, <1>3, PTL DEF RoomsSpec
=============================================================================
