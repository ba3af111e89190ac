-------------------------- MODULE NeedQueueProofs --------------------------
(***************************************************************************)
(* Theorems about module NeedQueue, for any number of needs, wants,        *)
(* services, permits, promotions and restarts.                             *)
(***************************************************************************)
EXTENDS NeedQueue, FiniteSetTheorems, TLAPS

\* The steps a proof about Next has to look at.
LEMMA NeedNextCases ==
  ASSUME [Next]_vars
  PROVE  \/ Enqueue \/ EmsInsert \/ NotifyOne \/ EnqueueDropped \/ Crash \/ UNCHANGED vars
         \/ \E s \in Services : Lease(s) \/ Listen(s) \/ Spawn(s)
         \/ \E n \in Needs : Plan(n) \/ RoomEnds(n) \/ Fulfill(n)
         \/ \E p \in Promoters : Select(p) \/ Mark(p) \/ PromoteEnqueue(p) \/ PromoteDropped(p)
BY DEF Next, Serve, Promote

-----------------------------------------------------------------------------
(* The invariants.                                                         *)

\* The tasks that hold a permit of service s.
Tasks(s) == {n \in Needs : stage[n] # "none" /\ owner[n] = s}

\* No permit is lost and none is given out twice.
PermitsAccounted ==
  \A s \in Services : permits[s] + Cardinality(Tasks(s)) = max_concurrent_rooms

\* A service that waits for a permit has a need, a task has a service, and a
\* promotion that is under way a want.
Bound ==
  /\ \A s \in Services : svc[s] = "holding" => has[s] # None
  /\ \A n \in Needs : stage[n] # "none" => owner[n] \in Services
  /\ \A p \in Promoters : promoter[p] # "idle" => chosen[p] \in Wants

\* What no insert has made yet is nobody's.
Unmade ==
  \A n \in Needs : n > made => status[n] = "unborn" /\ origin[n] = NoWant

\* Nobody touches a need again that a crash left running.
Stranded ==
  \A n \in orphans : status[n] = "running"

ExclusionInv == LeaseExclusive /\ Stranded

\* Only a service that waits for a permit has a need, and the services in the
\* line of the Notify wait there, once each: a notification finds a listener.
ServiceInv ==
  /\ \A s \in Services : has[s] # None => svc[s] = "holding"
  /\ \A i \in 1 .. Len(waiters) : svc[waiters[i]] = "listening"
  /\ \A i, j \in 1 .. Len(waiters) : waiters[i] = waiters[j] => i = j

-----------------------------------------------------------------------------
(* Type correctness, with what it leans on: a permit comes back only from  *)
(* a task that had one.                                                    *)

LEMMA NeedsFinite == IsFiniteSet(Needs) /\ None \notin Needs
BY NeedsAssumption, FS_Interval DEF Needs, None

LEMMA TasksFinite == \A s : IsFiniteSet(Tasks(s)) /\ Cardinality(Tasks(s)) \in Nat
<1> TAKE s
<1>1. Tasks(s) \subseteq Needs
  BY DEF Tasks
<1> QED BY <1>1, NeedsFinite, FS_Subset, FS_CardinalityType

\* What a new row changes.
LEMMA RowType ==
  ASSUME TypeOK, Unmade, NEW w \in Wants \cup {NoWant}, Row(w)
  PROVE  /\ made + 1 \in Needs /\ made \in Nat /\ made' = made + 1
         /\ made' \in 0 .. MaxNeeds
         /\ status[made + 1] = "unborn" /\ origin[made + 1] = NoWant
         /\ status' = [status EXCEPT ![made + 1] = "pending"]
         /\ origin' = [origin EXCEPT ![made + 1] = w]
         /\ status' \in [Needs -> {"unborn", "pending", "running", "fulfilled"}]
         /\ origin' \in [Needs -> Wants \cup {NoWant}]
         /\ \A n \in Needs : status'[n] = "running" <=> status[n] = "running"
         /\ Unmade'
<1>1. made + 1 \in Needs /\ made \in Nat /\ made + 1 \in 0 .. MaxNeeds
  BY NeedsAssumption DEF Row, Needs, TypeOK
<1>2. /\ made' = made + 1
      /\ status' = [status EXCEPT ![made + 1] = "pending"]
      /\ origin' = [origin EXCEPT ![made + 1] = w]
  BY DEF Row
<1>3. status[made + 1] = "unborn" /\ origin[made + 1] = NoWant
  BY <1>1 DEF Unmade
<1>4. Unmade'
  BY <1>1, <1>2, NeedsAssumption DEF Unmade, Needs, TypeOK
<1> QED BY <1>1, <1>2, <1>3, <1>4 DEF TypeOK

LEMMA InsertType ==
  ASSUME TypeOK, Unmade, NEW w \in Wants \cup {NoWant}, Insert(w)
  PROVE  /\ Row(w) /\ made + 1 \in Needs
         /\ inserted' = made + 1 /\ inserted' \in Needs \cup {None}
         /\ UNCHANGED <<blank, want, permit, waiters, svc, has, permits, stage, owner,
                        crashes, orphans, untold>>
BY RowType DEF Insert, serviceVars, historyVars

LEMMA EmsInsertType ==
  ASSUME TypeOK, Unmade, EmsInsert
  PROVE  /\ Row(NoWant) /\ made + 1 \in Needs
         /\ blank' \subseteq Needs /\ blank \subseteq blank'
         /\ untold' = untold \cup {made + 1} /\ untold' \subseteq Needs
         /\ UNCHANGED <<replyTo, want, inserted, permit, waiters, svc, has, permits, stage,
                        owner, promoter, chosen, crashes, orphans>>
<1>1. Row(NoWant) /\ made + 1 \in Needs
  BY RowType DEF EmsInsert
<1> QED BY <1>1 DEF EmsInsert, TypeOK, queueVars, serviceVars, promoteVars

LEMMA PromoteEnqueueCases ==
  ASSUME TypeOK, Bound, NEW p \in Promoters, PromoteEnqueue(p)
  PROVE  /\ promoter[p] = "enqueue" /\ chosen[p] \in Wants
         /\ promoter' = [promoter EXCEPT ![p] = "idle"]
         /\ chosen' = [chosen EXCEPT ![p] = NoWant]
         /\ Insert(chosen[p]) /\ UNCHANGED replyTo
BY DEF PromoteEnqueue, PromoteOver, Bound

\* The two outcomes of claim_one.
LEMMA LeaseCases ==
  ASSUME NEW s \in Services, Lease(s)
  PROVE  /\ svc[s] = "lease"
         /\ UNCHANGED <<replyTo, blank, origin, want, made, inserted, permit, waiters, permits,
                        stage, owner, promoter, chosen, crashes, orphans, untold>>
         /\ \/ /\ Leasable = {} /\ UNCHANGED <<status, has>>
               /\ svc' = [svc EXCEPT ![s] = "checked"]
            \/ \E n \in Needs :
                 /\ First(n) /\ status' = [status EXCEPT ![n] = "running"]
                 /\ \/ n \in blank /\ UNCHANGED <<has, svc>>
                    \/ /\ has' = [has EXCEPT ![s] = n]
                       /\ svc' = [svc EXCEPT ![s] = "holding"]
BY DEF Lease, Take, TakeNone, queueVars, promoteVars, historyVars

LEMMA TypeStep ==
  ASSUME TypeOK, Bound, Unmade, LeaseExclusive, PermitsAccounted, [Next]_vars
  PROVE  TypeOK' /\ Bound' /\ Unmade'
<1> DEFINE Goal == TypeOK' /\ Bound' /\ Unmade'
<1> USE DEF emsVars, queueVars, serviceVars, promoteVars, historyVars
<1>1. ASSUME Enqueue PROVE Goal
  <2>1. Insert(NoWant) /\ UNCHANGED promoteVars
    BY <1>1 DEF Enqueue
  <2>2. Row(NoWant) /\ made + 1 \in Needs
    BY <2>1, InsertType
  <2>3. replyTo' \subseteq Needs
    BY <1>1, <2>2 DEF Enqueue, TypeOK
  <2>4. TypeOK'
    BY <2>1, <2>2, <2>3, InsertType, RowType DEF TypeOK
  <2>5. Bound'
    BY <2>1, InsertType DEF Bound
  <2> QED BY <2>2, <2>4, <2>5, RowType
<1>2. ASSUME NotifyOne PROVE Goal
  <2>1. \/ waiters # <<>> /\ waiters' = Tail(waiters)
        \/ waiters' = waiters
    BY <1>2, Zenon DEF NotifyOne
  <2>2. waiters \in Seq(Services)
    BY DEF TypeOK
  <2>3. waiters # <<>> => Tail(waiters) \in Seq(Services)
    BY <2>2
  <2>4. waiters' \in Seq(Services)
    BY <2>1, <2>2, <2>3
  <2>5. permit' \in BOOLEAN
    BY <1>2, Zenon DEF NotifyOne, TypeOK
  <2>6. svc' \in [Services -> {"lease", "checked", "listening", "holding"}]
    BY <1>2 DEF NotifyOne, TypeOK
  <2>7. TypeOK'
    BY <1>2, <2>4, <2>6, <2>5 DEF NotifyOne, TypeOK
  <2>8. Bound'
    <3>1. CASE waiters # <<>>
      BY <1>2, <3>1 DEF NotifyOne, Bound, TypeOK
    <3>2. CASE waiters = <<>>
      BY <1>2, <3>2 DEF NotifyOne, Bound, TypeOK
    <3> QED BY <3>1, <3>2
  <2> QED BY <1>2, <2>7, <2>8 DEF NotifyOne, Unmade
<1>3. ASSUME Crash PROVE Goal
  <2>1. UNCHANGED emsVars /\ crashes' \in 0 .. MaxCrashes
    BY <1>3, NeedsAssumption DEF Crash, TypeOK
  <2>2. /\ orphans' \subseteq Needs /\ untold' \subseteq Needs
        /\ inserted' \in Needs \cup {None} /\ permit' \in BOOLEAN
        /\ waiters' \in Seq(Services)
    BY <1>3 DEF Crash, Fresh, TypeOK
  <2>3. /\ svc' \in [Services -> {"lease", "checked", "listening", "holding"}]
        /\ has' \in [Services -> Needs \cup {None}]
        /\ permits' \in [Services -> 0 .. max_concurrent_rooms]
        /\ stage' \in [Needs -> {"none", "plan", "room", "fulfill"}]
        /\ owner' \in [Needs -> Services \cup {None}]
    BY <1>3, NeedsAssumption DEF Crash, Fresh
  <2>4. /\ promoter' \in [Promoters -> {"idle", "selected", "enqueue"}]
        /\ chosen' \in [Promoters -> Wants \cup {NoWant}]
    BY <1>3 DEF Crash, Fresh
  <2>5. TypeOK'
    BY <2>1, <2>2, <2>3, <2>4 DEF TypeOK
  <2>6. Bound'
    BY <1>3 DEF Crash, Fresh, Bound
  <2> QED BY <1>3, <2>5, <2>6 DEF Crash, Unmade
<1>4. ASSUME UNCHANGED vars PROVE Goal
  BY <1>4 DEF vars, TypeOK, Bound, Unmade
<1>5. ASSUME NEW s \in Services, Lease(s) PROVE Goal
  <2>0. UNCHANGED <<replyTo, blank, origin, want, made, inserted, permit, waiters, permits,
                    stage, owner, promoter, chosen, crashes, orphans, untold>>
    BY <1>5, LeaseCases
  <2>1. CASE /\ Leasable = {} /\ UNCHANGED <<status, has>>
             /\ svc' = [svc EXCEPT ![s] = "checked"]
    <3>1. svc' \in [Services -> {"lease", "checked", "listening", "holding"}]
      BY <2>1 DEF TypeOK
    <3>2. TypeOK'
      BY <2>0, <2>1, <3>1, Zenon DEF TypeOK
    <3>3. \A t \in Services : svc'[t] = "holding" => svc[t] = "holding"
      BY <2>1 DEF TypeOK
    <3>4. Bound' /\ Unmade'
      BY <2>0, <2>1, <3>3 DEF Bound, Unmade
    <3> QED BY <3>2, <3>4
  <2>2. CASE \E n \in Needs :
               /\ First(n) /\ status' = [status EXCEPT ![n] = "running"]
               /\ \/ n \in blank /\ UNCHANGED <<has, svc>>
                  \/ /\ has' = [has EXCEPT ![s] = n]
                     /\ svc' = [svc EXCEPT ![s] = "holding"]
    <3>1. PICK n \in Needs :
            /\ First(n) /\ status' = [status EXCEPT ![n] = "running"]
            /\ \/ UNCHANGED <<has, svc>>
               \/ /\ has' = [has EXCEPT ![s] = n]
                  /\ svc' = [svc EXCEPT ![s] = "holding"]
      BY <2>2
    <3>2. status' \in [Needs -> {"unborn", "pending", "running", "fulfilled"}]
      BY <3>1 DEF TypeOK
    <3>3. /\ svc' \in [Services -> {"lease", "checked", "listening", "holding"}]
          /\ has' \in [Services -> Needs \cup {None}]
      <4>1. svc' = svc \/ svc' = [svc EXCEPT ![s] = "holding"]
        BY <3>1
      <4>2. has' = has \/ has' = [has EXCEPT ![s] = n]
        BY <3>1
      <4>3. svc' \in [Services -> {"lease", "checked", "listening", "holding"}]
        BY <4>1 DEF TypeOK
      <4>4. has' \in [Services -> Needs \cup {None}]
        BY <4>2 DEF TypeOK
      <4> QED BY <4>3, <4>4
    <3>4. TypeOK'
      BY <2>0, <3>2, <3>3, Zenon DEF TypeOK
    <3>5. \A t \in Services : svc'[t] = "holding" => has'[t] # None
      BY <3>1, NeedsFinite DEF Bound, TypeOK
    <3>6. Bound'
      BY <2>0, <3>5 DEF Bound
    <3>7. Unmade'
      <4>1. status[n] = "pending"
        BY <3>1 DEF First, Leasable
      <4> QED BY <2>0, <3>1, <4>1 DEF Unmade, TypeOK
    <3> QED BY <3>4, <3>6, <3>7
  <2> QED BY <1>5, <2>1, <2>2, LeaseCases
<1>6. ASSUME NEW s \in Services, Listen(s) PROVE Goal
  <2>1. permit' \in BOOLEAN
    BY <1>6 DEF Listen, TypeOK
  <2>2. \/ svc' = [svc EXCEPT ![s] = "lease"] /\ waiters' = waiters
        \/ svc' = [svc EXCEPT ![s] = "listening"] /\ waiters' = Append(waiters, s)
    BY <1>6, Zenon DEF Listen
  <2>3. waiters \in Seq(Services)
    BY DEF TypeOK
  <2>4. Append(waiters, s) \in Seq(Services)
    BY <2>3
  <2>5. waiters' \in Seq(Services)
    BY <2>2, <2>3, <2>4
  <2>6. svc' \in [Services -> {"lease", "checked", "listening", "holding"}]
    BY <2>2 DEF TypeOK
  <2>7. TypeOK'
    BY <1>6, <2>1, <2>5, <2>6 DEF Listen, TypeOK
  <2>8. \A t \in Services : svc'[t] = "holding" => svc[t] = "holding"
    BY <2>2 DEF TypeOK
  <2>9. Bound' /\ Unmade'
    BY <1>6, <2>8 DEF Listen, Bound, Unmade
  <2> QED BY <2>7, <2>9
<1>7. ASSUME NEW s \in Services, Spawn(s) PROVE Goal
  <2>1. has[s] \in Needs
    BY <1>7 DEF Spawn, Bound, TypeOK
  <2>2. TypeOK'
    BY <1>7, <2>1, NeedsAssumption DEF Spawn, TypeOK
  <2>3. Bound'
    BY <1>7, <2>1 DEF Spawn, Bound, TypeOK
  <2> QED BY <1>7, <2>2, <2>3 DEF Spawn, Unmade
<1>8. ASSUME NEW n \in Needs, Plan(n) PROVE Goal
  BY <1>8 DEF Plan, TypeOK, Bound, Unmade
<1>9. ASSUME NEW n \in Needs, RoomEnds(n) PROVE Goal
  BY <1>9 DEF RoomEnds, TypeOK, Bound, Unmade
<1>10. ASSUME NEW n \in Needs, Fulfill(n) PROVE Goal
  <2> DEFINE s == owner[n]
  <2>1. s \in Services /\ n \in Tasks(s)
    BY <1>10 DEF Fulfill, Bound, Tasks
  <2>2. permits[s] + 1 \in 0 .. max_concurrent_rooms
    <3>1. Cardinality(Tasks(s)) # 0
      BY <2>1, TasksFinite, FS_EmptySet
    <3> QED
      BY <2>1, <3>1, TasksFinite, NeedsAssumption DEF PermitsAccounted, TypeOK
  <2>3. TypeOK'
    BY <1>10, <2>1, <2>2 DEF Fulfill, TypeOK
  <2>4. Bound'
    BY <1>10 DEF Fulfill, Bound, TypeOK
  <2>5. Unmade'
    BY <1>10 DEF Fulfill, Unmade, LeaseExclusive, TypeOK
  <2> QED BY <2>3, <2>4, <2>5
<1>11. ASSUME NEW p \in Promoters, Select(p) PROVE Goal
  BY <1>11 DEF Select, PromoteOnly, TypeOK, Bound, Unmade
<1>12. ASSUME NEW p \in Promoters, Mark(p) PROVE Goal
  BY <1>12 DEF Mark, PromoteOnly, TypeOK, Bound, Unmade
<1>13. ASSUME NEW p \in Promoters, PromoteOver(p)
       PROVE  /\ promoter' \in [Promoters -> {"idle", "selected", "enqueue"}]
              /\ chosen' \in [Promoters -> Wants \cup {NoWant}]
              /\ \A q \in Promoters : promoter'[q] # "idle" => chosen'[q] \in Wants
  BY <1>13 DEF PromoteOver, TypeOK, Bound
<1>14. ASSUME NEW p \in Promoters, PromoteEnqueue(p) PROVE Goal
  <2>1. chosen[p] \in Wants /\ Insert(chosen[p]) /\ UNCHANGED replyTo /\ PromoteOver(p)
    BY <1>14, PromoteEnqueueCases DEF PromoteEnqueue
  <2>2. Row(chosen[p])
    BY <2>1, InsertType
  <2>3. TypeOK'
    BY <1>13, <2>1, <2>2, InsertType, RowType DEF TypeOK
  <2>4. Bound'
    BY <1>13, <2>1, InsertType DEF Bound
  <2> QED BY <2>1, <2>2, <2>3, <2>4, RowType
<1>15. ASSUME NEW p \in Promoters, PromoteDropped(p) PROVE Goal
  <2>1. PromoteOver(p) /\ UNCHANGED want /\ PromoteOnly
    BY <1>15 DEF PromoteDropped
  <2>2. TypeOK'
    BY <1>13, <2>1 DEF PromoteOnly, TypeOK
  <2>3. Bound' /\ Unmade'
    BY <1>13, <2>1 DEF PromoteOnly, Bound, Unmade
  <2> QED BY <2>2, <2>3
<1>16. ASSUME EmsInsert PROVE Goal
  <2>1. Row(NoWant)
    BY <1>16, EmsInsertType
  <2>2. TypeOK'
    BY <1>16, <2>1, EmsInsertType, RowType DEF TypeOK
  <2>3. Bound'
    BY <1>16, EmsInsertType DEF Bound
  <2> QED BY <2>1, <2>2, <2>3, RowType
<1>17. ASSUME EnqueueDropped PROVE Goal
  <2>1. /\ inserted' = None /\ untold' = untold \cup {inserted} /\ inserted # None
        /\ UNCHANGED <<emsVars, permit, waiters, serviceVars, promoteVars, crashes, orphans>>
    BY <1>17 DEF EnqueueDropped, LaneFree
  <2>2. untold' \subseteq Needs
    BY <2>1 DEF TypeOK
  <2>3. TypeOK'
    BY <2>1, <2>2 DEF TypeOK
  <2> QED BY <2>1, <2>3 DEF Bound, Unmade
<1> HIDE DEF Goal
<1> QED
  <2>1. Goal
    BY NeedNextCases, <1>1, <1>2, <1>3, <1>4, <1>5, <1>6, <1>7, <1>8, <1>9, <1>10, <1>11,
       <1>12, <1>14, <1>15, <1>16, <1>17
  <2> QED BY <2>1 DEF Goal

-----------------------------------------------------------------------------
(* Permits.                                                                *)

LEMMA PermitsStep ==
  ASSUME TypeOK, Bound, LeaseExclusive, PermitsAccounted, [Next]_vars
  PROVE  PermitsAccounted'
<1> USE DEF emsVars, queueVars, serviceVars, promoteVars, historyVars
<1> DEFINE Count(t) == permits[t] + Cardinality(Tasks(t))
<1>0. ASSUME UNCHANGED <<permits, stage, owner>> PROVE PermitsAccounted'
  BY <1>0 DEF PermitsAccounted, Tasks
<1>1. ASSUME \A t \in Services : permits'[t] = permits[t],
             \A n \in Needs : stage'[n] # "none" <=> stage[n] # "none",
             owner' = owner
      PROVE  PermitsAccounted'
  <2>1. \A t \in Services : Tasks(t)' = Tasks(t)
    BY <1>1 DEF Tasks
  <2> QED BY <1>1, <2>1 DEF PermitsAccounted
<1>2. ASSUME NEW s \in Services, Spawn(s) PROVE PermitsAccounted'
  <2>1. PICK n \in Needs : n = has[s] /\ stage[n] = "none"
    BY <1>2 DEF Spawn, Bound, TypeOK, LeaseExclusive
  <2>2. Tasks(s)' = Tasks(s) \cup {n} /\ n \notin Tasks(s)
    BY <1>2, <2>1 DEF Spawn, Tasks, TypeOK
  <2>3. \A t \in Services \ {s} : Tasks(t)' = Tasks(t)
    BY <1>2, <2>1 DEF Spawn, Tasks, TypeOK
  <2>4. Cardinality(Tasks(s)') = Cardinality(Tasks(s)) + 1
    BY <2>2, TasksFinite, FS_AddElement
  <2>5. permits' = [permits EXCEPT ![s] = permits[s] - 1]
    BY <1>2 DEF Spawn
  <2> QED
    BY <2>3, <2>4, <2>5, TasksFinite, NeedsAssumption DEF PermitsAccounted, TypeOK
<1>3. ASSUME NEW n \in Needs, Fulfill(n) PROVE PermitsAccounted'
  <2>1. PICK s \in Services : s = owner[n] /\ n \in Tasks(s)
    BY <1>3 DEF Fulfill, Bound, Tasks
  <2>2. Tasks(s)' = Tasks(s) \ {n}
    BY <1>3, <2>1 DEF Fulfill, Tasks, TypeOK
  <2>3. \A t \in Services \ {s} : Tasks(t)' = Tasks(t)
    BY <1>3, <2>1 DEF Fulfill, Tasks, TypeOK
  <2>4. Cardinality(Tasks(s)') = Cardinality(Tasks(s)) - 1
    BY <2>1, <2>2, TasksFinite, FS_RemoveElement
  <2>5. permits' = [permits EXCEPT ![s] = permits[s] + 1]
    BY <1>3, <2>1 DEF Fulfill
  <2> QED
    BY <2>1, <2>3, <2>4, <2>5, TasksFinite, NeedsAssumption
       DEF PermitsAccounted, TypeOK
<1>4. ASSUME Crash PROVE PermitsAccounted'
  <2>1. \A t \in Services : permits'[t] = max_concurrent_rooms /\ Tasks(t)' = {}
    BY <1>4 DEF Crash, Fresh, Tasks
  <2>2. \A t \in Services : Cardinality(Tasks(t)') = 0
    BY <2>1, FS_EmptySet
  <2> QED BY <2>1, <2>2, NeedsAssumption DEF PermitsAccounted
<1>5. ASSUME NEW n \in Needs, Plan(n) \/ RoomEnds(n) PROVE PermitsAccounted'
  BY <1>1, <1>5 DEF Plan, RoomEnds, TypeOK
<1>6. ASSUME \/ Enqueue \/ EmsInsert \/ NotifyOne \/ EnqueueDropped \/ UNCHANGED vars
             \/ \E s \in Services : Lease(s) \/ Listen(s)
             \/ \E p \in Promoters : Select(p) \/ Mark(p) \/ PromoteEnqueue(p) \/ PromoteDropped(p)
      PROVE  PermitsAccounted'
  <2>1. UNCHANGED <<permits, stage, owner>>
    BY <1>6 DEF Enqueue, EmsInsert, NotifyOne, EnqueueDropped, vars, Lease, Listen, Select, Mark,
                PromoteEnqueue, PromoteDropped, PromoteOnly, Insert
  <2> QED BY <2>1, <1>0
<1> QED
  BY <1>2, <1>3, <1>4, <1>5, <1>6, NeedNextCases

-----------------------------------------------------------------------------
(* The services and the line of the Notify.                                *)

LEMMA ServiceStep ==
  ASSUME TypeOK, ServiceInv, [Next]_vars
  PROVE  ServiceInv'
<1> USE DEF emsVars, queueVars, serviceVars, promoteVars, historyVars
<1>a. waiters \in Seq(Services) /\ Len(waiters) \in Nat
  BY DEF TypeOK
<1>b. \A i \in 1 .. Len(waiters) : waiters[i] \in Services
  BY <1>a
<1>c. /\ svc \in [Services -> {"lease", "checked", "listening", "holding"}]
      /\ has \in [Services -> Needs \cup {None}]
  BY DEF TypeOK
<1>1. ASSUME UNCHANGED <<svc, has, waiters>> PROVE ServiceInv'
  BY <1>1 DEF ServiceInv
\* A step of one service that is not in the line.
<1>2. ASSUME NEW s \in Services, svc[s] # "listening", waiters' = waiters,
             NEW to \in {"lease", "checked", "holding"}, svc' = [svc EXCEPT ![s] = to],
             \A t \in Services \ {s} : has'[t] = has[t],
             has'[s] # None => to = "holding"
      PROVE  ServiceInv'
  <2>1. \A i \in 1 .. Len(waiters) : svc'[waiters[i]] = "listening"
    BY <1>b, <1>c, <1>2 DEF ServiceInv
  <2>2. \A t \in Services : has'[t] # None => svc'[t] = "holding"
    BY <1>c, <1>2 DEF ServiceInv
  <2> QED BY <1>2, <2>1, <2>2 DEF ServiceInv
<1>3. ASSUME NotifyOne PROVE ServiceInv'
  <2>0. has' = has
    BY <1>3 DEF NotifyOne
  <2>1. CASE waiters # <<>>
    <3> DEFINE s == Head(waiters)
    <3>1. /\ s = waiters[1] /\ 1 \in 1 .. Len(waiters) /\ s \in Services
          /\ Len(Tail(waiters)) = Len(waiters) - 1
          /\ \A i \in 1 .. Len(waiters) - 1 : Tail(waiters)[i] = waiters[i + 1]
      BY <1>a, <2>1
    <3>2. svc' = [svc EXCEPT ![Head(waiters)] = "lease"] /\ waiters' = Tail(waiters)
      BY <1>3, <2>1, Zenon DEF NotifyOne
    <3>3. has[s] = None
      BY <3>1 DEF ServiceInv
    <3>4. \A i \in 1 .. Len(waiters) - 1 : waiters[i + 1] # s
      BY <1>a, <3>1 DEF ServiceInv
    <3>5. \A t \in Services : has'[t] # None => svc'[t] = "holding"
      BY <1>c, <2>0, <3>2, <3>3 DEF ServiceInv
    <3>6. \A i \in 1 .. Len(waiters) - 1 : svc'[waiters[i + 1]] = "listening"
      BY <1>a, <1>b, <1>c, <3>2, <3>4 DEF ServiceInv
    <3>7. \A i, j \in 1 .. Len(waiters) - 1 : waiters[i + 1] = waiters[j + 1] => i = j
      BY <1>a DEF ServiceInv
    <3> QED BY <1>a, <3>1, <3>2, <3>5, <3>6, <3>7 DEF ServiceInv
  <2>2. CASE waiters = <<>>
    <3>1. svc' = svc /\ waiters' = waiters
      BY <1>3, <2>2, Zenon DEF NotifyOne
    <3> QED BY <1>1, <2>0, <3>1
  <2> QED BY <2>1, <2>2
<1>4. ASSUME NEW s \in Services, Lease(s) PROVE ServiceInv'
  <2>0. svc[s] = "lease" /\ waiters' = waiters
    BY <1>4, LeaseCases
  <2>1. CASE /\ svc' = [svc EXCEPT ![s] = "holding"]
             /\ \E n \in Needs : has' = [has EXCEPT ![s] = n]
    BY <1>2, <1>c, <2>0, <2>1
  <2>2. CASE svc' = [svc EXCEPT ![s] = "checked"] /\ has' = has
    <3>1. has[s] = None
      BY <2>0 DEF ServiceInv
    <3> QED BY <1>2, <2>0, <2>2, <3>1
  <2>3. CASE UNCHANGED <<has, svc>>
    BY <1>1, <2>0, <2>3
  <2> QED BY <1>4, <2>1, <2>2, <2>3, LeaseCases
<1>5. ASSUME NEW s \in Services, Listen(s) PROVE ServiceInv'
  <2>0. svc[s] = "checked" /\ has' = has
    BY <1>5 DEF Listen
  <2>1. has[s] = None
    BY <2>0 DEF ServiceInv
  <2>2. CASE svc' = [svc EXCEPT ![s] = "lease"] /\ waiters' = waiters
    BY <1>2, <2>0, <2>1, <2>2
  <2>3. CASE svc' = [svc EXCEPT ![s] = "listening"] /\ waiters' = Append(waiters, s)
    <3>1. /\ Len(waiters') = Len(waiters) + 1
          /\ \A i \in 1 .. Len(waiters) : waiters'[i] = waiters[i]
          /\ waiters'[Len(waiters) + 1] = s
      BY <1>a, <2>3
    <3>2. \A i \in 1 .. Len(waiters) : waiters[i] # s
      BY <2>0 DEF ServiceInv
    <3>3. \A t \in Services : has'[t] # None => svc'[t] = "holding"
      BY <1>c, <2>0, <2>1, <2>3 DEF ServiceInv
    <3>4. \A i \in 1 .. Len(waiters') : svc'[waiters'[i]] = "listening"
      BY <1>a, <1>b, <1>c, <2>3, <3>1 DEF ServiceInv
    <3>5. \A i, j \in 1 .. Len(waiters') : waiters'[i] = waiters'[j] => i = j
      BY <1>a, <3>1, <3>2 DEF ServiceInv
    <3> QED BY <3>3, <3>4, <3>5 DEF ServiceInv
  <2> QED
    <3>1. \/ svc' = [svc EXCEPT ![s] = "lease"] /\ waiters' = waiters
          \/ svc' = [svc EXCEPT ![s] = "listening"] /\ waiters' = Append(waiters, s)
      BY <1>5, Zenon DEF Listen
    <3> QED BY <2>2, <2>3, <3>1
<1>6. ASSUME NEW s \in Services, Spawn(s) PROVE ServiceInv'
  <2>1. /\ svc[s] = "holding" /\ svc' = [svc EXCEPT ![s] = "lease"]
        /\ has' = [has EXCEPT ![s] = None] /\ waiters' = waiters
    BY <1>6 DEF Spawn
  <2> QED BY <1>2, <1>c, <2>1
<1>7. ASSUME Crash PROVE ServiceInv'
  <2>1. waiters' = <<>> /\ \A s \in Services : has'[s] = None
    BY <1>7 DEF Crash, Fresh
  <2> QED BY <2>1 DEF ServiceInv
<1>8. ASSUME \/ Enqueue \/ EmsInsert \/ EnqueueDropped \/ UNCHANGED vars
             \/ \E n \in Needs : Plan(n) \/ RoomEnds(n) \/ Fulfill(n)
             \/ \E p \in Promoters : Select(p) \/ Mark(p) \/ PromoteEnqueue(p) \/ PromoteDropped(p)
      PROVE  ServiceInv'
  <2>1. UNCHANGED <<svc, has, waiters>>
    BY <1>8 DEF Enqueue, EmsInsert, EnqueueDropped, vars, Plan, RoomEnds, Fulfill, Select, Mark,
                PromoteEnqueue, PromoteDropped, PromoteOnly, Insert
  <2> QED BY <1>1, <2>1
<1> QED
  BY <1>3, <1>4, <1>5, <1>6, <1>7, <1>8, NeedNextCases

-----------------------------------------------------------------------------
(* Exclusion.                                                              *)

\* A step that takes no need, and hands none on.
LEMMA ExclusionKept ==
  ASSUME TypeOK, ExclusionInv,
         \A n \in Needs : status[n] = "running" => status'[n] = "running",
         has' = has, orphans' = orphans,
         \A n \in Needs : stage'[n] # "none" => stage[n] # "none"
  PROVE  ExclusionInv'
BY DEF ExclusionInv, LeaseExclusive, Stranded, TypeOK

LEMMA ExclusionStep ==
  ASSUME TypeOK, Bound, Unmade, ExclusionInv, [Next]_vars
  PROVE  ExclusionInv'
<1> USE DEF emsVars, queueVars, serviceVars, promoteVars, historyVars
<1>1. ASSUME NEW w \in Wants \cup {NoWant}, Row(w), UNCHANGED <<has, orphans, stage>>
      PROVE  ExclusionInv'
  BY <1>1, RowType, ExclusionKept
<1>2. ASSUME NEW s \in Services, Lease(s) PROVE ExclusionInv'
  <2>0. UNCHANGED <<orphans, stage>>
    BY <1>2, LeaseCases
  <2>1. CASE \E n \in Needs : /\ First(n)
                              /\ status' = [status EXCEPT ![n] = "running"]
                              /\ has' \in {has, [has EXCEPT ![s] = n]}
    <3>1. PICK n \in Needs : /\ First(n)
                             /\ status' = [status EXCEPT ![n] = "running"]
                             /\ has' \in {has, [has EXCEPT ![s] = n]}
      BY <2>1
    <3>2. status[n] = "pending"
      BY <3>1 DEF First, Leasable
    <3>3. n \notin orphans /\ stage[n] = "none" /\ \A t \in Services : has[t] # n
      BY <3>2, NeedsFinite DEF ExclusionInv, LeaseExclusive, Stranded, TypeOK
    <3>4. ASSUME has' = [has EXCEPT ![s] = n] PROVE LeaseExclusive'
      BY <2>0, <3>1, <3>3, <3>4 DEF ExclusionInv, LeaseExclusive, TypeOK
    <3>5. CASE has' = has
      BY <2>0, <3>1, <3>3, <3>5, ExclusionKept DEF TypeOK
    <3>6. Stranded'
      BY <2>0, <3>1 DEF ExclusionInv, Stranded, TypeOK
    <3> QED BY <3>1, <3>4, <3>5, <3>6 DEF ExclusionInv
  <2>2. CASE UNCHANGED <<status, has>>
    BY <2>0, <2>2, ExclusionKept
  <2> QED BY <1>2, <2>1, <2>2, LeaseCases
<1>3. ASSUME NEW s \in Services, Spawn(s) PROVE ExclusionInv'
  <2>1. PICK n \in Needs : n = has[s] /\ status[n] = "running" /\ n \notin orphans
    BY <1>3 DEF Spawn, Bound, TypeOK, ExclusionInv, LeaseExclusive
  <2>2. /\ has' = [has EXCEPT ![s] = None]
        /\ stage' = [stage EXCEPT ![n] = "plan"]
        /\ status' = status /\ orphans' = orphans
    BY <1>3, <2>1 DEF Spawn
  <2>3. \A t \in Services : has'[t] # None => t # s /\ has'[t] = has[t] /\ has[t] # n
    BY <2>1, <2>2, NeedsFinite DEF ExclusionInv, LeaseExclusive, TypeOK
  <2>4. LeaseExclusive'
    BY <2>1, <2>2, <2>3 DEF ExclusionInv, LeaseExclusive, TypeOK
  <2> QED BY <2>2, <2>4 DEF ExclusionInv, Stranded
<1>4. ASSUME NEW n \in Needs, Fulfill(n) PROVE ExclusionInv'
  <2>1. /\ status' = [status EXCEPT ![n] = IF status[n] = "running" THEN "fulfilled"
                                           ELSE status[n]]
        /\ stage' = [stage EXCEPT ![n] = "none"]
        /\ has' = has /\ orphans' = orphans
    BY <1>4 DEF Fulfill
  <2>2. n \notin orphans /\ \A t \in Services : has[t] # n
    BY <1>4, NeedsFinite DEF Fulfill, ExclusionInv, LeaseExclusive
  <2> QED BY <2>1, <2>2 DEF ExclusionInv, LeaseExclusive, Stranded, TypeOK
<1>5. ASSUME Crash PROVE ExclusionInv'
  <2>1. /\ status' = status
        /\ orphans' = orphans \cup {n \in Needs : status[n] = "running"}
        /\ \A s \in Services : has'[s] = None
        /\ \A n \in Needs : stage'[n] = "none"
    BY <1>5 DEF Crash, Fresh
  <2> QED BY <2>1 DEF ExclusionInv, LeaseExclusive, Stranded
<1>6. ASSUME NEW n \in Needs, Plan(n) \/ RoomEnds(n) PROVE ExclusionInv'
  BY <1>6, ExclusionKept DEF Plan, RoomEnds, TypeOK
<1>7. ASSUME NEW p \in Promoters, PromoteEnqueue(p) PROVE ExclusionInv'
  <2>1. chosen[p] \in Wants /\ Insert(chosen[p])
    BY <1>7, PromoteEnqueueCases
  <2> QED BY <2>1, <1>1, InsertType
<1>8. ASSUME Enqueue \/ EmsInsert PROVE ExclusionInv'
  <2>1. CASE Enqueue
    BY <2>1, <1>1, InsertType DEF Enqueue
  <2>2. CASE EmsInsert
    BY <2>2, <1>1, EmsInsertType
  <2> QED BY <1>8, <2>1, <2>2
<1>9. ASSUME \/ NotifyOne \/ EnqueueDropped \/ UNCHANGED vars
             \/ \E s \in Services : Listen(s)
             \/ \E p \in Promoters : Select(p) \/ Mark(p) \/ PromoteDropped(p)
      PROVE  ExclusionInv'
  <2>1. UNCHANGED <<status, has, stage, orphans>>
    BY <1>9 DEF NotifyOne, EnqueueDropped, vars, Listen, Select, Mark, PromoteDropped, PromoteOnly
  <2> QED BY <2>1, ExclusionKept
<1> QED
  BY <1>2, <1>3, <1>4, <1>5, <1>6, <1>7, <1>8, <1>9, NeedNextCases

-----------------------------------------------------------------------------
(* No need is forgotten.                                                   *)

\* A step that takes no need and lets none go.
LEMMA HandsKept ==
  ASSUME TypeOK, NoNeedForgotten,
         \A n \in Needs : status'[n] = "running" => status[n] = "running",
         has' = has, orphans' = orphans, blank \subseteq blank',
         \A n \in Needs : stage[n] # "none" => stage'[n] # "none"
  PROVE  NoNeedForgotten'
BY DEF NoNeedForgotten, TypeOK

LEMMA HandsStep ==
  ASSUME TypeOK, Bound, ServiceInv, Unmade, NoNeedForgotten, [Next]_vars
  PROVE  NoNeedForgotten'
<1> USE DEF emsVars, queueVars, serviceVars, promoteVars, historyVars
<1>1. ASSUME NEW w \in Wants \cup {NoWant}, Row(w), UNCHANGED <<has, orphans, stage>>,
             blank \subseteq blank'
      PROVE  NoNeedForgotten'
  BY <1>1, RowType, HandsKept
<1>2. ASSUME NEW s \in Services, Lease(s) PROVE NoNeedForgotten'
  <2>0. UNCHANGED <<orphans, stage, blank>> /\ has[s] = None
    BY <1>2, LeaseCases DEF ServiceInv
  <2>1. CASE \E n \in Needs : /\ status' = [status EXCEPT ![n] = "running"]
                              /\ has' = [has EXCEPT ![s] = n]
    <3>1. PICK n \in Needs : /\ status' = [status EXCEPT ![n] = "running"]
                             /\ has' = [has EXCEPT ![s] = n]
      BY <2>1
    <3> QED BY <2>0, <3>1, NeedsFinite DEF NoNeedForgotten, TypeOK
  <2>2. CASE UNCHANGED <<status, has>>
    BY <2>0, <2>2, HandsKept
  <2>3. CASE \E n \in blank : status' = [status EXCEPT ![n] = "running"] /\ has' = has
    BY <2>0, <2>3 DEF NoNeedForgotten, TypeOK
  <2> QED BY <1>2, <2>1, <2>2, <2>3, LeaseCases
<1>3. ASSUME NEW s \in Services, Spawn(s) PROVE NoNeedForgotten'
  <2>1. PICK n \in Needs : n = has[s]
    BY <1>3 DEF Spawn, Bound, TypeOK
  <2>2. /\ has' = [has EXCEPT ![s] = None]
        /\ stage' = [stage EXCEPT ![n] = "plan"]
        /\ status' = status /\ orphans' = orphans /\ blank' = blank
    BY <1>3, <2>1 DEF Spawn
  <2> QED BY <2>1, <2>2 DEF NoNeedForgotten, TypeOK
<1>4. ASSUME NEW n \in Needs, Fulfill(n) PROVE NoNeedForgotten'
  <2>1. /\ status' = [status EXCEPT ![n] = IF status[n] = "running" THEN "fulfilled"
                                           ELSE status[n]]
        /\ stage' = [stage EXCEPT ![n] = "none"]
        /\ has' = has /\ orphans' = orphans /\ blank' = blank
    BY <1>4 DEF Fulfill
  <2> QED BY <2>1 DEF NoNeedForgotten, TypeOK
<1>5. ASSUME Crash PROVE NoNeedForgotten'
  BY <1>5 DEF Crash, NoNeedForgotten
<1>6. ASSUME NEW n \in Needs, Plan(n) \/ RoomEnds(n) PROVE NoNeedForgotten'
  BY <1>6, HandsKept DEF Plan, RoomEnds, TypeOK
<1>7. ASSUME NEW p \in Promoters, PromoteEnqueue(p) PROVE NoNeedForgotten'
  <2>1. chosen[p] \in Wants /\ Insert(chosen[p])
    BY <1>7, PromoteEnqueueCases
  <2> QED BY <2>1, <1>1, InsertType
<1>8. ASSUME Enqueue \/ EmsInsert PROVE NoNeedForgotten'
  <2>1. CASE Enqueue
    BY <2>1, <1>1, InsertType DEF Enqueue
  <2>2. CASE EmsInsert
    BY <2>2, <1>1, EmsInsertType
  <2> QED BY <1>8, <2>1, <2>2
<1>9. ASSUME \/ NotifyOne \/ EnqueueDropped \/ UNCHANGED vars
             \/ \E s \in Services : Listen(s)
             \/ \E p \in Promoters : Select(p) \/ Mark(p) \/ PromoteDropped(p)
      PROVE  NoNeedForgotten'
  <2>1. UNCHANGED <<status, has, stage, orphans, blank>>
    BY <1>9 DEF NotifyOne, EnqueueDropped, vars, Listen, Select, Mark, PromoteDropped, PromoteOnly
  <2> QED BY <2>1, HandsKept
<1> QED
  BY <1>2, <1>3, <1>4, <1>5, <1>6, <1>7, <1>8, <1>9, NeedNextCases

-----------------------------------------------------------------------------
(* No wakeup is lost.  A service goes to wait only after it found nothing  *)
(* to lease, so one that is "checked" is no help: the strengthening asks   *)
(* for one that will look again.                                           *)

Looking(s) == svc[s] \in {"lease", "holding"}

\* The needs to lease that were told of, but for the one its insert is about to
\* tell of.
Told == (Leasable \ untold) \ {inserted}

WakeupInv == Told # {} => permit = TRUE \/ \E s \in Services : Looking(s)

LEMMA WakeupStep ==
  ASSUME Services # {}, TypeOK, Bound, Unmade, ExclusionInv, WakeupInv, [Next]_vars
  PROVE  WakeupInv'
<1> USE DEF emsVars, queueVars, serviceVars, promoteVars, historyVars
\* Nothing told of is new, and the services look as they did.
<1>0. ASSUME Told' \subseteq Told, UNCHANGED <<permit, svc>> PROVE WakeupInv'
  BY <1>0 DEF WakeupInv, Looking
<1>1. ASSUME NEW w \in Wants \cup {NoWant}, Insert(w),
             replyTo' \in {replyTo, replyTo \cup {made + 1}}
      PROVE  WakeupInv'
  <2>1. /\ inserted = None /\ inserted' = made + 1 /\ None \notin Needs
        /\ status' = [status EXCEPT ![made + 1] = "pending"]
        /\ UNCHANGED <<permit, svc, untold>>
    BY <1>1, InsertType, NeedsFinite DEF Insert, Row, LaneFree
  <2>2. \A n \in Leasable' \ {made + 1} : n \in Leasable
    BY <1>1, <2>1 DEF Leasable, TypeOK
  <2>3. Told' \subseteq Told
    BY <2>1, <2>2 DEF Told, Leasable
  <2> QED BY <1>0, <2>1, <2>3
<1>2. ASSUME NotifyOne PROVE WakeupInv'
  <2>1. CASE waiters # <<>>
    <3>1. Head(waiters) \in Services
      BY <2>1 DEF TypeOK
    <3>2. svc' = [svc EXCEPT ![Head(waiters)] = "lease"]
      BY <1>2, <2>1, Zenon DEF NotifyOne
    <3>3. svc'[Head(waiters)] = "lease"
      BY <3>1, <3>2 DEF TypeOK
    <3> QED BY <3>1, <3>3 DEF WakeupInv, Looking
  <2>2. CASE waiters = <<>>
    <3>1. permit' = TRUE
      BY <1>2, <2>2, Zenon DEF NotifyOne
    <3> QED BY <3>1 DEF WakeupInv
  <2> QED BY <2>1, <2>2
<1>3. ASSUME NEW s \in Services, Lease(s) PROVE WakeupInv'
  <2>1. svc[s] = "lease" /\ UNCHANGED <<replyTo, untold, inserted>>
    BY <1>3, LeaseCases
  <2>2. CASE UNCHANGED svc \/ svc' = [svc EXCEPT ![s] = "holding"]
    <3>1. svc'[s] \in {"lease", "holding"}
      BY <2>1, <2>2 DEF TypeOK
    <3> QED BY <3>1 DEF WakeupInv, Looking
  <2>3. CASE Leasable = {} /\ UNCHANGED <<status, has>>
    <3>1. Leasable' = {}
      BY <2>1, <2>3 DEF Leasable
    <3> QED BY <3>1 DEF WakeupInv, Told
  <2> QED BY <1>3, <2>2, <2>3, LeaseCases
<1>4. ASSUME NEW s \in Services, Listen(s) PROVE WakeupInv'
  <2>1. Told' = Told
    BY <1>4 DEF Listen, Told, Leasable
  <2>2. \A t \in Services : Looking(t) => Looking(t)'
    <3>1. \/ svc' = [svc EXCEPT ![s] = "lease"]
          \/ svc' = [svc EXCEPT ![s] = "listening"]
      BY <1>4, Zenon DEF Listen
    <3>2. svc[s] = "checked"
      BY <1>4 DEF Listen
    <3>3. svc \in [Services -> {"lease", "checked", "listening", "holding"}]
      BY DEF TypeOK
    <3> QED BY <3>1, <3>2, <3>3 DEF Looking
  <2>3. CASE permit = TRUE
    <3>1. svc' = [svc EXCEPT ![s] = "lease"]
      BY <1>4, <2>3, Zenon DEF Listen
    <3>2. svc'[s] = "lease"
      BY <3>1 DEF TypeOK
    <3> QED BY <3>2 DEF WakeupInv, Looking
  <2>4. CASE permit # TRUE
    BY <2>1, <2>2, <2>4 DEF WakeupInv
  <2> QED BY <2>3, <2>4
<1>5. ASSUME NEW s \in Services, Spawn(s) PROVE WakeupInv'
  <2>1. svc'[s] = "lease"
    BY <1>5 DEF Spawn, TypeOK
  <2> QED BY <2>1 DEF WakeupInv, Looking
<1>6. ASSUME NEW n \in Needs, Fulfill(n) PROVE WakeupInv'
  <2>1. status[n] = "running"
    BY <1>6 DEF Fulfill, ExclusionInv, LeaseExclusive
  <2>2. Leasable' = Leasable
    BY <1>6, <2>1 DEF Fulfill, Leasable, TypeOK
  <2>3. UNCHANGED <<permit, inserted, svc, untold>>
    BY <1>6 DEF Fulfill
  <2> QED BY <1>0, <2>2, <2>3 DEF Told
<1>7. ASSUME Crash PROVE WakeupInv'
  <2>1. \A s \in Services : svc'[s] = "lease"
    BY <1>7 DEF Crash, Fresh
  <2> QED BY <2>1 DEF WakeupInv, Looking
<1>8. ASSUME NEW p \in Promoters, PromoteEnqueue(p) PROVE WakeupInv'
  BY <1>1, <1>8, PromoteEnqueueCases
<1>9. ASSUME EmsInsert PROVE WakeupInv'
  <2>1. /\ status' = [status EXCEPT ![made + 1] = "pending"]
        /\ untold' = untold \cup {made + 1}
        /\ UNCHANGED <<replyTo, permit, svc, inserted>>
    BY <1>9, EmsInsertType DEF Row
  <2>2. \A n \in Leasable' \ {made + 1} : n \in Leasable
    BY <2>1 DEF Leasable, TypeOK
  <2>3. Told' \subseteq Told
    BY <2>1, <2>2 DEF Told
  <2> QED BY <1>0, <2>1, <2>3
<1>10. ASSUME EnqueueDropped PROVE WakeupInv'
  <2>1. /\ inserted' = None /\ untold' = untold \cup {inserted}
        /\ UNCHANGED <<status, replyTo, permit, svc>>
    BY <1>10 DEF EnqueueDropped
  <2>2. Leasable' = Leasable
    BY <2>1 DEF Leasable
  <2>3. Told' \subseteq Told
    BY <2>1, <2>2 DEF Told
  <2> QED BY <1>0, <2>1, <2>3
<1>11. ASSUME \/ UNCHANGED vars
              \/ \E n \in Needs : Plan(n) \/ RoomEnds(n)
              \/ \E p \in Promoters : Select(p) \/ Mark(p) \/ PromoteDropped(p)
       PROVE  WakeupInv'
  <2>1. UNCHANGED <<status, replyTo, permit, inserted, svc, untold>>
    BY <1>11 DEF Plan, RoomEnds, vars, Select, Mark, PromoteDropped, PromoteOnly
  <2> QED BY <1>0, <2>1 DEF Told, Leasable
<1>12. ASSUME Enqueue PROVE WakeupInv'
  BY <1>1, <1>12 DEF Enqueue
<1> QED
  BY <1>2, <1>3, <1>4, <1>5, <1>6, <1>7, <1>8, <1>9, <1>10, <1>11, <1>12, NeedNextCases

-----------------------------------------------------------------------------
(* Promotion.                                                              *)

\* The needs that came of want w, and the promotions that are about to make
\* one of it.
Born(w) == {n \in Needs : origin[n] = w}

Carriers(w) == {p \in Promoters : chosen[p] = w}

\* While a want is pending it has no need, so the bound on its needs is the
\* number of promotions that can have read it as pending: those that carry it
\* still, and those that have made their need.
PromotionInv ==
  /\ \A p \in Promoters : promoter[p] = "idle" => chosen[p] = NoWant
  /\ \A p \in Promoters : promoter[p] = "enqueue" => want[chosen[p]] = "promoted"
  /\ \A w \in Wants : want[w] = "pending" => Born(w) = {}
  /\ \A w \in Wants : Cardinality(Born(w)) + Cardinality(Carriers(w)) <= Cardinality(Promoters)

LEMMA BornFinite ==
  \A w : /\ IsFiniteSet(Born(w)) /\ Cardinality(Born(w)) \in Nat
         /\ IsFiniteSet(Carriers(w)) /\ Cardinality(Carriers(w)) \in Nat
         /\ Cardinality(Carriers(w)) <= Cardinality(Promoters)
<1> TAKE w
<1>1. Born(w) \subseteq Needs /\ Carriers(w) \subseteq Promoters
  BY DEF Born, Carriers
<1>2. IsFiniteSet(Promoters)
  BY NeedsAssumption
<1> QED BY <1>1, <1>2, NeedsFinite, FS_Subset, FS_CardinalityType

LEMMA PromotionStep ==
  ASSUME TypeOK, Bound, Unmade, PromotionInv, [Next]_vars
  PROVE  PromotionInv'
<1> USE DEF emsVars, queueVars, serviceVars, promoteVars, historyVars
<1>1. ASSUME UNCHANGED <<want, origin, chosen, promoter>> PROVE PromotionInv'
  BY <1>1 DEF PromotionInv, Born, Carriers
\* A need by another way is no want's.
<1>2. ASSUME Row(NoWant), UNCHANGED <<want, chosen, promoter>> PROVE PromotionInv'
  <2>1. origin' = [origin EXCEPT ![made + 1] = NoWant] /\ origin[made + 1] = NoWant
    BY <1>2, RowType
  <2>2. origin' = origin
    BY <2>1 DEF TypeOK
  <2> QED BY <1>1, <1>2, <2>2
\* The call is over, with the need or without.
<1>3. ASSUME NEW p \in Promoters, NEW w \in Wants, chosen[p] = w, PromoteOver(p)
      PROVE  /\ \A q \in Promoters : promoter'[q] = "idle" => chosen'[q] = NoWant
             /\ \A q \in Promoters : promoter'[q] = "enqueue" =>
                  promoter[q] = "enqueue" /\ chosen'[q] = chosen[q]
             /\ Cardinality(Carriers(w)') = Cardinality(Carriers(w)) - 1
             /\ \A v \in Wants \ {w} : Carriers(v)' = Carriers(v)
  <2>1. /\ promoter' = [promoter EXCEPT ![p] = "idle"]
        /\ chosen' = [chosen EXCEPT ![p] = NoWant]
    BY <1>3 DEF PromoteOver
  <2>2. /\ chosen'[p] = NoWant /\ promoter'[p] = "idle"
        /\ \A q \in Promoters \ {p} : chosen'[q] = chosen[q] /\ promoter'[q] = promoter[q]
    BY <2>1 DEF TypeOK
  <2>3. Carriers(w)' = Carriers(w) \ {p} /\ p \in Carriers(w)
    BY <1>3, <2>2, NeedsAssumption DEF Carriers
  <2>4. Cardinality(Carriers(w)') = Cardinality(Carriers(w)) - 1
    BY <2>3, BornFinite, FS_RemoveElement
  <2>5. \A v \in Wants \ {w} : Carriers(v)' = Carriers(v)
    BY <1>3, <2>2, NeedsAssumption DEF Carriers
  <2> QED BY <2>2, <2>4, <2>5 DEF PromotionInv
<1>4. ASSUME NEW p \in Promoters, Select(p) PROVE PromotionInv'
  <2>1. PICK w \in Wants : want[w] = "pending" /\ chosen' = [chosen EXCEPT ![p] = w]
    BY <1>4 DEF Select
  <2>2. /\ promoter[p] = "idle" /\ promoter' = [promoter EXCEPT ![p] = "selected"]
        /\ UNCHANGED <<want, origin>>
    BY <1>4 DEF Select, PromoteOnly
  <2>3. /\ chosen'[p] = w /\ chosen[p] = NoWant /\ promoter'[p] = "selected"
        /\ \A q \in Promoters \ {p} : chosen'[q] = chosen[q] /\ promoter'[q] = promoter[q]
    BY <2>1, <2>2 DEF TypeOK, PromotionInv
  <2>4. \A v \in Wants : Born(v)' = Born(v)
    BY <2>2 DEF Born
  <2>5. \A v \in Wants \ {w} : Carriers(v)' = Carriers(v)
    BY <2>3, NeedsAssumption DEF Carriers
  <2>6. Carriers(w)' \subseteq Promoters
    BY DEF Carriers
  <2>7. Cardinality(Carriers(w)') <= Cardinality(Promoters)
    BY <2>6, NeedsAssumption, FS_Subset
  <2>8. Cardinality(Carriers(w)') \in Nat
    BY <2>6, NeedsAssumption, FS_Subset, FS_CardinalityType
  <2>9. Cardinality(Born(w)') = 0
    BY <2>1, <2>4, FS_EmptySet DEF PromotionInv
  <2>10. \A v \in Wants :
           Cardinality(Born(v)') + Cardinality(Carriers(v)') <= Cardinality(Promoters)
    BY <2>4, <2>5, <2>7, <2>8, <2>9 DEF PromotionInv
  <2>11. /\ \A q \in Promoters : promoter'[q] = "idle" => chosen'[q] = NoWant
         /\ \A q \in Promoters : promoter'[q] = "enqueue" => want'[chosen'[q]] = "promoted"
    BY <2>2, <2>3 DEF PromotionInv
  <2>12. \A v \in Wants : want'[v] = "pending" => Born(v)' = {}
    BY <2>2, <2>4 DEF PromotionInv
  <2> QED BY <2>10, <2>11, <2>12 DEF PromotionInv
<1>5. ASSUME NEW p \in Promoters, Mark(p) PROVE PromotionInv'
  <2>1. /\ promoter[p] = "selected" /\ promoter' = [promoter EXCEPT ![p] = "enqueue"]
        /\ want' = [want EXCEPT ![chosen[p]] = "promoted"]
        /\ UNCHANGED <<chosen, origin>>
    BY <1>5 DEF Mark, PromoteOnly
  <2>2. chosen[p] \in Wants
    BY <2>1 DEF Bound
  <2>3. \A w \in Wants : /\ want'[w] = "pending" => want[w] = "pending"
                         /\ want[w] = "promoted" => want'[w] = "promoted"
    BY <2>1 DEF TypeOK
  <2>4. want'[chosen[p]] = "promoted"
    BY <2>1, <2>2 DEF TypeOK
  <2>5. \A q \in Promoters \ {p} : promoter'[q] = promoter[q]
    BY <2>1 DEF TypeOK
  <2>6. \A q \in Promoters : promoter'[q] = "enqueue" => want'[chosen'[q]] = "promoted"
    <3>1. \A q \in Promoters : promoter[q] = "enqueue" => chosen[q] \in Wants
      BY DEF Bound
    <3> QED BY <2>1, <2>3, <2>4, <2>5, <3>1 DEF PromotionInv
  <2>7. \A q \in Promoters : promoter'[q] = "idle" => chosen'[q] = NoWant
    BY <2>1, <2>5 DEF PromotionInv, TypeOK
  <2>8. \A w \in Wants : Born(w)' = Born(w) /\ Carriers(w)' = Carriers(w)
    BY <2>1 DEF Born, Carriers
  <2>9. \A w \in Wants :
          Cardinality(Born(w)') + Cardinality(Carriers(w)') <= Cardinality(Promoters)
    BY <2>8 DEF PromotionInv
  <2>10. \A w \in Wants : want'[w] = "pending" => Born(w)' = {}
    <3>1. \A w \in Wants : want[w] = "pending" => Born(w) = {}
      BY DEF PromotionInv
    <3> QED BY <2>3, <2>8, <3>1
  <2> QED BY <2>6, <2>7, <2>9, <2>10 DEF PromotionInv
<1>6. ASSUME NEW p \in Promoters, PromoteEnqueue(p) PROVE PromotionInv'
  <2>0. PICK w \in Wants : chosen[p] = w
    BY <1>6, PromoteEnqueueCases
  <2>1. /\ promoter[p] = "enqueue" /\ PromoteOver(p) /\ Insert(w)
    BY <1>6, <2>0, PromoteEnqueueCases DEF PromoteEnqueue
  <2>2. /\ made + 1 \in Needs /\ origin[made + 1] = NoWant /\ want' = want
        /\ origin' = [origin EXCEPT ![made + 1] = w]
    BY <2>1, InsertType, RowType DEF Insert
  <2>3. Born(w)' = Born(w) \cup {made + 1} /\ made + 1 \notin Born(w)
    BY <2>1, <2>2, NeedsAssumption DEF Born, TypeOK
  <2>4. \A v \in Wants \ {w} : Born(v)' = Born(v)
    BY <2>2, NeedsAssumption DEF Born, TypeOK
  <2>5. Cardinality(Born(w)') = Cardinality(Born(w)) + 1
    BY <2>3, BornFinite, FS_AddElement
  <2>6. want[w] = "promoted"
    BY <2>0, <2>1 DEF PromotionInv
  <2>7. Cardinality(Carriers(w)') = Cardinality(Carriers(w)) - 1
    BY <1>3, <2>0, <2>1
  <2>8. \A v \in Wants \ {w} : Carriers(v)' = Carriers(v)
    BY <1>3, <2>0, <2>1
  <2>9. Cardinality(Born(w)') + Cardinality(Carriers(w)') <= Cardinality(Promoters)
    <3>1. Cardinality(Born(w)) + Cardinality(Carriers(w)) <= Cardinality(Promoters)
      BY <2>1 DEF PromotionInv
    <3>2. Cardinality(Born(w)) \in Nat /\ Cardinality(Carriers(w)) \in Nat
      BY BornFinite
    <3> QED BY <2>5, <2>7, <3>1, <3>2
  <2>10. \A v \in Wants :
           Cardinality(Born(v)') + Cardinality(Carriers(v)') <= Cardinality(Promoters)
    BY <2>4, <2>8, <2>9 DEF PromotionInv
  <2>11. \A v \in Wants : want'[v] = "pending" => Born(v)' = {}
    BY <2>2, <2>4, <2>6 DEF PromotionInv
  <2>12. /\ \A q \in Promoters : promoter'[q] = "idle" => chosen'[q] = NoWant
         /\ \A q \in Promoters : promoter'[q] = "enqueue" => want'[chosen'[q]] = "promoted"
    BY <1>3, <2>0, <2>1, <2>2 DEF PromotionInv
  <2> QED BY <2>10, <2>11, <2>12 DEF PromotionInv
<1>7. ASSUME NEW p \in Promoters, PromoteDropped(p) PROVE PromotionInv'
  <2>0. PICK w \in Wants : chosen[p] = w
    BY <1>7 DEF PromoteDropped, Bound
  <2>1. PromoteOver(p) /\ UNCHANGED <<want, origin>>
    BY <1>7 DEF PromoteDropped, PromoteOnly
  <2>2. \A v \in Wants : Born(v)' = Born(v)
    BY <2>1 DEF Born
  <2>3. Cardinality(Carriers(w)') = Cardinality(Carriers(w)) - 1
    BY <1>3, <2>0, <2>1
  <2>4. \A v \in Wants \ {w} : Carriers(v)' = Carriers(v)
    BY <1>3, <2>0, <2>1
  <2>5. Cardinality(Born(w)') + Cardinality(Carriers(w)') <= Cardinality(Promoters)
    <3>1. Cardinality(Born(w)) + Cardinality(Carriers(w)) <= Cardinality(Promoters)
      BY <2>1 DEF PromotionInv
    <3>2. /\ Cardinality(Born(w)) \in Nat /\ Cardinality(Carriers(w)) \in Nat
          /\ Cardinality(Promoters) \in Nat
      BY BornFinite, NeedsAssumption, FS_CardinalityType
    <3>3. Cardinality(Born(w)') = Cardinality(Born(w))
      BY <2>2
    <3> QED BY <2>3, <3>1, <3>2, <3>3
  <2>6. \A v \in Wants :
          Cardinality(Born(v)') + Cardinality(Carriers(v)') <= Cardinality(Promoters)
    BY <2>2, <2>4, <2>5 DEF PromotionInv
  <2>7. \A v \in Wants : want'[v] = "pending" => Born(v)' = {}
    BY <2>1, <2>2 DEF PromotionInv
  <2>8. /\ \A q \in Promoters : promoter'[q] = "idle" => chosen'[q] = NoWant
        /\ \A q \in Promoters : promoter'[q] = "enqueue" => want'[chosen'[q]] = "promoted"
    BY <1>3, <2>0, <2>1 DEF PromotionInv
  <2> QED BY <2>6, <2>7, <2>8 DEF PromotionInv
<1>8. ASSUME Crash PROVE PromotionInv'
  <2>1. /\ UNCHANGED <<want, origin>>
        /\ \A q \in Promoters : promoter'[q] = "idle" /\ chosen'[q] = NoWant
    BY <1>8 DEF Crash, Fresh
  <2>2. \A w \in Wants : Born(w)' = Born(w)
    BY <2>1 DEF Born
  <2>3. \A w \in Wants : Carriers(w)' = {}
    BY <2>1, NeedsAssumption DEF Carriers
  <2>4. \A w \in Wants : Cardinality(Born(w)) <= Cardinality(Promoters)
    <3> SUFFICES ASSUME NEW w \in Wants
                 PROVE  Cardinality(Born(w)) <= Cardinality(Promoters)
      OBVIOUS
    <3>1. Cardinality(Born(w)) + Cardinality(Carriers(w)) <= Cardinality(Promoters)
      BY DEF PromotionInv
    <3>2. /\ Cardinality(Born(w)) \in Nat /\ Cardinality(Carriers(w)) \in Nat
          /\ Cardinality(Promoters) \in Nat
      BY BornFinite, NeedsAssumption, FS_CardinalityType
    <3> QED BY <3>1, <3>2
  <2>5. \A w \in Wants :
          Cardinality(Born(w)') + Cardinality(Carriers(w)') <= Cardinality(Promoters)
    <3> SUFFICES ASSUME NEW w \in Wants
                 PROVE  Cardinality(Born(w)') + Cardinality(Carriers(w)')
                          <= Cardinality(Promoters)
      OBVIOUS
    <3>1. Cardinality(Born(w)') = Cardinality(Born(w)) /\ Cardinality(Carriers(w)') = 0
      BY <2>2, <2>3, FS_EmptySet
    <3>2. Cardinality(Born(w)) \in Nat
      BY BornFinite
    <3> QED BY <2>4, <3>1, <3>2
  <2>6. \A w \in Wants : want'[w] = "pending" => Born(w)' = {}
    BY <2>1, <2>2 DEF PromotionInv
  <2> QED BY <2>1, <2>5, <2>6 DEF PromotionInv
<1>9. ASSUME \/ NotifyOne \/ EnqueueDropped \/ UNCHANGED vars
             \/ \E s \in Services : Lease(s) \/ Listen(s) \/ Spawn(s)
             \/ \E n \in Needs : Plan(n) \/ RoomEnds(n) \/ Fulfill(n)
      PROVE  PromotionInv'
  <2>1. UNCHANGED <<want, origin, chosen, promoter>>
    BY <1>9 DEF NotifyOne, EnqueueDropped, vars, Lease, Listen, Spawn, Plan, RoomEnds,
                Fulfill
  <2> QED BY <1>1, <2>1
<1>10. ASSUME Enqueue PROVE PromotionInv'
  BY <1>2, <1>10, InsertType DEF Enqueue
<1>11. ASSUME EmsInsert PROVE PromotionInv'
  BY <1>2, <1>11, EmsInsertType
<1> QED
  BY <1>4, <1>5, <1>6, <1>7, <1>8, <1>9, <1>10, <1>11, NeedNextCases

-----------------------------------------------------------------------------
(* The refinement: EMS is all the abstract queue reads.                    *)

LEMMA QueueStep ==
  ASSUME TypeOK, Bound, Unmade, ExclusionInv, [Next]_vars
  PROVE  [Queue!Next]_(Queue!vars)
<1> DEFINE working == {n \in Needs : status[n] = "running"}
           finished == {n \in Needs : status[n] = "fulfilled"}
<1> USE DEF emsVars, queueVars, serviceVars, promoteVars, historyVars
<1>0. DOMAIN rank = Needs
  BY NeedsAssumption DEF Needs
<1>1. ASSUME UNCHANGED <<status, replyTo>> PROVE UNCHANGED Queue!vars
  BY <1>1 DEF Queue!vars, Leasable
\* A new need arrives, or has a reply_to and no service sees it.
<1>2. ASSUME NEW w \in Wants \cup {NoWant}, Row(w),
             replyTo' \in {replyTo, replyTo \cup {made + 1}}
      PROVE  (\E n \in Needs : Queue!Arrive(n)) \/ UNCHANGED Queue!vars
  <2> DEFINE n == made + 1
  <2>1. /\ n \in Needs /\ status[n] = "unborn"
        /\ status' = [status EXCEPT ![n] = "pending"]
    BY <1>2, RowType
  <2>2. working' = working /\ finished' = finished
    BY <2>1 DEF TypeOK
  <2>3. CASE n \notin replyTo'
    <3>1. Leasable' = Leasable \cup {n}
      BY <1>2, <2>1, <2>3 DEF Leasable, TypeOK
    <3> QED BY <2>1, <2>2, <3>1 DEF Queue!Arrive, Leasable
  <2>4. CASE n \in replyTo'
    <3>1. Leasable' = Leasable
      BY <1>2, <2>1, <2>4 DEF Leasable, TypeOK
    <3> QED BY <2>2, <3>1 DEF Queue!vars
  <2> QED BY <2>3, <2>4
<1>3. ASSUME NEW s \in Services, Lease(s)
      PROVE  (\E n \in Needs : Queue!Take(n)) \/ UNCHANGED Queue!vars
  <2>1. replyTo' = replyTo
    BY <1>3, LeaseCases
  <2>2. ASSUME NEW n \in Needs, First(n), status' = [status EXCEPT ![n] = "running"]
        PROVE  Queue!Take(n)
    <3>1. n \in Leasable /\ status[n] = "pending"
      BY <2>2 DEF First, Leasable
    <3>2. Leasable' = Leasable \ {n}
      BY <2>1, <2>2 DEF Leasable, TypeOK
    <3>3. working' = working \cup {n} /\ finished' = finished
      BY <2>2, <3>1 DEF TypeOK
    <3>4. \A m \in Leasable \ {n} : Queue!Before(n, m)
      BY <2>2 DEF First, Precedes, Queue!Before
    <3> QED BY <3>1, <3>2, <3>3, <3>4 DEF Queue!Take
  <2>3. CASE UNCHANGED status
    BY <1>1, <2>1, <2>3
  <2>4. UNCHANGED status \/ \E n \in Needs : First(n) /\ status' = [status EXCEPT ![n] = "running"]
    BY <1>3, LeaseCases
  <2> QED BY <2>2, <2>3, <2>4
<1>4. ASSUME NEW n \in Needs, Fulfill(n) PROVE Queue!Finish(n)
  <2>1. status[n] = "running"
    BY <1>4 DEF Fulfill, ExclusionInv, LeaseExclusive
  <2>2. status' = [status EXCEPT ![n] = "fulfilled"] /\ replyTo' = replyTo
    BY <1>4, <2>1 DEF Fulfill
  <2>3. Leasable' = Leasable /\ working' = working \ {n}
        /\ finished' = finished \cup {n}
    BY <2>1, <2>2 DEF Leasable, TypeOK
  <2> QED BY <2>1, <2>3 DEF Queue!Finish
<1>5. ASSUME Enqueue PROVE (\E n \in Needs : Queue!Arrive(n)) \/ UNCHANGED Queue!vars
  BY <1>5, <1>2, InsertType DEF Enqueue
<1>6. ASSUME NEW p \in Promoters, PromoteEnqueue(p)
      PROVE  (\E n \in Needs : Queue!Arrive(n)) \/ UNCHANGED Queue!vars
  <2>1. chosen[p] \in Wants \cup {NoWant} /\ Row(chosen[p]) /\ UNCHANGED replyTo
    BY <1>6, PromoteEnqueueCases, InsertType
  <2> QED BY <1>2, <2>1
<1>7. ASSUME EmsInsert PROVE (\E n \in Needs : Queue!Arrive(n)) \/ UNCHANGED Queue!vars
  BY <1>2, <1>7, EmsInsertType
<1>8. ASSUME \/ NotifyOne \/ EnqueueDropped \/ Crash \/ UNCHANGED vars
             \/ \E s \in Services : Listen(s) \/ Spawn(s)
             \/ \E n \in Needs : Plan(n) \/ RoomEnds(n)
             \/ \E p \in Promoters : Select(p) \/ Mark(p) \/ PromoteDropped(p)
      PROVE  UNCHANGED Queue!vars
  <2>1. UNCHANGED <<status, replyTo>>
    BY <1>8 DEF NotifyOne, EnqueueDropped, Crash, vars, Listen, Spawn, Plan, RoomEnds,
                Select, Mark, PromoteDropped, PromoteOnly
  <2> QED BY <1>1, <2>1
<1> QED
  BY <1>0, <1>3, <1>4, <1>5, <1>6, <1>7, <1>8, NeedNextCases DEF Queue!Next

-----------------------------------------------------------------------------
(* The theorems.                                                           *)

NeedsInv ==
  /\ TypeOK /\ Bound /\ Unmade
  /\ ServiceInv /\ PermitsAccounted
  /\ ExclusionInv

LEMMA NeedsInvariant == Spec => []NeedsInv
<1>1. Init => NeedsInv
  <2> SUFFICES ASSUME Init PROVE NeedsInv
    OBVIOUS
  <2> USE DEF Init, Fresh
  <2>1. TypeOK
    BY NeedsAssumption DEF TypeOK, Needs, None
  <2>2. Bound /\ Unmade /\ ServiceInv
    BY DEF Bound, Unmade, ServiceInv
  <2>3. ExclusionInv
    BY DEF ExclusionInv, LeaseExclusive, Stranded
  <2>4. PermitsAccounted
    <3>1. \A s \in Services : Tasks(s) = {} /\ permits[s] = max_concurrent_rooms
      BY DEF Tasks
    <3>2. \A s \in Services : Cardinality(Tasks(s)) = 0
      BY <3>1, FS_EmptySet
    <3> QED BY <3>1, <3>2, NeedsAssumption DEF PermitsAccounted
  <2> QED BY <2>1, <2>2, <2>3, <2>4 DEF NeedsInv
<1>2. NeedsInv /\ [Next]_vars => NeedsInv'
  BY TypeStep, ServiceStep, PermitsStep, ExclusionStep DEF NeedsInv, ExclusionInv
<1> QED BY <1>1, <1>2, PTL DEF Spec

\* Every reachable state is well typed, for any numbers of needs, wants,
\* services, promotions and restarts; in particular no service ever has more
\* permits than max_concurrent_rooms, or fewer than none.
THEOREM NeedQueueTypeCorrect == Spec => []TypeOK
<1>1. NeedsInv => TypeOK
  BY DEF NeedsInv
<1> QED BY <1>1, NeedsInvariant, PTL

\* A need is in one pair of hands at most, and none is handed out again after
\* a restart.
THEOREM LeasesAreExclusive == Spec => []LeaseExclusive
<1>1. NeedsInv => LeaseExclusive
  BY DEF NeedsInv, ExclusionInv
<1> QED BY <1>1, NeedsInvariant, PTL

\* A need that is marked as running is in somebody's hands, a crash took it
\* away from them, or it has no text and the service that took it went on.
THEOREM NoneForgotten == Spec => []NoNeedForgotten
<1>1. Init => NoNeedForgotten
  BY DEF Init, NoNeedForgotten
<1>2. NeedsInv /\ NoNeedForgotten /\ [Next]_vars => NoNeedForgotten'
  BY HandsStep DEF NeedsInv
<1> QED BY <1>1, <1>2, NeedsInvariant, PTL DEF Spec

\* With at least one service, a need that can be leased never meets a pool
\* that sleeps as a whole.
THEOREM WakeupsSuffice ==
  ASSUME Services # {}
  PROVE  Spec => []NoWakeupLost
<1>1. Init => WakeupInv
  BY DEF Init, WakeupInv, Told, Leasable
<1>2. NeedsInv /\ WakeupInv /\ [Next]_vars => WakeupInv'
  BY WakeupStep DEF NeedsInv
<1>3. WakeupInv => NoWakeupLost
  <2>1. \A s \in Services : Looking(s) => svc[s] # "listening"
    BY DEF Looking
  <2>2. LaneFree => Told = Leasable \ untold
    BY NeedsFinite DEF LaneFree, Told, Leasable
  <2> QED BY <2>1, <2>2 DEF WakeupInv, NoWakeupLost
<1> QED BY <1>1, <1>2, <1>3, NeedsInvariant, PTL DEF Spec

\* Whatever is cancelled or dies, and however often a promotion is tried again,
\* a want becomes no more needs than promotions run at a time: one, when they
\* are made one after another.
THEOREM WantsArePromotedOnce == Spec => []NoSecondPromotion
<1>1. Init => PromotionInv
  <2> SUFFICES ASSUME Init PROVE PromotionInv
    OBVIOUS
  <2>1. \A w \in Wants : Born(w) = {} /\ Carriers(w) = {}
    BY NeedsAssumption DEF Init, Fresh, Born, Carriers
  <2>2. Cardinality(Promoters) \in Nat
    BY NeedsAssumption, FS_CardinalityType
  <2>3. \A w \in Wants :
          Cardinality(Born(w)) + Cardinality(Carriers(w)) <= Cardinality(Promoters)
    BY <2>1, <2>2, FS_EmptySet
  <2> QED BY <2>1, <2>3 DEF Init, Fresh, PromotionInv
<1>2. NeedsInv /\ PromotionInv /\ [Next]_vars => PromotionInv'
  BY PromotionStep DEF NeedsInv
<1>3. PromotionInv => NoSecondPromotion
  <2> SUFFICES ASSUME PromotionInv, NEW w \in Wants
               PROVE  Cardinality({n \in Needs : origin[n] = w}) <= Cardinality(Promoters)
    BY DEF NoSecondPromotion
  <2>1. Cardinality(Born(w)) + Cardinality(Carriers(w)) <= Cardinality(Promoters)
    BY DEF PromotionInv
  <2>2. /\ Cardinality(Born(w)) \in Nat /\ Cardinality(Carriers(w)) \in Nat
        /\ Cardinality(Promoters) \in Nat
    BY BornFinite, NeedsAssumption, FS_CardinalityType
  <2>3. Cardinality(Born(w)) <= Cardinality(Promoters)
    BY <2>1, <2>2
  <2> QED BY <2>3 DEF Born
<1> QED BY <1>1, <1>2, <1>3, NeedsInvariant, PTL DEF Spec

\* The syscalls on EMS implement the queue their documentation promises, over
\* any interleaving of services, inserts and promotions and over restarts.
THEOREM NeedQueueImplementsWorkQueue == Spec => ImplementsWorkQueue
<1>1. Init => Queue!Init
  BY DEF Init, Queue!Init, Leasable
<1>2. NeedsInv /\ [Next]_vars => [Queue!Next]_(Queue!vars)
  BY QueueStep DEF NeedsInv
<1> QED BY <1>1, <1>2, NeedsInvariant, PTL DEF Spec, ImplementsWorkQueue
=============================================================================
