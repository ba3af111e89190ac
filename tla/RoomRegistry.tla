---------------------------- MODULE RoomRegistry ----------------------------
(***************************************************************************)
(* RoomRegistry and run_persistent_room                                    *)
(* (src/daemon/src/kernel/room_registry.rs), with the registry calls an    *)
(* interactive chat:message makes (src/daemon/src/syscalls/chat/           *)
(* message.rs) and the sweep of Kernel::start_room_gc                      *)
(* (src/daemon/src/runtime/kernel.rs).                                     *)
(*                                                                         *)
(* Two kinds of locks matter: the RwLock of the registry's map and, per    *)
(* room, the mutex of its state, which the runner keeps for a whole turn.  *)
(* Tokio serves both in FIFO order: a lock is the line of tasks that want  *)
(* it, the foremost have it.  attach_door and inject_message wait for the  *)
(* mutex while they have the map's lock.                                   *)
(*                                                                         *)
(* A message is the request that brought it, and so is a door.  A room has *)
(* one agent, head-0; of it are kept its unread user messages and whether  *)
(* it is active: one that leaves with noop_done comes back with the next   *)
(* door only.  What a turn does is module ChatTurn, the rounds of one are  *)
(* module RoomRunner.  Left out, as nothing but tests calls them:          *)
(* detach_door, wait_for_done (so `done`), len and is_empty.               *)
(***************************************************************************)
EXTENDS Naturals, Sequences, FiniteSets

CONSTANTS Requests,   (* chat:message calls of interactive users            *)
          Names,      (* room names                                         *)
          NoDoor,     (* Room::door is None                                 *)
          Gc,         (* the task of start_room_gc                          *)
          MaxRooms    (* bound: ActiveRoom objects ever made                *)

ASSUME RegistryAssumption ==
  MaxRooms \in Nat /\ NoDoor \notin Requests /\ Gc \notin Requests

Rooms == 1 .. MaxRooms

NoRoom == 0

VARIABLES
  line,     (* the map's RwLock: <<task, "read" or "write">>, FIFO          *)
  rooms,    (* RoomRegistry::rooms: per name, its ActiveRoom or NoRoom      *)
  made,     (* ActiveRoom objects made so far                               *)
  named,    (* per room: the name it was made for                           *)
  stale,    (* rooms whose last_activity is older than the gc timeout       *)
  mutex,    (* per room: the line of tasks at the mutex of its state        *)
  door,     (* per room: the request whose door is attached                 *)
  unread,   (* per room: messages in the agent's history, not in a turn     *)
  present,  (* per room: RoomAgent::active of its agent                     *)
  permit,   (* per room: `notify` stores a permit                           *)
  runner,   (* per room: where run_persistent_room is                       *)
  reading,  (* per room: the messages of the turn under way                 *)
  pc,       (* per request: where chat:message is                           *)
  wants,    (* per request: the room's name                                 *)
  in,       (* per request: the room whose mutex it is in line for          *)
  injected, (* history: messages that reached a room                        *)
  evicted   (* history: rooms gc_idle removed                               *)

lockVars == <<line, rooms, made, named, stale, evicted>>

roomVars == <<mutex, door, unread, present, permit, runner, reading>>

requestVars == <<pc, wants, in, injected>>

vars == <<lockVars, roomVars, requestVars>>

Init ==
  /\ line = <<>>
  /\ rooms = [n \in Names |-> NoRoom]
  /\ made = 0
  /\ named = [r \in Rooms |-> CHOOSE n \in Names : TRUE]
  /\ stale = {}
  /\ evicted = {}
  /\ mutex = [r \in Rooms |-> <<>>]
  /\ door = [r \in Rooms |-> NoDoor]
  /\ unread = [r \in Rooms |-> {}]
  /\ present = [r \in Rooms |-> TRUE]
  /\ permit = [r \in Rooms |-> FALSE]
  /\ runner = [r \in Rooms |-> "unborn"]
  /\ reading = [r \in Rooms |-> {}]
  /\ pc = [q \in Requests |-> "idle"]
  /\ wants \in [Requests -> Names]
  /\ in = [q \in Requests |-> NoRoom]
  /\ injected = {}

-----------------------------------------------------------------------------
(* The map's lock: the first in line has it, and every reader that only    *)
(* readers precede.                                                        *)

Reads(t) ==
  \E i \in DOMAIN line :
    line[i][1] = t /\ \A j \in 1 .. i : line[j][2] = "read"

Writes(t) == line # <<>> /\ line[1] = <<t, "write">>

Without(t) == SelectSeq(line, LAMBDA e : e[1] # t)

Join(t, mode) == line' = Append(line, <<t, mode>>)

Leave(t) == line' = Without(t)

Touch(r) == stale' = stale \ {r}

-----------------------------------------------------------------------------
(* chat:message, interactive.                                              *)

Goes(q, from, to) == pc[q] = from /\ pc' = [pc EXCEPT ![q] = to]

Start(q) ==
  /\ Goes(q, "idle", "find")
  /\ Join(q, "read")
  /\ UNCHANGED <<rooms, made, named, stale, evicted, roomVars, wants, in, injected>>

\* get_or_create, the fast path: the room, or a place in the line of writers.
Find(q) ==
  LET r == rooms[wants[q]]
  IN /\ Reads(q)
     /\ \/ /\ r # NoRoom
           /\ Goes(q, "find", "found")
           /\ Leave(q)
           /\ Touch(r)
        \/ /\ r = NoRoom
           /\ Goes(q, "find", "create")
           /\ line' = Append(Without(q), <<q, "write">>)
           /\ UNCHANGED stale
     /\ UNCHANGED <<rooms, made, named, evicted, roomVars, wants, in, injected>>

\* A new ActiveRoom in the map; its runner loop is spawned.
Make(n) ==
  LET r == made + 1
  IN /\ made < MaxRooms
     /\ made' = r
     /\ named' = [named EXCEPT ![r] = n]
     /\ rooms' = [rooms EXCEPT ![n] = r]
     /\ runner' = [runner EXCEPT ![r] = "loop"]
     /\ UNCHANGED <<stale, mutex, door, unread, present, permit, reading>>

\* The slow path, with the second look.
Create(q) ==
  LET r == rooms[wants[q]]
  IN /\ Writes(q)
     /\ Goes(q, "create", "found")
     /\ Leave(q)
     /\ \/ r # NoRoom /\ Touch(r) /\ UNCHANGED <<rooms, made, named, roomVars>>
        \/ r = NoRoom /\ Make(wants[q])
     /\ UNCHANGED <<evicted, wants, in, injected>>

\* The message is in the frame log; attach_door asks for the map.
Persist(q) ==
  /\ Goes(q, "found", "attach")
  /\ Join(q, "read")
  /\ UNCHANGED <<rooms, made, named, stale, evicted, roomVars, wants, in, injected>>

\* With the map's lock: into the line for the room's state, or, the room
\* being gone, a warning and nothing.
Enter(q, from, inside, after) ==
  LET r == rooms[wants[q]]
  IN /\ Reads(q)
     /\ \/ /\ r # NoRoom
           /\ Goes(q, from, inside)
           /\ in' = [in EXCEPT ![q] = r]
           /\ mutex' = [mutex EXCEPT ![r] = Append(@, q)]
           /\ UNCHANGED line
        \/ /\ r = NoRoom
           /\ Goes(q, from, after)
           /\ Leave(q)
           /\ UNCHANGED <<in, mutex>>
     /\ UNCHANGED <<rooms, made, named, stale, evicted, door, unread, present, permit,
                    runner, reading, wants, injected>>

\* attach_door: under the mutex the door is swapped and the agent is active
\* again, then the map is let go.
Attach(q) ==
  \/ Enter(q, "attach", "attaching", "attached")
  \/ LET r == in[q]
     IN /\ Goes(q, "attaching", "attached")
        /\ Head(mutex[r]) = q
        /\ mutex' = [mutex EXCEPT ![r] = Tail(@)]
        /\ door' = [door EXCEPT ![r] = q]
        /\ present' = [present EXCEPT ![r] = TRUE]
        /\ in' = [in EXCEPT ![q] = NoRoom]
        /\ Leave(q)
        /\ Touch(r)
        /\ UNCHANGED <<rooms, made, named, evicted, unread, permit, runner, reading,
                       wants, injected>>

Attached(q) ==
  /\ Goes(q, "attached", "inject")
  /\ Join(q, "read")
  /\ UNCHANGED <<rooms, made, named, stale, evicted, roomVars, wants, in, injected>>

\* inject_message: the message is pushed under the mutex.
Inject(q) ==
  \/ Enter(q, "inject", "injecting", "sent")
  \/ LET r == in[q]
     IN /\ Goes(q, "injecting", "notify")
        /\ Head(mutex[r]) = q
        /\ mutex' = [mutex EXCEPT ![r] = Tail(@)]
        /\ unread' = [unread EXCEPT ![r] = @ \cup {q}]
        /\ injected' = injected \cup {q}
        /\ Touch(r)
        /\ UNCHANGED <<line, rooms, made, named, evicted, door, present, permit, runner,
                       reading, wants, in>>

\* notify_one: wakes the runner that waits, or leaves it a permit.
NotifyOne(q) ==
  LET r == in[q]
  IN /\ Goes(q, "notify", "sent")
     /\ \/ /\ runner[r] = "waiting"
           /\ runner' = [runner EXCEPT ![r] = "woken"]
           /\ UNCHANGED permit
        \/ /\ runner[r] # "waiting"
           /\ permit' = [permit EXCEPT ![r] = TRUE]
           /\ UNCHANGED runner
     /\ in' = [in EXCEPT ![q] = NoRoom]
     /\ Leave(q)
     /\ UNCHANGED <<rooms, made, named, stale, evicted, mutex, door, unread, present,
                    reading, wants, injected>>

Handle(q) ==
  \/ Find(q) \/ Create(q) \/ Persist(q) \/ Attach(q)
  \/ Attached(q) \/ Inject(q) \/ NotifyOne(q)

-----------------------------------------------------------------------------
(* run_persistent_room.  Its ActiveRoom stays while it runs, so its runner *)
(* outlives the eviction.                                                  *)

\* notified(): takes the permit, or waits.
Listen(r) ==
  /\ runner[r] = "loop"
  /\ runner' = [runner EXCEPT ![r] = IF permit[r] THEN "woken" ELSE "waiting"]
  /\ permit' = [permit EXCEPT ![r] = FALSE]
  /\ UNCHANGED <<lockVars, mutex, door, unread, present, reading, requestVars>>

LockState(r) ==
  /\ runner[r] = "woken"
  /\ runner' = [runner EXCEPT ![r] = "locking"]
  /\ mutex' = [mutex EXCEPT ![r] = Append(@, "runner")]
  /\ UNCHANGED <<lockVars, door, unread, present, permit, reading, requestVars>>

\* RoomRunner::run begins: the agent, if it is active, answers all that it has
\* not read.  A run without one is over at once.
TurnBegin(r) ==
  /\ runner[r] = "locking" /\ Head(mutex[r]) = "runner"
  /\ runner' = [runner EXCEPT ![r] = "turn"]
  /\ \/ /\ present[r]
        /\ reading' = [reading EXCEPT ![r] = unread[r]]
        /\ unread' = [unread EXCEPT ![r] = {}]
     \/ /\ ~present[r]
        /\ UNCHANGED <<reading, unread>>
  /\ UNCHANGED <<lockVars, mutex, door, present, permit, requestVars>>

\* run returns; the agent has left the room if it said noop_done.
RoundsOver(r) ==
  /\ runner[r] = "turn"
  /\ runner' = [runner EXCEPT ![r] = "ending"]
  /\ \E left \in {FALSE, present[r]} : present' = [present EXCEPT ![r] = @ /\ ~left]
  /\ UNCHANGED <<lockVars, mutex, door, unread, permit, reading, requestVars>>

\* A panic of the agent's round ends the runner's task, which lets the mutex go.
TurnPanics(r) ==
  /\ runner[r] = "turn" /\ present[r]
  /\ runner' = [runner EXCEPT ![r] = "dead"]
  /\ mutex' = [mutex EXCEPT ![r] = Tail(@)]
  /\ reading' = [reading EXCEPT ![r] = {}]
  /\ UNCHANGED <<lockVars, door, unread, present, permit, requestVars>>

\* Mutant (MessagesAreRead): the activity of the turn is booked through the map,
\* before the mutex is let go.
TurnEndBooks(r) ==
  /\ \A i \in DOMAIN line : line[i][2] = "read"
  /\ runner[r] = "ending"
  /\ runner' = [runner EXCEPT ![r] = "loop"]
  /\ mutex' = [mutex EXCEPT ![r] = Tail(@)]
  /\ reading' = [reading EXCEPT ![r] = {}]
  /\ Touch(r)
  /\ UNCHANGED <<line, rooms, made, named, evicted, door, unread, present, permit, requestVars>>

TurnEnd(r) ==
  /\ runner[r] = "ending"
  /\ runner' = [runner EXCEPT ![r] = "loop"]
  /\ mutex' = [mutex EXCEPT ![r] = Tail(@)]
  /\ reading' = [reading EXCEPT ![r] = {}]
  /\ Touch(r)
  /\ UNCHANGED <<line, rooms, made, named, evicted, door, unread, present, permit, requestVars>>

Run(r) == Listen(r) \/ LockState(r) \/ TurnBegin(r) \/ TurnEnd(r)

-----------------------------------------------------------------------------
(* start_room_gc.                                                          *)

\* Nothing happened in any room for longer than the timeout.
TimePasses ==
  /\ stale # 1 .. made
  /\ stale' = 1 .. made
  /\ UNCHANGED <<line, rooms, made, named, evicted, roomVars, requestVars>>

\* The ticker: gc_idle asks for the map.
GcTick ==
  /\ \A i \in DOMAIN line : line[i][1] # Gc
  /\ Join(Gc, "write")
  /\ UNCHANGED <<rooms, made, named, stale, evicted, roomVars, requestVars>>

\* Mutant (MessageNotLost): evicts what is not idle.
gc_idle_Busy ==
  /\ Writes(Gc)
  /\ rooms' = [n \in Names |-> NoRoom]
  /\ evicted' = evicted \cup (stale \cap {rooms[n] : n \in Names})
  /\ Leave(Gc)
  /\ UNCHANGED <<made, named, stale, roomVars, requestVars>>

\* Idle is what last_activity says, also of a room in the midst of a turn.
gc_idle ==
  /\ Writes(Gc)
  /\ rooms' = [n \in Names |-> IF rooms[n] \in stale THEN NoRoom ELSE rooms[n]]
  /\ evicted' = evicted \cup (stale \cap {rooms[n] : n \in Names})
  /\ Leave(Gc)
  /\ UNCHANGED <<made, named, stale, roomVars, requestVars>>

Next ==
  \/ \E q \in Requests : Start(q) \/ Handle(q)
  \/ \E r \in Rooms : Run(r) \/ RoundsOver(r) \/ TurnPanics(r)
  \/ TimePasses \/ GcTick \/ gc_idle

\* Ready tasks are polled.  Nobody has to chat, time need not pass, and a
\* turn need not end: one that awaits an external tool's result whose client
\* has gone never does.
Fairness ==
  /\ \A q \in Requests : WF_vars(Handle(q))
  /\ \A r \in Rooms : WF_vars(Run(r))
  /\ WF_vars(gc_idle)

Spec == Init /\ [][Next]_vars /\ Fairness
-----------------------------------------------------------------------------
(* Properties.                                                             *)

Tasks == Requests \cup {Gc}

TypeOK ==
  /\ line \in Seq(Tasks \X {"read", "write"})
  /\ rooms \in [Names -> 0 .. made]
  /\ made \in 0 .. MaxRooms
  /\ named \in [Rooms -> Names]
  /\ stale \subseteq 1 .. made
  /\ evicted \subseteq 1 .. made
  /\ mutex \in [Rooms -> Seq(Requests \cup {"runner"})]
  /\ door \in [Rooms -> Requests \cup {NoDoor}]
  /\ unread \in [Rooms -> SUBSET Requests]
  /\ present \in [Rooms -> BOOLEAN]
  /\ permit \in [Rooms -> BOOLEAN]
  /\ runner \in [Rooms -> {"unborn", "loop", "waiting", "woken", "locking", "turn",
                         "ending", "dead"}]
  /\ reading \in [Rooms -> SUBSET Requests]
  /\ pc \in [Requests -> {"idle", "find", "create", "found", "attach", "attaching",
                          "attached", "inject", "injecting", "notify", "sent"}]
  /\ wants \in [Requests -> Names]
  /\ in \in [Requests -> Rooms \cup {NoRoom}]
  /\ injected \subseteq Requests

\* A message the caller was told is sent is in its room, unless gc removed
\* the room while chat:message was under way.
MessageNotLost ==
  \A q \in Requests :
    pc[q] = "sent" /\ q \notin injected =>
      \E r \in evicted : named[r] = wants[q]

TurnsEnd == \A r \in Rooms : []<>(runner[r] # "turn") /\ [](runner[r] # "dead")

\* If every turn ends, and none by a panic, a message comes into a turn,
\* whatever gc and the other rooms do: the locks are taken in an order that
\* cannot close a circle, the message of another's turn is not forgotten, and a
\* room gc evicted goes on with what it was given.  Two messages are not read:
\* one whose room gc removed on its way, and one whose turn finds the agent
\* gone, because the door that would have brought it back was attached before
\* someone else's turn, in which it left; that one waits for the next door.
MessagesAreRead ==
  TurnsEnd =>
    \A q \in Requests :
      pc[q] = "find" ~>
        \/ \E r \in Rooms : q \in reading[r]
        \/ \E r \in Rooms : runner[r] = "turn" /\ ~present[r] /\ q \in unread[r]
        \/ pc[q] = "sent" /\ \E r \in evicted : named[r] = wants[q]

\* "The ChatHandler's turn stream (opened before this syscall) receives
\* response frames via the Door" (message.rs:208-209): a turn answers a message
\* through the door its request attached.
AnswersThroughOwnDoor ==
  \A r \in Rooms : runner[r] = "turn" => reading[r] \subseteq {door[r]}
=============================================================================
