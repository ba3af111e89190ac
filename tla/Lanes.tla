------------------------------- MODULE Lanes -------------------------------
(***************************************************************************)
(* The concurrency lanes of the dispatcher: KernelRouter::lane_for         *)
(* (src/daemon/src/kernel/router.rs) and the lane mutexes the exec tasks   *)
(* of KernelDispatcher::dispatch take around Syscall::execute              *)
(* (src/daemon/src/kernel/dispatcher.rs).                                  *)
(*                                                                         *)
(* Handlers dispatch calls of their own: the agents of room:run and the    *)
(* hand loop of hand:run run tool calls through dispatch_tool              *)
(* (src/daemon/src/syscalls/dispatch.rs) and want:promote enqueues a need. *)
(* Such a child has a fresh cancellation token and no deadline, and its    *)
(* parent's handler awaits its answer.  Agents of one room run             *)
(* concurrently, so a room may await several children.                     *)
(*                                                                         *)
(* Frames are left out (module Dispatcher), and so is what the handlers do *)
(* but for one thing: need:lease returns only when a need is pending.      *)
(***************************************************************************)
EXTENDS Naturals, Sequences

CONSTANTS Calls,      (* identifiers of calls, each used once: the bound    *)
          NoCall,     (* no call                                            *)
          RootNames   (* the syscalls clients and services dispatch         *)

\* The syscalls that matter to the lanes; "exec:run" stands for every
\* namespace without a lane.
NeedNames == {"need:lease", "need:enqueue", "need:fulfill"}
RoomNames == {"room:run", "room:context", "room:list"}
Names == NeedNames \cup RoomNames \cup {"hand:run", "want:promote", "exec:run"}

ASSUME LanesAssumption ==
  /\ NoCall \notin Calls
  /\ RootNames \subseteq Names

SerialLanes == {"Need", "Room"}

\* Mutant (ProgressDespiteRooms): the namespace rule without the override the
\* router makes for the long poll.
lane_for_NoLeaseOverride(name) ==
  IF name \in NeedNames THEN "Need"
  ELSE IF name \in RoomNames \ {"room:list"} THEN "Room"
  ELSE "Immediate"

lane_for(name) ==
  IF name \in NeedNames \ {"need:lease"} THEN "Need"
  ELSE IF name \in RoomNames \ {"room:list"} THEN "Room"
  ELSE "Immediate"

\* The catalogs: which of these syscalls a handler's agents may call.
Nested(name) ==
  CASE name = "room:run" -> {"room:context", "need:enqueue", "want:promote",
                             "hand:run", "exec:run"}
    [] name = "hand:run" -> {"room:context", "exec:run"}
    [] name = "want:promote" -> {"need:enqueue"}
    [] OTHER -> {}

VARIABLES
  state,    (* per call: "unused", "spawned", "waiting", "running", "ended" *)
  name,     (* per call: the syscall it names                               *)
  parent,   (* per call: the call whose handler awaits it, or NoCall        *)
  holder,   (* per serial lane: the call whose exec task has the mutex      *)
  waiters,  (* per serial lane: the calls queued on the mutex, FIFO         *)
  pending   (* needs enqueued and not leased                                *)

lanesVars == <<state, name, parent, holder, waiters, pending>>

Lane(c) == lane_for(name[c])

Live == {"spawned", "waiting", "running"}

Children(c) == {d \in Calls : parent[d] = c /\ state[d] \in Live}

LanesInit ==
  /\ state = [c \in Calls |-> "unused"]
  /\ name = [c \in Calls |-> "exec:run"]
  /\ parent = [c \in Calls |-> NoCall]
  /\ holder = [l \in SerialLanes |-> NoCall]
  /\ waiters = [l \in SerialLanes |-> <<>>]
  /\ pending = 0

-----------------------------------------------------------------------------
(* Dispatching.                                                            *)

Spawn(c, n, p) ==
  /\ state[c] = "unused"
  /\ state' = [state EXCEPT ![c] = "spawned"]
  /\ name' = [name EXCEPT ![c] = n]
  /\ parent' = [parent EXCEPT ![c] = p]
  /\ UNCHANGED <<holder, waiters, pending>>

DispatchRoot(c) == \E n \in RootNames : Spawn(c, n, NoCall)

\* One agent of the room calls a tool.  The hand loop and want:promote have
\* one call under way at most.
DispatchNested(c) ==
  \E p \in Calls :
    /\ state[p] = "running"
    /\ name[p] # "room:run" => Children(p) = {}
    /\ \E n \in Nested(name[p]) : Spawn(c, n, p)

-----------------------------------------------------------------------------
(* The exec task.                                                          *)

\* The first poll of `run`: execute at once, or lock the lane.
LaneExec(c) ==
  /\ state[c] = "spawned"
  /\ IF Lane(c) = "Immediate"
     THEN /\ state' = [state EXCEPT ![c] = "running"]
          /\ UNCHANGED <<holder, waiters>>
     ELSE IF holder[Lane(c)] = NoCall
     THEN /\ state' = [state EXCEPT ![c] = "running"]
          /\ holder' = [holder EXCEPT ![Lane(c)] = c]
          /\ UNCHANGED waiters
     ELSE /\ state' = [state EXCEPT ![c] = "waiting"]
          /\ waiters' = [waiters EXCEPT ![Lane(c)] = Append(@, c)]
          /\ UNCHANGED holder
  /\ UNCHANGED <<name, parent, pending>>

\* Dropping the guard hands the mutex to the first waiter.
ReleaseLane(c) ==
  IF Lane(c) = "Immediate" \/ waiters[Lane(c)] = <<>>
  THEN /\ state' = [state EXCEPT ![c] = "ended"]
       /\ holder' = [l \in SerialLanes |->
                       IF l = Lane(c) THEN NoCall ELSE holder[l]]
       /\ UNCHANGED waiters
  ELSE LET next == Head(waiters[Lane(c)])
       IN /\ state' = [state EXCEPT ![c] = "ended", ![next] = "running"]
          /\ holder' = [holder EXCEPT ![Lane(c)] = next]
          /\ waiters' = [waiters EXCEPT ![Lane(c)] = Tail(@)]

\* The handler returns: every child has answered, and a lease has its need.
Return(c) ==
  /\ state[c] = "running"
  /\ Children(c) = {}
  /\ name[c] = "need:lease" => pending > 0
  /\ pending' = CASE name[c] = "need:lease" -> pending - 1
                  [] name[c] = "need:enqueue" -> pending + 1
                  [] OTHER -> pending
  /\ ReleaseLane(c)
  /\ UNCHANGED <<name, parent>>

DropAt(s, i) == [j \in 1 .. Len(s) - 1 |-> IF j < i THEN s[j] ELSE s[j + 1]]

\* Mutant (LaneNeverLost): the call is given up but its guard is not
\* dropped with it.
InterruptLeaksGuard(c) ==
  /\ parent[c] = NoCall
  /\ UNCHANGED <<name, parent, pending, holder>>
  /\ state[c] \in {"running", "waiting"}
  /\ state' = [state EXCEPT ![c] = "ended"]
  /\ IF state[c] = "waiting"
     THEN \E i \in 1 .. Len(waiters[Lane(c)]) :
            /\ waiters[Lane(c)][i] = c
            /\ waiters' = [waiters EXCEPT ![Lane(c)] = DropAt(@, i)]
     ELSE UNCHANGED waiters

\* The select takes the cancelled or the deadline branch and drops `run`,
\* with the guard or the place in the queue it has.  Only a root call has a
\* deadline, or a caller that cancels or stalls.  Its children go on.
Interrupt(c) ==
  /\ parent[c] = NoCall
  /\ UNCHANGED <<name, parent, pending>>
  /\ \/ state[c] = "running" /\ ReleaseLane(c)
     \/ /\ state[c] = "waiting"
        /\ state' = [state EXCEPT ![c] = "ended"]
        /\ \E i \in 1 .. Len(waiters[Lane(c)]) :
             /\ waiters[Lane(c)][i] = c
             /\ waiters' = [waiters EXCEPT ![Lane(c)] = DropAt(@, i)]
        /\ UNCHANGED holder

LanesNext ==
  \/ \E c \in Calls : DispatchRoot(c) \/ DispatchNested(c)
  \/ \E c \in Calls : LaneExec(c) \/ Return(c) \/ Interrupt(c)

\* The runtime polls ready tasks, and a handler that awaits no child and has
\* what it waits for finishes (rooms and hand loops are bounded by max_rounds
\* and their iteration limits).  Nobody has to call, cancel or time out.
LanesFairness == \A c \in Calls : WF_lanesVars(LaneExec(c)) /\ WF_lanesVars(Return(c))

LanesSpec == LanesInit /\ [][LanesNext]_lanesVars /\ LanesFairness
-----------------------------------------------------------------------------
(* Properties.                                                             *)

LanesTypeOK ==
  /\ state \in [Calls -> {"unused", "ended"} \cup Live]
  /\ name \in [Calls -> Names]
  /\ parent \in [Calls -> Calls \cup {NoCall}]
  /\ holder \in [SerialLanes -> Calls \cup {NoCall}]
  /\ waiters \in [SerialLanes -> Seq(Calls)]
  /\ pending \in Nat

\* Handlers of one serial lane never overlap: two mutations of the need queue
\* or of room state are never interleaved, also when a call is interrupted
\* and the mutex changes hands.
LaneExclusive ==
  \A c, d \in Calls :
    /\ state[c] = "running" /\ state[d] = "running"
    /\ Lane(c) = Lane(d) /\ Lane(c) \in SerialLanes
    => c = d

\* A lane is never lost: whoever holds it is running in it, whoever waits for
\* it is queued once, and a lane with a queue has a holder, so a call that was
\* cancelled or timed out never keeps the others waiting.
LaneNeverLost ==
  \A l \in SerialLanes :
    /\ holder[l] # NoCall => state[holder[l]] = "running" /\ Lane(holder[l]) = l
    /\ holder[l] = NoCall => waiters[l] = <<>>
    /\ \A i \in 1 .. Len(waiters[l]) :
         /\ state[waiters[l][i]] = "waiting"
         /\ Lane(waiters[l][i]) = l
         /\ \A j \in 1 .. Len(waiters[l]) : waiters[l][i] = waiters[l][j] => i = j

\* Needs can be enqueued and fulfilled, and rooms listed, whatever the rooms
\* and the leases that are under way wait for.
ProgressDespiteRooms ==
  \A c \in Calls :
    state[c] = "spawned" /\ name[c] \in {"need:enqueue", "need:fulfill", "room:list"}
      ~> state[c] = "ended"

ParentOf(c) == IF c = NoCall THEN NoCall ELSE parent[c]

Ancestors(c) == {parent[c], ParentOf(parent[c]), ParentOf(ParentOf(parent[c]))}
                  \ {NoCall}

\* "enforces concurrency lanes to prevent deadlocks" (dispatcher.rs:6-7): no
\* call waits for a lane held by a call that awaits it.
NoLaneDeadlock ==
  \A c \in Calls : state[c] = "waiting" => holder[Lane(c)] \notin Ancestors(c)
=============================================================================
