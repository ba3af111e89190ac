------------------------------- MODULE Turns -------------------------------
(***************************************************************************)
(* TurnRuntime (src/daemon/src/kernel/turns.rs): the state of one turn,    *)
(* the key (room, reply_to), and the rendezvous of the heads that wait for *)
(* external tool results with the clients that deliver them.               *)
(*                                                                         *)
(* Every method runs under the mutex of the turn map and is one step, but  *)
(* take_external_tool_result: it lets the mutex go before it creates the   *)
(* Notified future, and between reading a result and removing its entry.   *)
(* The daemon's runtime is multi-threaded, so other calls come in between. *)
(* Notify::notify_waiters stores no permit: it wakes the futures that      *)
(* exist and nobody else.                                                  *)
(*                                                                         *)
(* Left out: ensure_turn, which nothing calls, and recent_completed, which *)
(* nothing reads.  The map's other keys are other turns.                   *)
(***************************************************************************)
EXTENDS Naturals, FiniteSets

CONSTANTS Heads,       (* the tasks that wait for tool results              *)
          ToolIds,     (* tool_call_id's                                    *)
          Results,     (* the contents clients deliver                      *)
          NoResult,    (* PendingTool::result is None                       *)
          MaxNotifies  (* bound: PendingTool entries ever made              *)

VARIABLES
  present,    (* the map has an entry for the turn                          *)
  cancelled,  (* TurnState::cancelled                                       *)
  pending,    (* the keys of TurnState::pending                             *)
  result,     (* per pending id: PendingTool::result                        *)
  notify,     (* per pending id: which Notify it has                        *)
  notifies,   (* Notify objects made so far                                 *)
  at,         (* per head: where in take_external_tool_result it is         *)
  tool,       (* per head: the tool_call_id it takes                        *)
  on,         (* per head: the Notify it cloned                             *)
  got,        (* per head: the result it cloned                             *)
  delivered   (* history, per id: what was delivered under it               *)

turnVars == <<present, cancelled, pending, result, notify, notifies>>

waitVars == <<at, tool, on, got>>

vars == <<turnVars, waitVars, delivered>>

Init ==
  /\ present = FALSE
  /\ cancelled = FALSE
  /\ pending = {}
  /\ result = [id \in ToolIds |-> NoResult]
  /\ notify = [id \in ToolIds |-> 0]
  /\ notifies = 0
  /\ at = [h \in Heads |-> "idle"]
  /\ tool \in [Heads -> ToolIds]
  /\ on = [h \in Heads |-> 0]
  /\ got = [h \in Heads |-> NoResult]
  /\ delivered = [id \in ToolIds |-> {}]

\* Notify::notify_waiters on the Notify objects in ns: a woken head loops.
Wake(ns) ==
  at' = [h \in Heads |->
           IF at[h] = "listening" /\ on[h] \in ns THEN "check" ELSE at[h]]

-----------------------------------------------------------------------------
(* The methods of chat:* syscalls.                                         *)

cancel ==
  /\ present' = TRUE
  /\ cancelled' = TRUE
  /\ Wake({notify[id] : id \in pending})
  /\ UNCHANGED <<pending, result, notify, notifies, tool, on, got, delivered>>

\* Heads that wait are not notified.
finish ==
  /\ present' = FALSE
  /\ cancelled' = FALSE
  /\ pending' = {}
  /\ result' = [id \in ToolIds |-> NoResult]
  /\ UNCHANGED <<notify, notifies, waitVars, delivered>>

register_external_tool(id) ==
  /\ present' = TRUE
  /\ IF id \in pending
     THEN UNCHANGED <<pending, result, notify, notifies>>   \* "duplicate"
     ELSE /\ notifies < MaxNotifies
          /\ notifies' = notifies + 1
          /\ pending' = pending \cup {id}
          /\ result' = [result EXCEPT ![id] = NoResult]
          /\ notify' = [notify EXCEPT ![id] = notifies + 1]
  /\ UNCHANGED <<cancelled, waitVars, delivered>>

deliver_external_tool_result(id, r) ==
  /\ present' = TRUE
  /\ IF id \in pending
     THEN /\ result' = [result EXCEPT ![id] = r]
          /\ Wake({notify[id]})
          /\ delivered' = [delivered EXCEPT ![id] = @ \cup {r}]
     ELSE UNCHANGED <<result, at, delivered>>    \* "no pending tool call"
  /\ UNCHANGED <<cancelled, pending, notify, notifies, tool, on, got>>

-----------------------------------------------------------------------------
(* take_external_tool_result.                                              *)

TakeBegin(h, id) ==
  /\ at[h] = "idle"
  /\ at' = [at EXCEPT ![h] = "check"]
  /\ tool' = [tool EXCEPT ![h] = id]
  /\ UNCHANGED <<turnVars, on, got, delivered>>

\* Under the mutex: an error, a result, or the Notify to wait on.
TakeCheck(h) ==
  /\ at[h] = "check"
  /\ \/ /\ cancelled
        /\ at' = [at EXCEPT ![h] = "cancelled"]
        /\ UNCHANGED <<on, got>>
     \/ /\ ~cancelled /\ tool[h] \notin pending
        /\ at' = [at EXCEPT ![h] = "not_found"]
        /\ UNCHANGED <<on, got>>
     \/ /\ ~cancelled /\ tool[h] \in pending /\ result[tool[h]] # NoResult
        /\ at' = [at EXCEPT ![h] = "removing"]
        /\ got' = [got EXCEPT ![h] = result[tool[h]]]
        /\ UNCHANGED on
     \/ /\ ~cancelled /\ tool[h] \in pending /\ result[tool[h]] = NoResult
        /\ at' = [at EXCEPT ![h] = "unlocked"]
        /\ on' = [on EXCEPT ![h] = notify[tool[h]]]
        /\ UNCHANGED got
  /\ UNCHANGED <<turnVars, tool, delivered>>

\* notify.notified() creates the future: from here on it can be woken.
TakeListen(h) ==
  /\ at[h] = "unlocked"
  /\ at' = [at EXCEPT ![h] = "listening"]
  /\ UNCHANGED <<turnVars, tool, on, got, delivered>>

\* The mutex again: remove the entry, return the result that was cloned.
TakeRemove(h) ==
  /\ at[h] = "removing"
  /\ pending' = pending \ {tool[h]}
  /\ result' = [result EXCEPT ![tool[h]] = NoResult]
  /\ at' = [at EXCEPT ![h] = "ok"]
  /\ UNCHANGED <<present, cancelled, notify, notifies, tool, on, got, delivered>>

\* The caller goes on with the outcome and may take again.
TakeEnd(h) ==
  /\ at[h] \in {"ok", "cancelled", "not_found"}
  /\ at' = [at EXCEPT ![h] = "idle"]
  /\ on' = [on EXCEPT ![h] = 0]
  /\ got' = [got EXCEPT ![h] = NoResult]
  /\ UNCHANGED <<turnVars, tool, delivered>>

TakeStep(h) == TakeCheck(h) \/ TakeListen(h) \/ TakeRemove(h)

Next ==
  \/ cancel
  \/ finish
  \/ \E id \in ToolIds :
       \/ register_external_tool(id)
       \/ \E r \in Results : deliver_external_tool_result(id, r)
       \/ \E h \in Heads : TakeBegin(h, id)
  \/ \E h \in Heads : TakeStep(h) \/ TakeEnd(h)

\* Ready tasks are polled; nobody has to deliver, cancel or finish.
Fairness == \A h \in Heads : WF_vars(TakeStep(h))

Spec == Init /\ [][Next]_vars /\ Fairness
-----------------------------------------------------------------------------
(* Properties.                                                             *)

Places == {"idle", "check", "unlocked", "listening", "removing",
           "ok", "cancelled", "not_found"}

TypeOK ==
  /\ present \in BOOLEAN /\ cancelled \in BOOLEAN
  /\ pending \in SUBSET ToolIds
  /\ result \in [ToolIds -> Results \cup {NoResult}]
  /\ notify \in [ToolIds -> Nat]
  /\ notifies \in Nat
  /\ at \in [Heads -> Places]
  /\ tool \in [Heads -> ToolIds]
  /\ on \in [Heads -> Nat]
  /\ got \in [Heads -> Results \cup {NoResult}]
  /\ delivered \in [ToolIds -> SUBSET Results]

\* Correlation: what a head takes for a tool call was delivered for that
\* call, whichever calls and results crossed while it waited.
CorrectHead ==
  \A h \in Heads :
    at[h] \in {"removing", "ok"} => got[h] \in delivered[tool[h]]

\* Turn state is never half there: a turn without an entry is not cancelled
\* and has no pending calls, and a result is kept only under a pending call.
EntryWhole ==
  /\ ~present => ~cancelled /\ pending = {}
  /\ \A id \in ToolIds : result[id] # NoResult => id \in pending

\* No two pending calls share a Notify, so a result never wakes the head of
\* another call.
NotifyUnshared ==
  /\ \A id \in pending : notify[id] \in 1 .. notifies
  /\ \A i, j \in pending : notify[i] = notify[j] => i = j

\* "The rendezvous mechanism ensures tool results wake the correct waiting
\* head" (turns.rs:13-14): a head that waits for a call whose result is there
\* goes on, or the turn is finished or cancelled.
ResultWakesHead ==
  \A h \in Heads :
    at[h] \in {"unlocked", "listening"} /\ result[tool[h]] # NoResult
      ~> at[h] \notin {"unlocked", "listening"} \/ tool[h] \notin pending \/ cancelled
=============================================================================
