----------------------------- MODULE Dispatcher -----------------------------
(***************************************************************************)
(* One syscall call through KernelDispatcher::dispatch                     *)
(* (src/daemon/src/kernel/dispatcher.rs).  dispatch() spawns two tasks:    *)
(*   exec   audits the request, runs the handler and, when the run ends in *)
(*          an error (handler error, deadline, cancellation), emits an     *)
(*          error frame;                                                   *)
(*   pump   relays frames from the handler's channel (inner) to the        *)
(*          caller's channel (outer), pausing at the high watermark until  *)
(*          the caller drains the queue to the low one.                    *)
(* The third party is the caller, which holds the KernelReceiver.  The     *)
(* three share the token `cancelled`, the counter `queued` (relaxed        *)
(* atomic) and the one-slot ping channel.                                  *)
(*                                                                         *)
(* A frame is the ordinal of its emission; REQ stands for the request in   *)
(* the audit log.  What waits on a lane mutex before the handler runs is   *)
(* in module Lanes: here it is part of exec = "running".                   *)
(***************************************************************************)
EXTENDS Naturals, Sequences

CONSTANTS Capacity,  (* tx_capacity: slots of the inner and outer channels  *)
          Low,       (* low_watermark                                       *)
          High,      (* high_watermark                                      *)
          MaxEmit    (* bound: frames a handler emits before it ends        *)

\* set_backpressure refuses every other configuration.
ASSUME WatermarkAssumption ==
  /\ Capacity \in Nat /\ Low \in Nat /\ High \in Nat /\ MaxEmit \in Nat
  /\ Low < High
  /\ High < Capacity

REQ == 0

VARIABLES
  exec,       (* "audit", "running", "failing" or "done"                    *)
  emitted,    (* frames sent by the exec task so far                        *)
  inner,      (* the channel from exec to pump                              *)
  pump,       (* where its loop is, or how it returned (Exits)             *)
  held,       (* the frame between the pump's recv and its send; 0 if none  *)
  outer,      (* the channel from pump to caller                            *)
  queued,     (* frames sent to the caller and not yet acknowledged         *)
  ping,       (* TRUE while the one-slot ping channel is full               *)
  receiver,   (* "idle", "acking", "ended" or "dropped"                     *)
  received,   (* the frames the caller has taken, oldest first              *)
  cancelled,  (* the CancellationToken of the call                          *)
  audited     (* what FrameStore::append was given, oldest first            *)

vars == <<exec, emitted, inner, pump, held, outer, queued, ping, receiver,
          received, cancelled, audited>>

Exits == {"drained", "stalled", "abandoned"}

\* The pump task has returned, dropping inner_rx and the last outer_tx.
PumpExited == pump \in Exits

CallerGone == receiver = "dropped"

-----------------------------------------------------------------------------
(* dispatch(): a request that is well formed and has a handler starts both *)
(* tasks; any other gets one error frame, put in the outer channel before  *)
(* the receiver exists, and no task runs.                                  *)

Accepted ==
  /\ exec = "audit"
  /\ pump = "check"
  /\ emitted = 0
  /\ outer = <<>>
  /\ queued = 0

Rejected ==
  /\ exec = "done"
  /\ pump = "drained"
  /\ emitted = 1
  /\ outer = <<1>>
  /\ queued = 1

Init ==
  /\ Accepted \/ Rejected
  /\ inner = <<>>
  /\ held = 0
  /\ ping = FALSE
  /\ receiver = "idle"
  /\ received = <<>>
  /\ cancelled = FALSE
  /\ audited = <<>>

-----------------------------------------------------------------------------
(* The exec task.                                                          *)

AuditRequest ==
  /\ exec = "audit"
  /\ audited' = Append(audited, REQ)
  /\ exec' = "running"
  /\ UNCHANGED <<emitted, inner, pump, held, outer, queued, ping, receiver,
                 received, cancelled>>

\* inner_tx.send: waits for a slot; fails at once when the pump has returned,
\* and then the frame is lost.
SendInner ==
  /\ \/ PumpExited /\ UNCHANGED inner
     \/ ~PumpExited /\ Len(inner) < Capacity /\ inner' = Append(inner, emitted + 1)
  /\ emitted' = emitted + 1
  /\ UNCHANGED <<pump, held, outer, queued, ping, receiver, received,
                 cancelled, audited>>

\* The handler sends a frame, also after a cancellation it has not yet met
\* at an await.
HandlerEmit ==
  /\ exec = "running"
  /\ emitted < MaxEmit
  /\ SendInner
  /\ UNCHANGED exec

EndRun(next) ==
  /\ exec = "running"
  /\ exec' = next
  /\ UNCHANGED <<emitted, inner, pump, held, outer, queued, ping, receiver,
                 received, cancelled, audited>>

HandlerOk == EndRun("done")

\* execute() returned Err, or the deadline's sleep won the select.
HandlerErr == EndRun("failing")

\* The select's cancelled() branch.
CancelObserved == cancelled /\ EndRun("failing")

EmitError ==
  /\ exec = "failing"
  /\ SendInner
  /\ exec' = "done"

-----------------------------------------------------------------------------
(* The pump task.                                                          *)

\* Mutant (OuterNeverFull): `>` for `>=` at the high watermark.
PumpCheckOffByOne ==
  /\ pump = "check"
  /\ pump' = IF queued > High THEN "paused" ELSE "recv"
  /\ UNCHANGED <<exec, emitted, inner, held, outer, queued, ping, receiver,
                 received, cancelled, audited>>

\* The loop's head with paused = false.
PumpCheck ==
  /\ pump = "check"
  /\ pump' = IF queued >= High THEN "paused" ELSE "recv"
  /\ UNCHANGED <<exec, emitted, inner, held, outer, queued, ping, receiver,
                 received, cancelled, audited>>

\* The condition of the paused loop: wait for a ping, or go on.
PumpPaused ==
  /\ pump = "paused"
  /\ pump' = IF queued > Low THEN "waiting" ELSE "check"
  /\ UNCHANGED <<exec, emitted, inner, held, outer, queued, ping, receiver,
                 received, cancelled, audited>>

PumpPinged ==
  /\ pump = "waiting"
  /\ ping
  /\ ping' = FALSE
  /\ pump' = "paused"
  /\ UNCHANGED <<exec, emitted, inner, held, outer, queued, receiver,
                 received, cancelled, audited>>

\* Mutant (PumpTaskEnds): a closed ping channel is taken for a ping.
PumpAbandonLoops ==
  /\ pump = "waiting"
  /\ ~ping
  /\ CallerGone
  /\ pump' = "paused"
  /\ UNCHANGED <<exec, emitted, inner, held, outer, queued, ping, receiver,
                 received, cancelled, audited>>

\* ping_rx.recv() returned None: the receiver, which owns ping_tx, is gone.
PumpAbandon ==
  /\ pump = "waiting"
  /\ ~ping
  /\ CallerGone
  /\ pump' = "abandoned"
  /\ inner' = <<>>
  /\ UNCHANGED <<exec, emitted, held, outer, queued, ping, receiver, received,
                 cancelled, audited>>

\* Mutant (CancelEndsCall): the timeout only evaluates the condition again.
PumpStallRetries ==
  /\ pump = "waiting"
  /\ ~ping
  /\ ~CallerGone
  /\ pump' = "paused"
  /\ UNCHANGED <<exec, emitted, inner, held, outer, queued, ping, receiver,
                 received, cancelled, audited>>

\* stall_timeout elapsed without a ping: cancel the call and return.
PumpStall ==
  /\ pump = "waiting"
  /\ ~ping
  /\ ~CallerGone
  /\ pump' = "stalled"
  /\ cancelled' = TRUE
  /\ inner' = <<>>
  /\ UNCHANGED <<exec, emitted, held, outer, queued, ping, receiver, received,
                 audited>>

\* inner_rx.recv() yields a frame, which is audited and broadcast.
PumpRecv ==
  /\ pump = "recv"
  /\ inner # <<>>
  /\ held' = Head(inner)
  /\ inner' = Tail(inner)
  /\ audited' = Append(audited, Head(inner))
  /\ pump' = "send"
  /\ UNCHANGED <<exec, emitted, outer, queued, ping, receiver, received,
                 cancelled>>

\* inner_rx.recv() returns None: the exec task has ended.
PumpDrained ==
  /\ pump = "recv"
  /\ inner = <<>>
  /\ exec = "done"
  /\ pump' = "drained"
  /\ UNCHANGED <<exec, emitted, inner, held, outer, queued, ping, receiver,
                 received, cancelled, audited>>

\* Mutant (ImplementsStream): a lossy send that sheds the frame when more
\* than the low watermark is queued.
PumpSendShedding ==
  /\ pump = "send"
  /\ held' = 0
  /\ pump' = "count"
  /\ outer' = IF queued > Low THEN outer ELSE Append(outer, held)
  /\ UNCHANGED <<exec, emitted, inner, queued, ping, receiver, received,
                 cancelled, audited>>

\* outer_tx2.send: waits for a slot, or fails because the receiver is gone.
PumpSend ==
  /\ pump = "send"
  /\ held' = 0
  /\ \/ /\ CallerGone
        /\ pump' = "abandoned"
        /\ inner' = <<>>
        /\ UNCHANGED outer
     \/ /\ ~CallerGone
        /\ Len(outer) < Capacity
        /\ outer' = Append(outer, held)
        /\ pump' = "count"
        /\ UNCHANGED inner
  /\ UNCHANGED <<exec, emitted, queued, ping, receiver, received, cancelled,
                 audited>>

\* queued2.fetch_add, after the send: the caller may have taken the frame.
PumpCount ==
  /\ pump = "count"
  /\ queued' = queued + 1
  /\ pump' = "check"
  /\ UNCHANGED <<exec, emitted, inner, held, outer, ping, receiver, received,
                 cancelled, audited>>

-----------------------------------------------------------------------------
(* The caller.                                                             *)

\* The first half of KernelReceiver::recv.
CallerRecv ==
  /\ receiver = "idle"
  /\ outer # <<>>
  /\ received' = Append(received, Head(outer))
  /\ outer' = Tail(outer)
  /\ receiver' = "acking"
  /\ UNCHANGED <<exec, emitted, inner, pump, held, queued, ping, cancelled,
                 audited>>

\* ack(1): nothing to count down when the pump has not counted the frame yet.
CallerAck ==
  /\ receiver = "acking"
  /\ receiver' = "idle"
  /\ \/ queued = 0 /\ UNCHANGED <<queued, ping>>
     \/ /\ queued > 0
        /\ queued' = queued - 1
        /\ \/ queued - 1 <= Low /\ ping' = TRUE
           \/ queued - 1 > Low /\ UNCHANGED ping
  /\ UNCHANGED <<exec, emitted, inner, pump, held, outer, received, cancelled,
                 audited>>

\* recv returns None.
CallerEnd ==
  /\ receiver = "idle"
  /\ PumpExited
  /\ outer = <<>>
  /\ receiver' = "ended"
  /\ UNCHANGED <<exec, emitted, inner, pump, held, outer, queued, ping,
                 received, cancelled, audited>>

CallerDrop ==
  /\ receiver = "idle"
  /\ receiver' = "dropped"
  /\ outer' = <<>>
  /\ UNCHANGED <<exec, emitted, inner, pump, held, queued, ping, received,
                 cancelled, audited>>

\* The caller's clone of the token.
CallerCancel ==
  /\ ~cancelled
  /\ cancelled' = TRUE
  /\ UNCHANGED <<exec, emitted, inner, pump, held, outer, queued, ping,
                 receiver, received, audited>>

\* Both tasks have returned and the caller is finished with the stream.
Terminated ==
  /\ exec = "done"
  /\ PumpExited
  /\ receiver \in {"ended", "dropped"}
  /\ UNCHANGED vars

-----------------------------------------------------------------------------
Exec == AuditRequest \/ HandlerEmit \/ HandlerOk \/ HandlerErr
          \/ CancelObserved \/ EmitError

Pump == PumpCheck \/ PumpPaused \/ PumpPinged \/ PumpAbandon \/ PumpStall
          \/ PumpRecv \/ PumpDrained \/ PumpSend \/ PumpCount

Caller == CallerRecv \/ CallerAck \/ CallerEnd \/ CallerDrop \/ CallerCancel

Next == Exec \/ Pump \/ Caller \/ Terminated

\* The runtime polls every task that is ready and its timers fire.  Nothing
\* is assumed of the handler (HandlerEmit, HandlerOk, HandlerErr) nor of the
\* caller, but that the ack recv makes before it returns is made.
Fairness ==
  /\ WF_vars(AuditRequest)
  /\ WF_vars(CancelObserved)
  /\ WF_vars(EmitError)
  /\ WF_vars(Pump)
  /\ WF_vars(CallerAck)

Spec == Init /\ [][Next]_vars /\ Fairness

-----------------------------------------------------------------------------
(* Properties.                                                             *)

\* Every variable keeps the values its Rust counterpart can have.
TypeOK ==
  /\ exec \in {"audit", "running", "failing", "done"}
  /\ emitted \in Nat
  /\ inner \in Seq(Nat)
  /\ pump \in {"check", "paused", "waiting", "recv", "send", "count"} \cup Exits
  /\ held \in Nat
  /\ outer \in Seq(Nat)
  /\ queued \in Nat
  /\ ping \in BOOLEAN
  /\ receiver \in {"idle", "acking", "ended", "dropped"}
  /\ received \in Seq(Nat)
  /\ cancelled \in BOOLEAN
  /\ audited \in Seq(Nat)

\* Frames the counter ought to stand for: sent to the caller, not yet
\* acknowledged.
Outstanding == Len(outer) + (IF receiver = "acking" THEN 1 ELSE 0)

Uncounted == IF pump = "count" THEN 1 ELSE 0

\* The send, the count, the take and the ack are four steps of two tasks, and
\* an ack that comes before its count is lost.  Still the relaxed counter is
\* never below what is outstanding and at most one above it.
QueuedTracksOutstanding ==
  ~CallerGone =>
    /\ Outstanding <= queued + Uncounted
    /\ queued + Uncounted <= Outstanding + 1

\* The watermark bounds the caller's channel: when the pump sends, there is a
\* free slot, so `outer_tx2.send(frame).await` never blocks the pump where no
\* stall timeout guards it.
OuterNeverFull ==
  /\ Len(outer) <= High
  /\ pump = "send" => Len(outer) < High

\* "All frames are logged before delivery": whatever sits in the caller's
\* channel, or was taken from it, the audit log holds in the same order and
\* after the request.  (Of a call whose tasks were started.)
AuditedBeforeDelivery ==
  LET visible == received \o outer
  IN audited # <<>> =>
       /\ Len(visible) < Len(audited)
       /\ audited[1] = REQ
       /\ \A i \in 1 .. Len(visible) : audited[i + 1] = visible[i]

\* A caller that reads to the end of a stream nobody gave up on has every
\* frame, the error frame of a failed or cancelled call among them.
NoSilentLoss ==
  receiver = "ended" /\ pump = "drained" =>
    received = [i \in 1 .. emitted |-> i]

\* The pump gives up only on a caller that really is behind: at that moment
\* some frame is unread or just being acknowledged.
StallMeansBehind ==
  [][pump' = "stalled" /\ pump # "stalled" => Outstanding > 0]_vars

\* The caller's view implements the stream contract.
StreamStatus ==
  IF CallerGone THEN "aborted"
  ELSE IF receiver # "ended" THEN "open"
  ELSE IF pump = "drained" THEN "complete" ELSE "aborted"

Stream == INSTANCE FrameStream
            WITH produced <- emitted, delivered <- received,
                 status <- StreamStatus

ImplementsStream == Stream!Init /\ [][Stream!Next]_(Stream!vars)

\* A cancelled call ends, whatever the caller does: neither a paused pump nor
\* a full channel can wedge the exec task, which may hold a lane.
CancelEndsCall == cancelled ~> exec = "done"

\* Once the exec task has ended, the pump task ends too.
PumpTaskEnds == exec = "done" ~> PumpExited
=============================================================================
