------------------------------ MODULE ChatTurn ------------------------------
(***************************************************************************)
(* One user-visible turn, the key (room, reply_to), from the first HTTP    *)
(* request to the last: the turn stream of SigcallHub                      *)
(* (src/daemon/src/kernel/sigcall_hub.rs), the chat:* syscalls             *)
(* (src/daemon/src/syscalls/chat/), the requests of ChatHandler and        *)
(* IngressHub (src/daemon/src/server/), the head of run_agent_round        *)
(* (src/daemon/src/runtime/room/runner.rs) that talks through its Door,    *)
(* and TurnRuntime (module Turns).                                         *)
(*                                                                         *)
(* A turn is answered over several requests, called segments: the first    *)
(* brings the user's message, each later one brings results of external    *)
(* tool calls.  A segment opens the turn stream, replacing the one before, *)
(* and reads it until a done, an error, the end of the stream, or 120 s    *)
(* without a chunk.  A segment whose stream is dropped before that spawns  *)
(* a chat:cancel.  Each syscall runs on its own task in the Immediate      *)
(* lane; its caller waits for the answer, so the head and a segment's      *)
(* handler go one call at a time but not in step with each other.          *)
(*                                                                         *)
(* Frames the client adapters drop (status, chat:user, Frame::done) are    *)
(* left out, so are internal tools and the contents of text; the channels  *)
(* of 256 frames never fill here.                                          *)
(***************************************************************************)
EXTENDS Naturals, Sequences

CONSTANTS ToolIds,        (* tool_call_id's the model comes up with         *)
          Results,        (* what the client answers                        *)
          NoResult,       (* no answer                                      *)
          Segments,       (* 1 .. n: the requests of the turn (bound)       *)
          MaxBatch,       (* bound: calls in a response, results in a request *)
          MAX_INNER_LOOPS (* iterations of the agent loop (20 in the code)  *)

ASSUME ChatTurnAssumption ==
  /\ MAX_INNER_LOOPS \in Nat /\ MaxBatch \in Nat
  /\ 1 \in Segments /\ Segments \subseteq Nat \ {0}
  /\ NoResult \notin Results

Head0 == "head-0"

VARIABLES
  present, cancelled, pending, result, notify, notifies, (* TurnRuntime     *)
  at, tool, on, got, delivered,
  stream,     (* the segment whose sender the hub has, or 0                 *)
  queue,      (* per segment: frames sent and not read                      *)
  seg,        (* per segment: what its request does                         *)
  todo,       (* per segment: tool calls it has yet to submit results for   *)
  rpc,        (* per segment: where its chat:tool_result call is            *)
  sawCancel,  (* per segment: that call read the turn as cancelled          *)
  seen,       (* tool calls the client has been shown                       *)
  cancels,    (* chat:cancel calls spawned and not run                      *)
  hpc,        (* where the head is                                          *)
  iteration,  (* iterations of its loop begun                               *)
  calls,      (* external calls of the last response it has yet to make     *)
  visible,    (* visible_text is not empty                                  *)
  quiet,      (* its local `cancelled`                                      *)
  llmLate,    (* history: LLM answers that came while the turn was cancelled *)
  accepted,   (* history: calls (by Notify) whose result was acknowledged   *)
  taken       (* history: calls whose result the head took                  *)

turnVars == <<present, cancelled, pending, result, notify, notifies>>

waitVars == <<at, tool, on, got>>

hubVars == <<stream, queue>>

clientVars == <<seg, todo, rpc, sawCancel, seen, cancels, accepted>>

headVars == <<hpc, iteration, calls, visible, quiet, llmLate, taken>>

vars == <<turnVars, waitVars, delivered, hubVars, clientVars, headVars>>

\* Every external call makes one entry.
T == INSTANCE Turns WITH Heads <- {Head0}, MaxNotifies <- MaxBatch * MAX_INNER_LOOPS

Batches == UNION {[1 .. n -> ToolIds] : n \in 1 .. MaxBatch}

\* The states of a request that holds its receiver.
Live == {"dispatch", "submit", "reading"}

Init ==
  /\ T!Init
  /\ stream = 1
  /\ queue = [s \in Segments |-> <<>>]
  /\ seg = [s \in Segments |-> IF s = 1 THEN "dispatch" ELSE "unused"]
  /\ todo = [s \in Segments |-> <<>>]
  /\ rpc = [s \in Segments |-> "idle"]
  /\ sawCancel = [s \in Segments |-> FALSE]
  /\ seen = {}
  /\ cancels = 0
  /\ hpc = "idle"
  /\ iteration = 0
  /\ calls = <<>>
  /\ visible = FALSE
  /\ quiet = FALSE
  /\ llmLate = 0
  /\ accepted = {}
  /\ taken = {}

-----------------------------------------------------------------------------
(* SigcallHub.                                                             *)

open(s) ==
  /\ stream' = s
  /\ queue' = [queue EXCEPT ![s] = <<>>]

\* The receiver of a request that is over is gone.
send(frame) ==
  /\ queue' = IF stream # 0 /\ seg[stream] \in Live
              THEN [queue EXCEPT ![stream] = Append(@, frame)] ELSE queue
  /\ UNCHANGED stream

close == stream' = 0 /\ UNCHANGED queue

-----------------------------------------------------------------------------
(* The head.                                                               *)

HeadGoes(from, to) == hpc = from /\ hpc' = to

\* chat:message attaches the door and injects the message: the room's runner
\* wakes and runs the agent's round.
ChatMessage ==
  /\ HeadGoes("idle", "check")
  /\ UNCHANGED <<iteration, calls, visible, quiet, llmLate, taken>>
  /\ UNCHANGED <<turnVars, waitVars, delivered, hubVars, clientVars>>

\* Mutant (CancelStopsLlm): the check is made once, before the loop.
HeadCheckOnce ==
  /\ \/ /\ HeadGoes("check", "end")
        /\ iteration = MAX_INNER_LOOPS \/ (iteration = 0 /\ cancelled)
        /\ quiet' = (iteration = 0)
        /\ UNCHANGED iteration
     \/ /\ HeadGoes("check", "llm")
        /\ iteration < MAX_INNER_LOOPS /\ ~(iteration = 0 /\ cancelled)
        /\ iteration' = iteration + 1
        /\ UNCHANGED quiet
  /\ UNCHANGED <<calls, visible, llmLate, taken>>
  /\ UNCHANGED <<turnVars, waitVars, delivered, hubVars, clientVars>>

\* The top of the loop: is_turn_cancelled.
HeadCheck ==
  /\ \/ /\ HeadGoes("check", "end")
        /\ iteration = MAX_INNER_LOOPS
        /\ UNCHANGED <<iteration, quiet>>
     \/ /\ HeadGoes("check", "end")
        /\ iteration < MAX_INNER_LOOPS /\ cancelled
        /\ quiet' = TRUE
        /\ UNCHANGED iteration
     \/ /\ HeadGoes("check", "llm")
        /\ iteration < MAX_INNER_LOOPS /\ ~cancelled
        /\ iteration' = iteration + 1
        /\ UNCHANGED quiet
  /\ UNCHANGED <<calls, visible, llmLate, taken>>
  /\ UNCHANGED <<turnVars, waitVars, delivered, hubVars, clientVars>>

\* The model answers: an error, a last word (no call, noop_done or
\* noop_signal), internal tools only, or external calls, with or without text.
HeadLlm ==
  /\ hpc = "llm"
  /\ llmLate' = IF cancelled THEN llmLate + 1 ELSE llmLate
  /\ \/ hpc' = "error" /\ quiet' = TRUE /\ UNCHANGED <<visible, calls>>
     \/ /\ \E text \in BOOLEAN : visible' = (visible \/ text)
        /\ \/ hpc' \in {"end", "check"} /\ UNCHANGED calls
           \/ hpc' = "call" /\ calls' \in Batches
        /\ UNCHANGED quiet
  /\ UNCHANGED <<iteration, taken>>
  /\ UNCHANGED <<turnVars, waitVars, delivered, hubVars, clientVars>>

\* A step of the head that only speaks to the hub.
Speak(from, to, hubStep) ==
  /\ HeadGoes(from, to)
  /\ hubStep
  /\ UNCHANGED <<iteration, calls, visible, quiet, llmLate, taken>>
  /\ UNCHANGED <<turnVars, waitVars, delivered, clientVars>>

\* chat:error sends the error, closes the stream and finishes the turn.
HeadError ==
  \/ Speak("error", "error_close", send(<<"error">>))
  \/ Speak("error_close", "finish", close)

\* chat:tool registers the call, then shows it.
HeadCall ==
  /\ HeadGoes("call", "show")
  /\ T!register_external_tool(Head(calls))
  /\ UNCHANGED <<iteration, calls, visible, quiet, llmLate, taken>>
  /\ UNCHANGED <<hubVars, clientVars>>

HeadShow ==
  Speak("show", "await_done", send(<<"tool", Head(calls), notify[Head(calls)]>>))

\* chat:done "awaiting_tools": the segment ends, the turn goes on.
HeadAwaiting ==
  \/ Speak("await_done", "await_close", send(<<"done">>))
  \/ Speak("await_close", "take", close)

\* wait_for_external_tool_result.
HeadTake ==
  /\ \/ HeadGoes("take", "taking") /\ T!TakeBegin(Head0, Head(calls))
     \/ HeadGoes("taking", "taking") /\ T!TakeStep(Head0)
  /\ taken' = IF at[Head0] = "removing" THEN taken \cup {notify[tool[Head0]]} ELSE taken
  /\ UNCHANGED <<iteration, calls, visible, quiet, llmLate>>
  /\ UNCHANGED <<hubVars, clientVars>>

\* A result, or an unknown call, and the head makes its next call or iterates;
\* cancelled, and it leaves.
HeadTaken ==
  /\ hpc = "taking"
  /\ T!TakeEnd(Head0)
  /\ IF at[Head0] = "cancelled"
     THEN hpc' = "end" /\ quiet' = TRUE /\ calls' = <<>>
     ELSE /\ calls' = Tail(calls)
          /\ hpc' = IF Tail(calls) = <<>> THEN "check" ELSE "call"
          /\ UNCHANGED quiet
  /\ UNCHANGED <<iteration, visible, llmLate, taken>>
  /\ UNCHANGED <<hubVars, clientVars>>

\* After the loop: what was said is sent, with chat:done "complete", unless
\* there is nothing to say or the turn was seen cancelled.
HeadEnd ==
  \/ Speak("end", IF visible /\ ~quiet THEN "text" ELSE "ended", UNCHANGED hubVars)
  \/ Speak("text", "done", send(<<"text">>))
  \/ Speak("done", "done_close", send(<<"done">>))
  \/ Speak("done_close", "finish", close)

\* The last act of chat:done "complete" and of chat:error.
HeadFinish ==
  /\ HeadGoes("finish", "ended")
  /\ T!finish
  /\ UNCHANGED <<iteration, calls, visible, quiet, llmLate, taken>>
  /\ UNCHANGED <<hubVars, clientVars>>

HeadNext ==
  \/ HeadCheck \/ HeadLlm \/ HeadError \/ HeadCall \/ HeadShow \/ HeadAwaiting
  \/ HeadTake \/ HeadTaken \/ HeadEnd \/ HeadFinish

-----------------------------------------------------------------------------
(* The client and the handlers of its requests.                            *)

ClientOnly == UNCHANGED <<turnVars, waitVars, delivered, headVars>>

\* chat:message answered: handle_chat returns the response stream.
Dispatched ==
  /\ seg[1] = "dispatch" /\ hpc # "idle"
  /\ seg' = [seg EXCEPT ![1] = "reading"]
  /\ UNCHANGED <<todo, rpc, sawCancel, seen, cancels, accepted, hubVars>>
  /\ ClientOnly

\* submit_tool_results, for calls the client has been shown: the stream is
\* opened first.  A client may send the same results again.
Submit(s) ==
  /\ seg[s] = "unused" /\ s # 1 /\ seg[s - 1] # "unused"
  /\ \E batch \in Batches :
       /\ \A i \in DOMAIN batch : batch[i] \in seen
       /\ todo' = [todo EXCEPT ![s] = batch]
  /\ seg' = [seg EXCEPT ![s] = "submit"]
  /\ open(s)
  /\ UNCHANGED <<rpc, sawCancel, seen, cancels, accepted>>
  /\ ClientOnly

\* The stream is dropped unfinished: a chat:cancel is spawned.
Drop(s) ==
  /\ seg' = [seg EXCEPT ![s] = "dropped"]
  /\ queue' = [queue EXCEPT ![s] = <<>>]
  /\ cancels' = cancels + 1
  /\ UNCHANGED stream

\* pending_tool_name knows the call, and chat:tool_result is dispatched, or
\* the request fails.
Lookup(s) ==
  /\ seg[s] = "submit" /\ rpc[s] = "idle"
  /\ IF Head(todo[s]) \in pending
     THEN rpc' = [rpc EXCEPT ![s] = "check"] /\ UNCHANGED <<seg, cancels, hubVars>>
     ELSE Drop(s) /\ UNCHANGED rpc
  /\ UNCHANGED <<todo, sawCancel, seen, accepted>>
  /\ ClientOnly

\* chat:tool_result reads is_cancelled first and answers by it last.
ToolResultCheck(s) ==
  /\ rpc[s] = "check"
  /\ rpc' = [rpc EXCEPT ![s] = "deliver"]
  /\ sawCancel' = [sawCancel EXCEPT ![s] = cancelled]
  /\ UNCHANGED <<seg, todo, seen, cancels, accepted, hubVars>>
  /\ ClientOnly

\* Mutant (UsesTurnRuntime): writes the result past the runtime, waking nobody.
ToolResultDeliverSilent(s) ==
  LET id == Head(todo[s])
      ok == id \in pending /\ ~sawCancel[s]
  IN /\ rpc[s] = "deliver"
     /\ \E r \in Results : result' = [result EXCEPT ![id] = r]
     /\ rpc' = [rpc EXCEPT ![s] = IF seg[s] = "dropped" THEN "idle"
                                   ELSE IF ok THEN "ok" ELSE "failed"]
     /\ sawCancel' = [sawCancel EXCEPT ![s] = FALSE]
     /\ accepted' = IF ok THEN accepted \cup {notify[id]} ELSE accepted
     /\ UNCHANGED <<seg, todo, seen, cancels, hubVars, headVars>>
     /\ UNCHANGED <<present, cancelled, pending, notify, notifies, waitVars, delivered>>

ToolResultDeliver(s) ==
  LET id == Head(todo[s])
      ok == id \in pending /\ ~sawCancel[s]
  IN /\ rpc[s] = "deliver"
     /\ \E r \in Results : T!deliver_external_tool_result(id, r)
     /\ rpc' = [rpc EXCEPT ![s] = IF seg[s] = "dropped" THEN "idle"
                                   ELSE IF ok THEN "ok" ELSE "failed"]
     /\ sawCancel' = [sawCancel EXCEPT ![s] = FALSE]
     /\ accepted' = IF ok THEN accepted \cup {notify[id]} ELSE accepted
     /\ UNCHANGED <<seg, todo, seen, cancels, hubVars, headVars>>

\* The request goes on with the next result or with reading, or fails.
ToolResultAnswer(s) ==
  /\ seg[s] = "submit"
  /\ \/ /\ rpc[s] = "ok"
        /\ rpc' = [rpc EXCEPT ![s] = "idle"]
        /\ todo' = [todo EXCEPT ![s] = Tail(@)]
        /\ seg' = IF Len(todo[s]) = 1 THEN [seg EXCEPT ![s] = "reading"] ELSE seg
        /\ UNCHANGED <<cancels, hubVars>>
     \/ /\ rpc[s] = "failed"
        /\ Drop(s)
        /\ rpc' = [rpc EXCEPT ![s] = "idle"]
        /\ UNCHANGED todo
  /\ UNCHANGED <<sawCancel, seen, accepted>>
  /\ ClientOnly

Finish(s) ==
  /\ seg' = [seg EXCEPT ![s] = "finished"]
  /\ queue' = [queue EXCEPT ![s] = <<>>]

\* response_stream: a chunk, or the end of the stream once no sender is left.
Read(s) ==
  /\ seg[s] = "reading"
  /\ \/ /\ queue[s] # <<>>
        /\ LET frame == Head(queue[s])
           IN /\ seen' = IF frame[1] = "tool" THEN seen \cup {frame[2]} ELSE seen
              /\ IF frame[1] \in {"done", "error"} THEN Finish(s)
                 ELSE queue' = [queue EXCEPT ![s] = Tail(@)] /\ UNCHANGED seg
     \/ queue[s] = <<>> /\ stream # s /\ Finish(s) /\ UNCHANGED seen
  /\ UNCHANGED <<todo, rpc, sawCancel, cancels, accepted, stream>>
  /\ ClientOnly

\* Mutant (SegmentEnds): a response without a timeout.
TimeoutNever(s) == FALSE /\ UNCHANGED vars

\* 120 s without a chunk: an error chunk, which counts as finished.
Timeout(s) ==
  /\ seg[s] = "reading" /\ queue[s] = <<>>
  /\ Finish(s)
  /\ UNCHANGED <<todo, rpc, sawCancel, seen, cancels, accepted, stream>>
  /\ ClientOnly

\* The client goes away.  While chat:message is under way nothing guards the
\* stream; a chat:tool_result under way goes on.
Disconnect(s) ==
  /\ \/ /\ seg[s] = "dispatch"
        /\ seg' = [seg EXCEPT ![s] = "dropped"]
        /\ queue' = [queue EXCEPT ![s] = <<>>]
        /\ UNCHANGED <<cancels, stream>>
     \/ seg[s] \in {"submit", "reading"} /\ Drop(s)
  /\ UNCHANGED <<todo, rpc, sawCancel, seen, accepted>>
  /\ ClientOnly

\* Mutant (AcceptedResultKept): a cancelled turn's state is removed.
ChatCancelFinishes ==
  /\ cancels > 0
  /\ cancels' = cancels - 1
  /\ T!finish
  /\ UNCHANGED <<seg, todo, rpc, sawCancel, seen, accepted, hubVars, headVars>>

ChatCancel ==
  /\ cancels > 0
  /\ cancels' = cancels - 1
  /\ T!cancel
  /\ UNCHANGED <<seg, todo, rpc, sawCancel, seen, accepted, hubVars, headVars>>

Serve(s) ==
  Lookup(s) \/ ToolResultCheck(s) \/ ToolResultDeliver(s) \/ ToolResultAnswer(s)

Next ==
  \/ ChatMessage \/ HeadNext \/ Dispatched \/ ChatCancel
  \/ \E s \in Segments : Submit(s) \/ Serve(s) \/ Read(s) \/ Timeout(s) \/ Disconnect(s)

\* Tasks that are ready run, the model answers, a response is read to its end
\* and its timer fires.  Nobody has to submit results or go away.
Fairness ==
  /\ WF_vars(ChatMessage) /\ WF_vars(HeadNext)
  /\ WF_vars(Dispatched) /\ WF_vars(ChatCancel)
  /\ \A s \in Segments : WF_vars(Serve(s)) /\ WF_vars(Read(s)) /\ WF_vars(Timeout(s))

Spec == Init /\ [][Next]_vars /\ Fairness
-----------------------------------------------------------------------------
(* Properties.                                                             *)

HeadPlaces == {"idle", "check", "llm", "error", "error_close", "call", "show",
               "await_done", "await_close", "take", "taking", "end", "text",
               "done", "done_close", "finish", "ended"}

TypeOK ==
  /\ T!TypeOK
  /\ stream \in Segments \cup {0}
  /\ seg \in [Segments -> Live \cup {"unused", "finished", "dropped"}]
  /\ rpc \in [Segments -> {"idle", "check", "deliver", "ok", "failed"}]
  /\ seen \subseteq ToolIds
  /\ hpc \in HeadPlaces
  /\ iteration \in 0 .. MAX_INNER_LOOPS
  /\ accepted \subseteq 1 .. notifies /\ taken \subseteq 1 .. notifies

TurnOver == cancelled \/ hpc = "ended"

\* The entry that Notify n belongs to is there.
Pending(id, n) == id \in pending /\ notify[id] = n

\* The head, the segments and the late requests use the turn's state only as
\* TurnRuntime lets them, so what holds of every client of module Turns holds
\* of this one.
UsesTurnRuntime == T!Init /\ [][T!Next]_(T!vars)

\* A result the client was told is delivered waits for the head, or the head
\* took it, or the turn is over, also when results are sent twice.
AcceptedResultKept ==
  \A n \in accepted :
    \/ n \in taken
    \/ \E id \in ToolIds : Pending(id, n) /\ result[id] # NoResult
    \/ TurnOver

\* A cancelled turn costs at most the LLM call that was under way.
CancelStopsLlm == llmLate <= 1

\* No request hangs, whatever the head does or forgets to say.
SegmentEnds ==
  \A s \in Segments : seg[s] \in Live ~> seg[s] \notin Live

Latest == CHOOSE s \in Segments :
            seg[s] # "unused" /\ \A t \in Segments : t > s => seg[t] = "unused"

\* Opening the stream before the work is submitted "eliminates race conditions
\* where output could be emitted before a listener is ready" (ingress_hub.rs:
\* 47-49): when the head speaks and the latest request waits for output, the
\* stream is that request's.
OutputHasListener ==
  hpc \in {"show", "text"} /\ seg[Latest] = "reading" => stream = Latest

=============================================================================
