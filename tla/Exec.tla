-------------------------------- MODULE Exec --------------------------------
(***************************************************************************)
(* A call of exec:run (src/daemon/src/syscalls/exec/run.rs) and the child  *)
(* process it runs (src/daemon/src/hal/process.rs), under the dispatcher,  *)
(* which drops a call that is cancelled or past its deadline (module       *)
(* Dispatcher).  Of the data only amounts are kept: the input the child is *)
(* to be given, what is in the two pipes, what was captured.  stderr is    *)
(* treated as stdout is.  A program is one of three kinds, as the program  *)
(* list and the list of read-only invocations tell them apart.             *)
(***************************************************************************)
EXTENDS Naturals, FiniteSets

CONSTANTS PipeSize,   (* what a pipe holds                                  *)
          Input,      (* largest stdin                                      *)
          Output,     (* bound: what the child and its children write       *)
          max_stdout  (* what is kept of it                                 *)

Kinds == {"unlisted", "readonly", "mutating"}

VARIABLES
  exec,      (* the call: its arguments and context                         *)
  at,        (* where it is                                                 *)
  stdin,     (* input that is still to be written                           *)
  pipe,      (* amounts in the pipes                                        *)
  child,     (* "none", "running", "exited" or "killed"                     *)
  heirs,     (* processes the child has started hold its stdout             *)
  written,   (* all they have written to it                                 *)
  captured,  (* what spawn_capture_task has kept of it                      *)
  truncated, (* and that it dropped some                                    *)
  signals,   (* ctx.cancel, child_cancel, the timeout, the deadline: raised *)
  outcome,   (* WaitOutcome                                                 *)
  reply      (* the frame that ends the call                                *)

execVars == <<exec, at, stdin, pipe, child, heirs, written, captured, truncated, signals,
              outcome, reply>>

ExecInit ==
  /\ exec \in [program : Kinds, mutate : BOOLEAN, host : BOOLEAN, input : 0 .. Input,
               timeout : BOOLEAN, deadline : BOOLEAN]
  /\ at = "checks"
  /\ stdin = exec.input
  /\ pipe = [stdin |-> 0, stdout |-> 0]
  /\ child = "none" /\ heirs = FALSE
  /\ written = 0 /\ captured = 0 /\ truncated = FALSE
  /\ signals = {} /\ outcome = "none" /\ reply = "none"

-----------------------------------------------------------------------------
(* Around the call.                                                        *)

\* The client cancels; the monitor task hands that on; time passes.
Raise(signal) ==
  /\ at # "ended" /\ signal \notin signals
  /\ signal = "child_cancel" => "cancel" \in signals /\ at \notin {"checks", "ended"}
  /\ signal = "timeout" => (exec.timeout \/ exec.deadline) /\ at \in {"wait", "drain"}
  /\ signal = "deadline" => exec.deadline
  /\ signals' = signals \union {signal}
  /\ UNCHANGED <<exec, at, stdin, pipe, child, heirs, written, captured, truncated, outcome,
                 reply>>

Ends(how) == at' = "ended" /\ reply' = how

\* The select of KernelDispatcher::dispatch: the future of the call is
\* dropped where it is, and with it the handle of the child.
DispatcherDrops ==
  /\ at # "ended"
  /\ \/ "cancel" \in signals /\ Ends("cancelled")
     \/ "deadline" \in signals /\ Ends("timeout")
  /\ UNCHANGED <<exec, stdin, pipe, child, heirs, written, captured, truncated, signals, outcome>>

-----------------------------------------------------------------------------
(* ExecRun::execute and run_with_stdin_bytes_bounded.                      *)

\* ctx.can_mutate holds of heads, minds and the like, not of hands.
Refused ==
  \/ "cancel" \in signals
  \/ exec.program = "unlisted"
  \/ ~exec.mutate /\ exec.program # "readonly"
  \/ ~exec.host

Refuse ==
  /\ at = "checks" /\ Refused
  /\ Ends("error")
  /\ UNCHANGED <<exec, stdin, pipe, child, heirs, written, captured, truncated, signals, outcome>>

\* The child is started, or cannot be.
Spawn ==
  /\ at = "checks" /\ ~Refused
  /\ \/ at' = "stdin" /\ child' = "running" /\ UNCHANGED reply
     \/ Ends("error") /\ UNCHANGED child
  /\ UNCHANGED <<exec, stdin, pipe, heirs, written, captured, truncated, signals, outcome>>

\* write_child_stdin: until all is in the pipe, nothing else is done.  A
\* child that has gone breaks the pipe.
WriteStdin ==
  /\ at = "stdin"
  /\ \/ /\ stdin = 0
        /\ at' = "wait"
        /\ UNCHANGED <<stdin, pipe, reply>>
     \/ /\ stdin > 0 /\ child = "running" /\ pipe.stdin < PipeSize
        /\ stdin' = stdin - 1
        /\ pipe' = [pipe EXCEPT !.stdin = @ + 1]
        /\ UNCHANGED <<at, reply>>
     \/ /\ stdin > 0 /\ child # "running"
        /\ Ends("error")
        /\ UNCHANGED <<stdin, pipe>>
  /\ UNCHANGED <<exec, child, heirs, written, captured, truncated, signals, outcome>>

\* Mutant: a stream of just max_stdout counts as truncated.
KeepsLess ==
  /\ captured' = IF captured < max_stdout THEN captured + 1 ELSE captured
  /\ truncated' = (truncated \/ captured + 1 >= max_stdout)

\* spawn_capture_task: what comes after max_stdout is read and dropped.
Keeps ==
  /\ captured' = IF captured < max_stdout THEN captured + 1 ELSE captured
  /\ truncated' = (truncated \/ captured >= max_stdout)

Capture ==
  /\ at \in {"wait", "drain"} /\ pipe.stdout > 0
  /\ pipe' = [pipe EXCEPT !.stdout = @ - 1]
  /\ Keeps
  /\ UNCHANGED <<exec, at, stdin, child, heirs, written, signals, outcome, reply>>

\* wait_child_with_controls: the exit of the child, or a signal and its end.
Wait ==
  /\ at = "wait"
  /\ \/ child = "exited" /\ outcome' = "completed" /\ UNCHANGED child
     \/ /\ "child_cancel" \in signals /\ outcome' = "cancelled"
        /\ child' = IF child = "running" THEN "killed" ELSE child
     \/ /\ "timeout" \in signals /\ outcome' = "timed_out"
        /\ child' = IF child = "running" THEN "killed" ELSE child
  /\ at' = "drain"
  /\ UNCHANGED <<exec, stdin, pipe, heirs, written, captured, truncated, signals, reply>>

\* The capture tasks end when nobody holds the pipe any more: not before
\* the processes that the child has left behind end.
Drained == child # "running" /\ ~heirs /\ pipe.stdout = 0

Answer ==
  /\ at = "drain" /\ Drained
  /\ Ends(CASE outcome = "timed_out" -> "timeout"
            [] outcome = "cancelled" \/ "child_cancel" \in signals
                 -> "cancelled"
            [] OTHER -> "ok")
  /\ UNCHANGED <<exec, stdin, pipe, child, heirs, written, captured, truncated, signals, outcome>>

-----------------------------------------------------------------------------
(* The child, with its children.                                           *)

Reads ==
  /\ child = "running" /\ pipe.stdin > 0
  /\ pipe' = [pipe EXCEPT !.stdin = @ - 1]
  /\ UNCHANGED <<exec, at, stdin, child, heirs, written, captured, truncated, signals, outcome,
                 reply>>

Writes ==
  /\ child = "running" \/ heirs
  /\ at # "ended" /\ pipe.stdout < PipeSize /\ written < Output
  /\ pipe' = [pipe EXCEPT !.stdout = @ + 1]
  /\ written' = written + 1
  /\ UNCHANGED <<exec, at, stdin, child, heirs, captured, truncated, signals, outcome, reply>>

Forks ==
  /\ child = "running" /\ ~heirs
  /\ heirs' = TRUE
  /\ UNCHANGED <<exec, at, stdin, pipe, child, written, captured, truncated, signals, outcome,
                 reply>>

Exits ==
  /\ \/ child = "running" /\ child' = "exited" /\ UNCHANGED heirs
     \/ heirs /\ heirs' = FALSE /\ UNCHANGED child
  /\ UNCHANGED <<exec, at, stdin, pipe, written, captured, truncated, signals, outcome, reply>>

ExecNext ==
  \/ \E s \in {"cancel", "child_cancel", "timeout", "deadline"} : Raise(s)
  \/ DispatcherDrops
  \/ Refuse \/ Spawn \/ WriteStdin \/ Capture \/ Wait \/ Answer
  \/ Reads \/ Writes \/ Forks \/ Exits

ExecSpec == ExecInit /\ [][ExecNext]_execVars

-----------------------------------------------------------------------------
\* A call that succeeds answers with all that the child and what it started
\* wrote, or as much of it as max_stdout allows, and says whether that is less
\* (spawn_capture_task, and the wait for it after the child has gone).
OutputIsWhole ==
  reply = "ok" =>
    /\ captured = IF written <= max_stdout THEN written ELSE max_stdout
    /\ truncated <=> written > max_stdout
=============================================================================
