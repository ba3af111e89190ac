----------------------------- MODULE MCKernel -----------------------------
(***************************************************************************)
(* The kernel's two ways for a frame, on small instances: a call through   *)
(* the dispatcher, and the log with those who read it.  The dispatcher     *)
(* only ever gives frames to the log, so that each is checked on its own:  *)
(* `which` says which of the two takes the steps.                          *)
(***************************************************************************)
EXTENDS Dispatcher, FrameLog

VARIABLE which

\* A call that does not run is one that was refused.
KernelInit ==
  /\ which \in {"call", "log"}
  /\ Init /\ (which # "call" => Rejected)
  /\ LogInit

KernelNext ==
  \/ which = "call" /\ Next /\ UNCHANGED <<which, logVars>>
  \/ which = "log" /\ LogNext /\ UNCHANGED <<which, vars>>

KernelSpec == KernelInit /\ [][KernelNext]_<<which, vars, logVars>> /\ Fairness /\ LogFairness
=============================================================================
