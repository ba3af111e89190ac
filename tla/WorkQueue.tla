----------------------------- MODULE WorkQueue -----------------------------
(***************************************************************************)
(* What the need:* syscalls promise the services that work needs off       *)
(* (src/daemon/src/syscalls/need/mod.rs): a queue that hands every need to *)
(* one worker only, the most urgent first and the oldest among equals, and *)
(* never hands out again what a worker has or has finished.                *)
(*                                                                         *)
(* Needs are numbered in the order of their arrival.                       *)
(***************************************************************************)
EXTENDS Naturals

CONSTANT urgency     (* per need: its rank, 0 the most urgent               *)

VARIABLES waiting,   (* needs nobody has taken                              *)
          working,   (* needs a worker took, those of dead workers included *)
          finished   (* needs that are done                                 *)

vars == <<waiting, working, finished>>

Init ==
  /\ waiting = {}
  /\ working = {}
  /\ finished = {}

\* n goes before m.
Before(n, m) ==
  \/ urgency[n] < urgency[m]
  \/ urgency[n] = urgency[m] /\ n < m

Arrive(n) ==
  /\ n \notin waiting \cup working \cup finished
  /\ waiting' = waiting \cup {n}
  /\ UNCHANGED <<working, finished>>

Take(n) ==
  /\ n \in waiting
  /\ \A m \in waiting \ {n} : Before(n, m)
  /\ waiting' = waiting \ {n}
  /\ working' = working \cup {n}
  /\ UNCHANGED finished

Finish(n) ==
  /\ n \in working
  /\ working' = working \ {n}
  /\ finished' = finished \cup {n}
  /\ UNCHANGED waiting

Next == \E n \in DOMAIN urgency : Arrive(n) \/ Take(n) \/ Finish(n)

Spec == Init /\ [][Next]_vars
=============================================================================
