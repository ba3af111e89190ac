------------------------------ MODULE MCRooms ------------------------------
(***************************************************************************)
(* Rooms, on small instances: the registry of the persistent ones with the *)
(* chat messages that wait for a room, and the rounds of one room.  The    *)
(* registry knows of a run only that it holds the room's mutex, so that    *)
(* each is checked on its own: `which` says which of the two takes the     *)
(* steps.                                                                  *)
(***************************************************************************)
EXTENDS RoomRegistry

CONSTANTS Agents, Participants, Messages, MaxRounds, MAX_INNER_LOOPS, PageLimit

VARIABLES which, has_door, members, max_rounds, active, hist, transcript, worktree, phase,
          round, cursor, task, loops, spoke, results, inbox, db, user, wake

Talks == INSTANCE RoomRunner WITH door <- has_door

talksVars == <<has_door, members, max_rounds, active, hist, transcript, worktree, phase, round,
               cursor, task, loops, spoke, results, inbox, db, user, wake>>

ASSUME RoomsAssumption == MaxRounds \in Nat /\ PageLimit \in Nat

\* A run or a request that is not looked at begins in one state only.
RoomsInit ==
  /\ which \in {"registry", "rounds"}
  /\ Init
  /\ which # "registry" => wants = [q \in Requests |-> named[1]]
  /\ Talks!Init
  /\ which # "rounds" => has_door /\ members = {CHOOSE a \in Agents : TRUE}

RoomsNext ==
  \/ which = "registry" /\ Next /\ UNCHANGED <<which, talksVars>>
  \/ which = "rounds" /\ Talks!Next /\ UNCHANGED <<which, vars>>

RoomsSpec ==
  /\ RoomsInit /\ [][RoomsNext]_<<which, vars, talksVars>>
  /\ Fairness
  /\ Talks!Fairness

-----------------------------------------------------------------------------
\* A discussion is not cut off: when a room of several agents stops by itself,
\* everyone still in it has heard all that was said (room/runner.rs, run).
NothingUnheard == Talks!NothingUnheard

\* A run that has begun comes to its end, whatever the models answer and the
\* users write, if the tools they ask for answer (room/runner.rs, run).
RoomEnds == Talks!RoomEnds
=============================================================================
