----------------------------- MODULE RoomRunner -----------------------------
(***************************************************************************)
(* RoomRunner::run (src/daemon/src/runtime/room/runner.rs): the rounds of  *)
(* a room.  In a round every active agent runs by itself (run_agent_round, *)
(* its inner loop of LLM calls and tools) on its own history; between      *)
(* rounds the runner alone hands every agent what the others said and      *)
(* what users wrote meanwhile, which it reads from the frames database     *)
(* behind a writer that is always a little late (module FrameLog).         *)
(*                                                                         *)
(* Rooms are of two kinds: those of room:run (syscalls/room/run.rs), with  *)
(* any agents and one run, and the persistent ones of an interactive chat  *)
(* (syscalls/chat/message.rs, kernel/room_registry.rs), with a door, one   *)
(* agent and a run per turn.  What goes through the door in a turn is      *)
(* module ChatTurn, who gets the room's mutex module RoomRegistry.         *)
(*                                                                         *)
(* Of a history only what the runner puts into it is kept: texts of others *)
(* and of users.  What an agent says itself is not in it, as in the code.  *)
(***************************************************************************)
EXTENDS Naturals, Sequences, FiniteSets, SequencesExt, Sieve

CONSTANTS Agents,          (* members of rooms; their names differ          *)
          Participants,    (* those of role "participant", the default      *)
          Messages,        (* what users write to the room                  *)
          MaxRounds,       (* largest max_rounds of a room (10 or 12)       *)
          MAX_INNER_LOOPS, (* LLM calls of an agent in a round (20)         *)
          PageLimit        (* user messages read at a time (50)             *)

VARIABLES
  door,       (* Room::door is there                                        *)
  members,    (* Room::agents                                               *)
  max_rounds, (* Room::max_rounds                                           *)
  active,     (* members whose RoomAgent::active is set                     *)
  hist,       (* per agent: what is in its RoomAgent::messages              *)
  transcript, (* Room::transcript                                           *)
  worktree,   (* the room's worktree: "no", "wanted", "there"               *)
  phase,      (* where run is                                               *)
  round,      (* its round                                                  *)
  cursor,     (* its last_polled_seq                                        *)
  task,       (* per agent: where its run_agent_round is                    *)
  loops,      (* per agent: LLM calls it has made and run the tools of      *)
  spoke,      (* agents with visible_text                                   *)
  results,    (* the agents whose result has come, in that order            *)
  inbox,      (* user frames on their way to the frame writer               *)
  db,         (* user frames of the room in the database; the index is seq  *)
  user,       (* per message: where the chat:message that brings it is      *)
  wake        (* ActiveRoom::notify has a permit                            *)

roomVars == <<door, members, max_rounds, active, hist, transcript, worktree>>

runVars == <<phase, round, cursor>>

agentVars == <<task, loops, spoke, results>>

userVars == <<inbox, db, user, wake>>

vars == <<roomVars, runVars, agentVars, userVars>>

\* Entries of a history.
Talk(entry) == [kind |-> "talk", text |-> entry]

Polled(m) == [kind |-> "polled", text |-> m]

Injected(m) == [kind |-> "injected", text |-> m]

\* room:run makes its room and runs it; a room with a door waits for a turn.
Init ==
  /\ door \in BOOLEAN
  /\ members \in SUBSET Agents
  /\ door => Cardinality(members) = 1
  /\ max_rounds \in IF door THEN {MaxRounds} ELSE {0, MaxRounds}
  /\ worktree \in IF door THEN {"no"} ELSE {"no", "wanted"}
  /\ active = members
  /\ hist = [a \in Agents |-> <<>>]
  /\ transcript = <<>>
  /\ phase = IF door THEN "idle" ELSE "begin"
  /\ round = 0
  /\ cursor = 0
  /\ task = [a \in Agents |-> "out"]
  /\ loops = [a \in Agents |-> 0]
  /\ spoke = {}
  /\ results = <<>>
  /\ inbox = <<>>
  /\ db = <<>>
  /\ user = [m \in Messages |-> "unsent"]
  /\ wake = FALSE

-----------------------------------------------------------------------------
(* chat:message of a user, and the frame writer.                           *)

\* The message goes out as a chat:user frame, first of all.
Say(m) ==
  /\ user[m] = "unsent"
  /\ user' = [user EXCEPT ![m] = IF door THEN "attach" ELSE "sent"]
  /\ inbox' = Append(inbox, m)
  /\ UNCHANGED <<roomVars, runVars, agentVars, db, wake>>

\* attach_door: the runner is between turns, as it has the mutex in one.
AttachDoor(m) ==
  /\ user[m] = "attach" /\ phase = "idle"
  /\ user' = [user EXCEPT ![m] = "inject"]
  /\ transcript' = <<>>
  /\ active' = members
  /\ UNCHANGED <<door, members, max_rounds, hist, worktree, runVars, agentVars, inbox, db, wake>>

\* inject_message puts it into the history of every agent of the room.
InjectMessage(m) ==
  /\ user[m] = "inject" /\ phase = "idle"
  /\ user' = [user EXCEPT ![m] = "sent"]
  /\ hist' = [a \in Agents |-> IF a \in members THEN Append(hist[a], Injected(m)) ELSE hist[a]]
  /\ wake' = TRUE
  /\ UNCHANGED <<door, members, max_rounds, active, transcript, worktree, runVars, agentVars,
                 inbox, db>>

WriterInserts ==
  /\ inbox # <<>>
  /\ db' = Append(db, Head(inbox))
  /\ inbox' = Tail(inbox)
  /\ UNCHANGED <<roomVars, runVars, agentVars, user, wake>>

-----------------------------------------------------------------------------
(* RoomRunner::run.                                                        *)

\* run_persistent_room, woken.
TurnBegin ==
  /\ phase = "idle" /\ wake
  /\ wake' = FALSE
  /\ phase' = "begin"
  /\ UNCHANGED <<roomVars, round, cursor, agentVars, inbox, db, user>>

\* A room may want a worktree of its own, and git may not give it one; an
\* earlier run's, left behind under the same name, is taken over.
provision == worktree' \in IF worktree = "wanted" THEN {"wanted", "there"} ELSE {worktree}

\* Removed by git, or else from the disk.
cleanup == worktree' = IF worktree = "there" THEN "no" ELSE worktree

\* Phases 1 and 2: a worktree that cannot be had is the end of the run.
Begin ==
  /\ phase = "begin"
  /\ provision
  /\ \/ worktree' = "wanted" /\ phase' = "over" /\ UNCHANGED <<round, cursor>>
     \/ /\ worktree' # "wanted"
        /\ phase' = "head"
        /\ round' = 0
        /\ cursor' = Len(db)
  /\ UNCHANGED <<door, members, max_rounds, active, hist, transcript, agentVars, userVars>>

\* What agent a has not said itself of the last round that is in the
\* transcript (inject_transcript).
News(a) ==
  LET said == Range(transcript)
      last == {e \in said : \A f \in said : f.round <= e.round}
      new == Sift(transcript, {e \in last : e.agent # a})
  IN [i \in DOMAIN new |-> Talk(new[i])]

\* fetch_user_message_frames: a page of what is newer than the cursor.
Fetched == SubSeq(db, cursor + 1, IF cursor + PageLimit <= Len(db) THEN cursor + PageLimit ELSE Len(db))

\* inject_transcript and inject_user_messages; the query may fail.
Poll ==
  \E page \in {<<>>, Fetched} :
    /\ hist' = [a \in Agents |->
                  IF a \notin active THEN hist[a]
                  ELSE hist[a] \o (IF round > 0 THEN News(a) ELSE <<>>)
                               \o [i \in DOMAIN page |-> Polled(page[i])]]
    /\ cursor' = cursor + Len(page)

\* The head of a round: the agents that are active are started.
RoundHead ==
  /\ phase = "head" /\ round < max_rounds
  /\ Poll
  /\ phase' = IF active = {} THEN "summary" ELSE "agents"
  /\ task' = [a \in Agents |-> IF a \in active THEN "llm" ELSE "out"]
  /\ loops' = [a \in Agents |-> 0]
  /\ spoke' = {}
  /\ results' = <<>>
  /\ UNCHANGED <<door, members, max_rounds, active, transcript, worktree, round, userVars>>

RoundsUsedUp ==
  /\ phase = "head" /\ round = max_rounds
  /\ phase' = "summary"
  /\ UNCHANGED <<roomVars, round, cursor, agentVars, userVars>>

\* chat:llm takes calls of heads, hands and minds: a participant's actor is
\* room/<name>, which it refuses.
cfg_for_actor(a) == a \notin Participants

\* What call_llm gives run_agent_round: text or none, with no tool call, with
\* noop_done, with noop_signal or with tools to run; or an error.
call_llm(a) ==
  [answer : {"error"}, text : {FALSE}] \union
  IF cfg_for_actor(a) THEN [answer : {"plain", "tools", "signal", "done"}, text : BOOLEAN] ELSE {}

\* The agent's round goes on after n calls, or its result comes.
Comes(a, to, n) ==
  /\ task' = [task EXCEPT ![a] = to]
  /\ loops' = [loops EXCEPT ![a] = IF to \in {"llm", "tools"} THEN n ELSE 0]
  /\ results' = IF to \in {"llm", "tools"} THEN results ELSE Append(results, a)

\* A call of run_agent_round; what was said before an error stays said.  With a
\* door the turn may turn out to be cancelled, before the call is made.
AgentStep(a) ==
  /\ phase = "agents" /\ task[a] = "llm"
  /\ \/ door /\ Comes(a, "stays", 0) /\ UNCHANGED spoke
     \/ \E got \in call_llm(a) :
          /\ spoke' = IF got.text THEN spoke \union {a} ELSE spoke
          /\ Comes(a, CASE got.answer = "done" -> "done"
                        [] got.answer = "tools" -> "tools"
                        [] OTHER -> "stays", loops[a])
  /\ UNCHANGED <<roomVars, runVars, userVars>>

\* Mutant: the bound on the LLM calls of a round is gone.
AgentToolsUnbounded(a) ==
  /\ phase = "agents" /\ task[a] = "tools"
  /\ Comes(a, "llm", (loops[a] + 1) % MAX_INNER_LOOPS)
  /\ UNCHANGED <<roomVars, runVars, spoke, userVars>>

\* The tools of a call have answered: the next call, or the last was made.
\* With a door, the wait for a tool of the client's ends too when the turn is
\* cancelled.
AgentTools(a) ==
  /\ phase = "agents" /\ task[a] = "tools"
  /\ \/ Comes(a, IF loops[a] + 1 < MAX_INNER_LOOPS THEN "llm" ELSE "stays", loops[a] + 1)
     \/ door /\ Comes(a, "stays", 0)
  /\ UNCHANGED <<roomVars, runVars, spoke, userVars>>

\* strip_thinking_tags cannot take a closing tag before the opening one: the
\* agent's task panics.  Its JoinSet only logs that; with a door the agent
\* runs in the task of run_persistent_room, which is then no more.
AgentPanics(a) ==
  /\ phase = "agents" /\ task[a] = "llm"
  /\ IF door THEN phase' = "dead" ELSE UNCHANGED phase
  /\ task' = [task EXCEPT ![a] = "panicked"]
  /\ loops' = [loops EXCEPT ![a] = 0]
  /\ UNCHANGED <<roomVars, round, cursor, spoke, results, userVars>>

\* Who left, who said something, and the entries that makes.
Left == {a \in Range(results) : task[a] = "done"}

Said == Sift(results, spoke)

Entries == [i \in DOMAIN Said |-> [agent |-> Said[i], round |-> round]]

\* Mutant: the last words of those who leave do not keep the room going.
StopsIfStayersQuiet(still) ==
  \/ still \intersect Range(Said) = {}
  \/ door /\ Cardinality(still) = 1

\* The conditions to stop after a round.
Stops(still) ==
  \/ still = {}
  \/ Said = <<>>
  \/ door /\ Cardinality(still) = 1

\* The barrier at the end of a round.
RoundEnd ==
  /\ phase = "agents"
  /\ \A a \in Agents : task[a] \notin {"llm", "tools"}
  /\ transcript' = transcript \o Entries
  /\ active' = active \ Left
  /\ \/ Stops(active') /\ phase' = "summary" /\ UNCHANGED round
     \/ ~Stops(active') /\ phase' = "head" /\ round' = round + 1
  /\ task' = [a \in Agents |-> "out"]
  /\ loops' = [a \in Agents |-> 0]
  /\ spoke' = {}
  /\ results' = <<>>
  /\ UNCHANGED <<door, members, max_rounds, hist, worktree, cursor, userVars>>

\* The room of a room:run is dropped with the call.
RoomGone ==
  /\ active' = {}
  /\ hist' = [a \in Agents |-> <<>>]
  /\ transcript' = <<>>
  /\ round' = 0
  /\ cursor' = Len(db)

\* Phase 4: the summary.  Its actor, system/room_summarizer, is refused by
\* chat:llm; the run goes on whatever comes.
Summarize ==
  /\ phase = "summary"
  /\ phase' = "cleanup"
  /\ UNCHANGED <<roomVars, round, cursor, agentVars, userVars>>

\* Phase 5 and the end of run: the worktree goes, and so does a room:run's room.
Finish ==
  /\ phase = "cleanup"
  /\ phase' = IF door THEN "idle" ELSE "over"
  /\ cleanup
  /\ IF door THEN UNCHANGED <<active, hist, transcript, round, cursor>> ELSE RoomGone
  /\ UNCHANGED <<door, members, max_rounds, agentVars, userVars>>

\* The call room:run is cancelled: the dispatcher drops it, agents and all,
\* and the worktree stays behind.
Dropped ==
  /\ ~door /\ phase \in {"begin", "head", "agents", "summary", "cleanup"}
  /\ phase' = "dropped"
  /\ RoomGone
  /\ task' = [a \in Agents |-> "out"]
  /\ loops' = [a \in Agents |-> 0]
  /\ spoke' = {}
  /\ results' = <<>>
  /\ UNCHANGED <<door, members, max_rounds, worktree, userVars>>

Run ==
  \/ TurnBegin \/ Begin \/ RoundHead \/ RoundsUsedUp \/ RoundEnd \/ Summarize \/ Finish
  \/ \E a \in Agents : AgentStep(a) \/ AgentPanics(a)

Next ==
  \/ Run
  \/ \E a \in Agents : AgentTools(a)
  \/ Dropped
  \/ WriterInserts
  \/ \E m \in Messages : Say(m) \/ AttachDoor(m) \/ InjectMessage(m)

\* Tasks that are ready go on, and LLM calls end, as they have a timeout.  The
\* tools need not: nothing but the client or a cancel ends the wait for a tool
\* of the client's.
Fairness ==
  /\ WF_vars(Run) /\ WF_vars(WriterInserts)
  /\ \A m \in Messages : WF_vars(AttachDoor(m) \/ InjectMessage(m))

Spec == Init /\ [][Next]_vars /\ Fairness
-----------------------------------------------------------------------------
Times(a, entry) == Cardinality({i \in DOMAIN hist[a] : hist[a][i] = entry})

\* A discussion is not cut off: when a room of several agents stops by itself
\* (not at max_rounds), everyone still in it has heard all that was said,
\* the last words of those who left too.
NothingUnheard ==
  phase = "summary" /\ ~door /\ round < max_rounds =>
    \A a \in active, i \in DOMAIN transcript :
       transcript[i].agent # a => Times(a, Talk(transcript[i])) = 1

ToolsAnswer == \A a \in Agents : []<>(task[a] # "tools")

\* A run that has begun comes to its end, whatever the models answer and the
\* users write meanwhile, if all the tools the agents ask for answer: the
\* barrier waits for the slowest agent of a round, and one that asks for tools
\* on and on is stopped.
RoomEnds == ToolsAnswer => (phase = "begin" ~> phase \in {"idle", "over", "dropped", "dead"})
=============================================================================
