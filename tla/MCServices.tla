---------------------------- MODULE MCServices ----------------------------
(***************************************************************************)
(* The parts of the daemon that work below or beside the turns, on small   *)
(* instances: safe mode, the mind's loop, a child process, a call of a     *)
(* model, the entity store, the head's prompt and the file tools.  They    *)
(* share no state, so that each is checked on its own: `which` says which  *)
(* of them takes the steps, and the others stay as they begin.             *)
(***************************************************************************)
EXTENDS SafeMode, Sequences

CONSTANTS
  m1, m2, m3,
  MindFrames, MindKinds, Cadence, MaxRounds, CallTicks, High, Stall, Items, MaxTime,
  PipeSize, Input, Output, max_stdout,
  max_attempts, SafeAttempts, Answers,
  Ids, Values, Null, None, MaxWrites, MaxCrashes,
  Sizes, SystemTokens, Budget, Gap, Limit, MaxFrames, HeadTime, MaxEnds,
  FileAgents, Hands, Role, RoomOf, DoorRooms, Mounts, NameRest, Offers, MaxLines, MaxResults, MaxIters,
  MaxCalls, MaxFailures, MaxFileCalls

VARIABLES
  which,
  now, ticks, paused, open, mind, calls, spent, last_ms, last_ts, tick, made, recorded, shown, excused,
  exec, at, stdin, pipe, child, heirs, written, captured, truncated, signals, outcome, reply,
  llm, stage, turn, attempt, endpoint, noted, verdict, tosend, notes, frames, heard, cancel, answer,
  entTable, entLegacy, entVersion, entTx, entPromoting, entDoc, entRaw, entCount,
  hpNow, hpSent, hpLog, hpSaying, hpRoom, hpMade, hpEnds,
  fsMounts, fsMem, fsHost, fsCwd, fsStep, fsCall, fsAnswer, fsLocks, fsHand, fsMade, fsAlone, fsKept

\* A provider with two models and one with another.
SomeCandidates == <<<<m1, m2>>, <<m3>>>>

\* Frames of the room the mind asks for, and of the one it means.
SomeKinds == {[room |-> "#main", item |-> TRUE], [room |-> "#main", item |-> FALSE],
              [room |-> "main", item |-> TRUE]}

Text(id) == [type |-> "text", id |-> id]
ToolCall(id) == [type |-> "call", id |-> id]

\* Answers with one text or two, with a call, with one that has no id.
SomeAnswers == {<<Text("t1")>>, <<Text("t1"), ToolCall("c1")>>, <<Text("t1"), Text("t2")>>,
                <<ToolCall("c1"), ToolCall("")>>}

Path(names) == [abs |-> TRUE, names |-> names]
Name(names) == [abs |-> FALSE, names |-> names]
Host(name) == [abs |-> TRUE, root |-> name]

\* A mount with a read-only one inside; tables that are refused.
SomeMounts ==
  LET work == [prefix |-> <<"w">>, host |-> Host("work"), ro |-> FALSE]
      ref  == [prefix |-> <<"w", "ro">>, host |-> Host("ref"), ro |-> TRUE]
  IN {<<work, ref>>, <<ref, ref>>, <<[work EXCEPT !.prefix = <<"..">>]>>,
      <<[work EXCEPT !.host.abs = FALSE]>>}

SomeNames == [wr |-> [w |-> "r"]]

\* One head answers a person, the other works in a room that has no door.
SomeRoles == [a \in FileAgents |-> "head"]
SomeRooms == [a1 |-> "r1", a2 |-> "r2"]

\* Files and directories in memory, in the sandbox and in the mounts; the same
\* place under two names; a file where a directory is asked for.  What a hand
\* would change is refused.
SomeOffers ==
  [a1 |-> {[tool |-> "fs_write", path |-> p, text |-> <<"x">>, parents |-> TRUE] :
             p \in {Path(<<"tmp", "f">>), Name(<<"f", "g">>), Path(<<"wr", "f">>), Path(<<"w", "f", "g", "h">>)}}
          \cup {[tool |-> "fs_mkdir", path |-> p, parents |-> TRUE] : p \in {Path(<<"w", "d">>)}}
          \cup {[tool |-> "fs_cd", path |-> Path(<<"tmp">>)]}
          \cup {[tool |-> "patch_apply", path |-> Name(<<"b", "f">>), old |-> <<"x">>, text |-> <<"y">>]},
   a2 |-> {[tool |-> "fs_write", path |-> p, text |-> <<"", "y">>, parents |-> FALSE] :
             p \in {Path(<<"w", "ro", "f">>), Path(<<"w", "r", "f">>), Path(<<"tmp", "f", "g">>), Name(<<"f">>)}}
          \cup {[tool |-> "fs_mkdir", path |-> p, parents |-> FALSE] : p \in {Name(<<"f">>), Path(<<"tmp", "f">>)}}
          \cup {[tool |-> "fs_read", path |-> Name(<<"f">>), offset |-> {0}],
                [tool |-> "fs_list", path |-> Name(<<"w", "..">>), recursive |-> TRUE]},
   h1 |-> {[tool |-> "fs_write", path |-> Path(<<"tmp", "f">>), text |-> <<"z">>, parents |-> TRUE],
           [tool |-> "fs_grep", path |-> Name(<<"..">>), line |-> "x"]}]

SomeCalls == [a1 |-> 2, a2 |-> 1]

Mind == INSTANCE MindLoop
Child == INSTANCE Exec
Llm == INSTANCE LlmCall
Ems == INSTANCE Entities
Prompt == INSTANCE HeadPrompt WITH MaxTime <- HeadTime
Vfs == INSTANCE Files

mindVars == <<now, ticks, paused, open, mind, calls, spent, last_ms, last_ts, tick, made, recorded, shown,
              excused>>
execVars == <<exec, at, stdin, pipe, child, heirs, written, captured, truncated, signals, outcome, reply>>
llmVars == <<llm, stage, turn, attempt, endpoint, noted, verdict, tosend, notes, frames, heard, cancel, answer>>
entVars == <<entTable, entLegacy, entVersion, entTx, entPromoting, entDoc, entRaw, entCount>>
hpVars == <<hpNow, hpSent, hpLog, hpSaying, hpRoom, hpMade, hpEnds>>
fsVars == <<fsMounts, fsMem, fsHost, fsCwd, fsStep, fsCall, fsAnswer, fsLocks, fsHand, fsMade, fsAlone, fsKept>>

\* The rows and the objects of the entity store, none of which is None.
EntValues == Values \cup {Null, "", "pending", "running", "removed", "promoted"}
EntData == {Ems!Text} \cup UNION {[K -> EntValues] : K \in SUBSET Ems!Extras}
EntRows == [kind : Ems!Kinds, column : [Ems!FixedColumns -> EntValues], data : EntData]
EntDocs == [kind : Ems!Kinds, val : [Ems!Keys -> EntValues]]

ASSUME ServicesAssumption ==
  /\ max_stdout \in Nat /\ Limit \in Nat
  /\ None \notin EntRows /\ None \notin EntDocs
  /\ \A call \in Vfs!FileCalls :
       /\ call.path.abs \in BOOLEAN /\ call.path.names \in Seq(STRING)
       /\ call.tool = "fs_write" => call.text \in Seq(STRING)
  /\ Answers \subseteq Seq(Llm!Blocks) /\ \A b \in Llm!Blocks : b.type \in {"text", "call"}

otherVars == <<mindVars, execVars, llmVars, entVars, hpVars, fsVars>>

Parts == {"safe_mode", "mind", "exec", "llm", "ems", "prompt", "files"}

\* A part that does not run begins in one state only.
ServicesInit ==
  /\ which \in Parts
  /\ Init /\ (which # "safe_mode" => healthy = {})
  /\ Mind!MindInit
  /\ Child!ExecInit
  /\ which # "exec" => exec = [program |-> "readonly", mutate |-> TRUE, host |-> TRUE, input |-> 0,
                               timeout |-> FALSE, deadline |-> FALSE]
  /\ Llm!LlmInit
  /\ which # "llm" => llm = [api |-> "openai", model |-> "chat", max_tokens |-> TRUE, tools |-> TRUE]
  /\ Ems!EntInit /\ (which # "ems" => entLegacy = [i \in Ids |-> None])
  /\ Prompt!HeadInit
  /\ Vfs!FilesInit

ServicesNext ==
  \/ which = "safe_mode" /\ Next /\ UNCHANGED <<which, otherVars>>
  \/ which = "mind" /\ Mind!MindNext
     /\ UNCHANGED <<which, vars, execVars, llmVars, entVars, hpVars, fsVars>>
  \/ which = "exec" /\ Child!ExecNext
     /\ UNCHANGED <<which, vars, mindVars, llmVars, entVars, hpVars, fsVars>>
  \/ which = "llm" /\ Llm!LlmNext
     /\ UNCHANGED <<which, vars, mindVars, execVars, entVars, hpVars, fsVars>>
  \/ which = "ems" /\ Ems!EntNext
     /\ UNCHANGED <<which, vars, mindVars, execVars, llmVars, hpVars, fsVars>>
  \/ which = "prompt" /\ Prompt!HeadNext
     /\ UNCHANGED <<which, vars, mindVars, execVars, llmVars, entVars, fsVars>>
  \/ which = "files" /\ Vfs!FilesNext
     /\ UNCHANGED <<which, vars, mindVars, execVars, llmVars, entVars, hpVars>>

ServicesSpec == ServicesInit /\ [][ServicesNext]_<<which, vars, otherVars>> /\ Fairness

-----------------------------------------------------------------------------
\* A frame older than what the mind counts as reviewed was shown to it as new
\* (mind/service.rs last_wake_ts, mind/bundle.rs gather_activity).
ActivityIsShown == Mind!ActivityIsShown

\* A call of exec:run that succeeds answers with all that was written, or says
\* that it is less (hal/process.rs spawn_capture_task).
OutputIsWhole == Child!OutputIsWhole

\* The caller of llm:chat hears the answer of the attempt that succeeded, whole,
\* in order and once (llm_harness.rs, syscalls/llm/chat.rs).
AnswerIsHeard == Llm!AnswerIsHeard

\* A select answers as a store of whole JSON objects would (ems/service.rs,
\* ems/where_builder.rs).
AnswersAreOfDocuments == Ems!AnswersAreOfDocuments

\* Through crashes an entity of the old tables is in them or in the new one,
\* and never in both (ems/migrations/mod.rs).
MigratesOnce == Ems!MigratesOnce

\* A room made again knows the end of the conversation, within the budget
\* (head/bundle.rs, while the log fits one page).
PromptIsRecent == Prompt!PromptIsRecent

\* What fs:write has reported written is in the file until a head or a mind
\* names that file again (vfs/memory.rs, syscalls/fs/write.rs).
WrittenIsKept == Vfs!WrittenIsKept
=============================================================================
