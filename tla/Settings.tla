------------------------------ MODULE Settings ------------------------------
(***************************************************************************)
(* The two files that configure the program, ~/.abbot/abbot.toml and       *)
(* ~/.abbot/keys.env, and all who write them: the commands of the command  *)
(* line (src/cli/src/config.rs and commands/init.rs, providers.rs,         *)
(* mounts.rs, config_cmd.rs, use_cmd.rs), the traits:* calls of the agents *)
(* (src/daemon/src/syscalls/traits/mod.rs) and the admin API               *)
(* (src/daemon/src/server/admin.rs).  Every writer reads, edits and        *)
(* replaces a whole file through atomic_write_file_0600                    *)
(* (src/daemon/src/runtime/app_config.rs).                                 *)
(*                                                                         *)
(* A configuration is its model, its traits and its mounts; a key file is  *)
(* the set of providers it has a key of.                                   *)
(***************************************************************************)
EXTENDS Naturals, Sequences, FiniteSets, Functions

CONSTANTS
  Providers,     (* model providers, each with one key                     *)
  NoModel,       (* no model configured                                    *)
  Missing, Empty, Broken,  (* files without contents to read               *)
  Refuse,        (* of a command that will not write                       *)
  Writers,       (* processes or tasks that can be writing at one time     *)
  MaxCommands    (* bound: commands, calls and edits                       *)

VARIABLES
  setFile,      (* "config" and "keys": what the files hold                *)
  setTmp,       (* abbot.tmp and keys.tmp                                  *)
  setWriter,    (* what each writer is at                                  *)
  setCache,     (* AdminState.config                                       *)
  setOverlap,   (* history: two writers were in the same file at once      *)
  setCommands   (* history: commands so far                                *)

DefaultConfig == [model |-> NoModel, trait |-> FALSE, mount |-> FALSE]

setVars == <<setFile, setTmp, setWriter, setCache, setOverlap, setCommands>>

\* AppConfig::load gives the defaults when the file is missing, empty or does
\* not parse.
Unread == {Missing, Empty, Broken}

load(content) == IF content \in Unread THEN DefaultConfig ELSE content
load_api_keys(content) == IF content \in Unread THEN {} ELSE content

Resting == [plan |-> <<>>, p |-> NoModel, phase |-> "read", content |-> Missing]

SetInit ==
  /\ setFile \in {[config |-> c, keys |-> k] :
                    c \in {Missing} \cup {[model |-> p, trait |-> FALSE, mount |-> FALSE] : p \in Providers},
                    k \in {{}, Providers}}
  /\ setTmp = [config |-> Missing, keys |-> Missing]
  /\ setWriter = [w \in Writers |-> Resting]
  /\ setCache = load(setFile.config)
  /\ setOverlap = FALSE /\ setCommands = 0

-----------------------------------------------------------------------------
\* The plan of a command is the writes it makes, in order.
Target(op) == IF op \in {"save_key", "remove_key", "resave_key"} THEN "keys" ELSE "config"

\* What each write makes of the file it has read; Refuse when it will not write.
save_api_key(keys, p) == load_api_keys(keys) \cup {p}
remove_api_key(keys, p) == IF keys = Missing THEN Refuse ELSE load_api_keys(keys) \ {p}

\* Line by line, so a file that does not parse is copied as it is.
update_config_model(c, p) ==
  IF c = Missing THEN Refuse ELSE IF load(c).model = NoModel THEN c ELSE [c EXCEPT !.model = p]

MountsAdd(c) == IF c = Broken \/ load(c).mount THEN Refuse ELSE [load(c) EXCEPT !.mount = TRUE]
MountsRemove(c) == IF load(c).mount THEN [c EXCEPT !.mount = FALSE] ELSE Refuse
ConfigSet(c) == IF c = Broken THEN Refuse ELSE [load(c) EXCEPT !.trait = TRUE]

\* AppConfig::load does not fail, and what it could not read is overwritten.
mutate_config(c, on) == [load(c) EXCEPT !.trait = on]

\* What names no trait or no category does not come this far.
TraitsSet(c) == mutate_config(c, TRUE)
TraitsUnset(c) == mutate_config(c, FALSE)

generate_default_config(p) == [DefaultConfig EXCEPT !.model = p]

Edited(op, p) ==
  LET c == setFile.config
      k == setFile.keys
  IN  CASE op \in {"save_key", "resave_key"} -> save_api_key(k, p)
        [] op = "remove_key" -> remove_api_key(k, p)
        [] op = "use" -> update_config_model(c, p)
        [] op = "mount" -> MountsAdd(c)
        [] op = "unmount" -> MountsRemove(c)
        [] op = "config_set" -> ConfigSet(c)
        [] op = "init" -> generate_default_config(p)
        [] op = "set_trait" -> TraitsSet(c)
        [] op = "unset_trait" -> TraitsUnset(c)
        [] op = "put_section" -> setCache
        [] op = "put_config" -> [setCache EXCEPT !.model = p]

\* providers login saves the key; providers add, unless its test fails, goes on
\* to the model.
Login == <<"save_key">>
Add == <<"save_key", "use">>
Plans == {Login, Add} \cup
  {<<op>> : op \in {"remove_key", "use", "mount", "unmount", "config_set", "set_trait",
                    "unset_trait", "put_config"}}

DaemonOps == {"set_trait", "unset_trait", "put_section", "put_config"}

\* init that keeps the config there is saves the keys the environment has.
SyncKeys == <<"resave_key">>

\* prompt_api_key saves the key that is typed, or found in the environment.
PromptKey == {<<>>, <<"save_key">>}

\* With --clean everything goes before the rest is written; a key the
\* environment has is saved again, and the config comes last.
InitPlans ==
  {SyncKeys} \cup
  {clean \o <<"init">> : clean \in {<<>>, <<"clean">>}} \cup
  {key \o clean \o <<"resave_key", "init">> : key \in PromptKey, clean \in {<<>>, <<"clean">>}}

Spends == setCommands < MaxCommands /\ setCommands' = setCommands + 1

Command(w) ==
  /\ setWriter[w] = Resting /\ Spends
  /\ \E p \in Providers, plan \in Plans \cup InitPlans :
       setWriter' = [setWriter EXCEPT ![w] = [Resting EXCEPT !.plan = plan, !.p = p]]
  /\ UNCHANGED <<setFile, setTmp, setCache, setOverlap>>

\* PUT /admin/config/{section}: under the write lock the section is replaced
\* in the cached configuration, and that is saved.
PutSection(w) ==
  /\ setWriter[w] = Resting /\ Spends
  /\ \A x \in Writers : setWriter[x].plan # <<"put_section">>
  /\ \E m \in BOOLEAN : setCache' = [setCache EXCEPT !.mount = m]
  /\ setWriter' = [setWriter EXCEPT ![w] = [Resting EXCEPT !.plan = <<"put_section">>]]
  /\ UNCHANGED <<setFile, setTmp, setOverlap>>

\* The daemon comes up again, and its admin API reads the file once.
Restart ==
  /\ setCache # load(setFile.config)
  /\ \A w \in Writers : setWriter[w].plan \notin {<<o>> : o \in DaemonOps}
  /\ setCache' = load(setFile.config)
  /\ UNCHANGED <<setFile, setTmp, setWriter, setOverlap, setCommands>>

\* The user saves a file in an editor, in a state that does not parse.
Editor ==
  /\ Spends /\ setFile.config # Missing
  /\ setFile' = [setFile EXCEPT !.config = Broken]
  /\ UNCHANGED <<setTmp, setWriter, setCache, setOverlap>>

-----------------------------------------------------------------------------
(* One write: read, create the temporary file, fill it, rename it.         *)

Op(w) == Head(setWriter[w].plan)
Busy(w) == setWriter[w].plan # <<>>

Writing(w, target) == Busy(w) /\ setWriter[w].phase \notin {"read", "swap"} /\ Target(Op(w)) = target

Read(w) ==
  /\ Busy(w) /\ setWriter[w].phase = "read" /\ Op(w) # "clean"
  /\ LET content == Edited(Op(w), setWriter[w].p)
     IN  /\ setWriter' = [setWriter EXCEPT ![w] =
              IF content = Refuse THEN Resting ELSE [@ EXCEPT !.phase = "create", !.content = content]]
         /\ setOverlap' = (setOverlap \/ \E x \in Writers \ {w} : Writing(x, Target(Op(w))))
  /\ UNCHANGED <<setFile, setTmp, setCache, setCommands>>

\* init --clean removes the directory; what is written to a file that is open
\* is lost with it.
Clean(w) ==
  /\ Busy(w) /\ Op(w) = "clean"
  /\ setFile' = [config |-> Missing, keys |-> Missing]
  /\ setTmp' = [config |-> Missing, keys |-> Missing]
  /\ setWriter' = [x \in Writers |->
       CASE x = w -> [setWriter[w] EXCEPT !.plan = Tail(@)]
         [] x # w /\ setWriter[x].phase = "fill" -> [setWriter[x] EXCEPT !.phase = "rename"]
         [] OTHER -> setWriter[x]]
  /\ setOverlap' = (setOverlap \/ \E x \in Writers \ {w} : Busy(x))
  /\ UNCHANGED <<setCache, setCommands>>

\* Mutant (KilledWriterHarmsNothing): fs::write into the file itself.
CreateInPlace(w) ==
  /\ Busy(w) /\ setWriter[w].phase = "create"
  /\ setFile' = [setFile EXCEPT ![Target(Op(w))] = Empty]
  /\ setWriter' = [setWriter EXCEPT ![w].phase = "fill"]
  /\ UNCHANGED <<setTmp, setCache, setOverlap, setCommands>>

Create(w) ==
  /\ Busy(w) /\ setWriter[w].phase = "create"
  /\ setTmp' = [setTmp EXCEPT ![Target(Op(w))] = Empty]
  /\ setWriter' = [setWriter EXCEPT ![w].phase = "fill"]
  /\ UNCHANGED <<setFile, setCache, setOverlap, setCommands>>

\* A temporary file another writer has renamed is filled under its new name.
Fill(w) ==
  /\ Busy(w) /\ setWriter[w].phase = "fill"
  /\ LET t == Target(Op(w))
     IN  IF setTmp[t] = Missing
         THEN setFile' = [setFile EXCEPT ![t] = setWriter[w].content] /\ UNCHANGED setTmp
         ELSE setTmp' = [setTmp EXCEPT ![t] = setWriter[w].content] /\ UNCHANGED setFile
  /\ setWriter' = [setWriter EXCEPT ![w].phase = "rename"]
  /\ UNCHANGED <<setCache, setOverlap, setCommands>>

Rename(w) ==
  /\ Busy(w) /\ setWriter[w].phase = "rename"
  /\ LET t == Target(Op(w))
     IN  /\ IF setTmp[t] = Missing THEN UNCHANGED <<setFile, setTmp>>
            ELSE /\ setFile' = [setFile EXCEPT ![t] = setTmp[t]]
                 /\ setTmp' = [setTmp EXCEPT ![t] = Missing]
         /\ setWriter' = [setWriter EXCEPT ![w] =
              IF setTmp[t] # Missing /\ Op(w) = "put_config" THEN [@ EXCEPT !.phase = "swap"]
              ELSE IF setTmp[t] = Missing \/ Len(@.plan) = 1 THEN Resting
              ELSE [@ EXCEPT !.plan = Tail(setWriter[w].plan), !.phase = "read", !.content = Missing]]
  /\ UNCHANGED <<setCache, setOverlap, setCommands>>

\* PUT /admin/config saves without the lock, and takes it to replace the cache.
SwapCache(w) ==
  /\ Busy(w) /\ setWriter[w].phase = "swap"
  /\ \A x \in Writers : setWriter[x].plan # <<"put_section">>
  /\ setCache' = setWriter[w].content
  /\ setWriter' = [setWriter EXCEPT ![w] = Resting]
  /\ UNCHANGED <<setFile, setTmp, setOverlap, setCommands>>

\* A command is interrupted, or the daemon dies with all its writers.
Interrupt(w) ==
  /\ Busy(w) /\ setWriter[w].plan \notin {<<o>> : o \in DaemonOps}
  /\ setWriter' = [setWriter EXCEPT ![w] = Resting]
  /\ UNCHANGED <<setFile, setTmp, setCache, setOverlap, setCommands>>

DaemonDies ==
  /\ \E w \in Writers : setWriter[w].plan \in {<<o>> : o \in DaemonOps}
  /\ setWriter' = [w \in Writers |-> IF setWriter[w].plan \in {<<o>> : o \in DaemonOps}
                                     THEN Resting ELSE setWriter[w]]
  /\ UNCHANGED <<setFile, setTmp, setCache, setOverlap, setCommands>>

SetNext ==
  \/ \E w \in Writers : \/ Command(w) \/ PutSection(w) \/ Read(w) \/ Clean(w) \/ Create(w)
                        \/ Fill(w) \/ Rename(w) \/ SwapCache(w) \/ Interrupt(w)
  \/ Restart \/ Editor \/ DaemonDies

SetSpec == SetInit /\ [][SetNext]_setVars

-----------------------------------------------------------------------------
\* As long as no two of them were in one file at a time (they would share its
\* temporary file), no writer, also one killed on the way, leaves a file
\* emptied.
KilledWriterHarmsNothing == ~setOverlap => setFile.config # Empty /\ setFile.keys # Empty
=============================================================================
