---------------------------- MODULE EdgesProofs -----------------------------
(***************************************************************************)
(* Proofs about the parts of MCEdges, for every value of its constants.    *)
(***************************************************************************)
EXTENDS MCEdges, SieveProofs, TLAPS

-----------------------------------------------------------------------------
(* The requests of the HTTP API and the snapshot of their tools.           *)

\* Where a request goes from a phase is another phase of the request.
PhaseNames == {"register", "prompt", "message", "results"}

HttpTyped ==
  /\ shape \in [Requests -> Shapes]
  /\ DOMAIN hpc = Requests
  /\ \A t \in Requests : holder[t] \in Requests \cup {None}
  /\ DOMAIN holder = Requests

LEMMA PhasesAre ==
  ASSUME HttpTyped, NEW q \in Requests
  PROVE  AfterPrompt(q) \in PhaseNames /\ AfterRegister(q) \in PhaseNames
<1>1. shape[q].kind \in Kinds
  BY DEF HttpTyped, Shapes
<1> QED BY <1>1 DEF AfterPrompt, AfterRegister, PhaseNames, Kinds

\* tool:register and its refresh_lock.
Holding(q) == hpc[q] \in {"read", "swap"}

\* A request that will read the registry yet.
Pledge == \E q \in Requests : hpc[q] \in {"cache", "refresh", "read"}

\* A request that has read it and will swap what it read in.
Swapping == \E q \in Requests : hpc[q] = "swap"

LockHeld == \A q \in Requests : refresh_lock = q <=> Holding(q)

\* What was read is the catalog, or nothing.
Listed == built.tools = IF built.listed THEN registry[Main] ELSE {}

SnapshotFollows ==
  /\ snapshot = (IF blind THEN {} ELSE registry[Main]) \/ Pledge \/ Swapping
  /\ Swapping => Listed \/ Pledge

HttpInv == HttpTyped /\ LockHeld /\ SnapshotFollows

LEMMA HttpTypedStep ==
  ASSUME HttpTyped, [HttpNext]_httpVars
  PROVE  HttpTyped'
<1> USE DEF HttpTyped, Goes, turnVars
<1>1. CASE UNCHANGED httpVars
  BY <1>1 DEF httpVars
<1>2. ASSUME NEW q \in Requests,
             \/ Admit(q) \/ Persist(q) \/ Reject(q) \/ CacheTools(q) \/ Lock(q) \/ Build(q)
             \/ Swap(q) \/ SkipPrompt(q) \/ LookUpPrompt(q) \/ PutPrompt(q) \/ BindPrompt(q)
      PROVE  HttpTyped'
  BY <1>2 DEF Admit, Persist, Reject, CacheTools, Lock, Build, Swap, SkipPrompt, LookUpPrompt,
     PutPrompt, BindPrompt
<1>3. ASSUME NEW q \in Requests,
             NoUserMessage(q) \/ Activate(q) \/ ChatMessage(q) \/ AskTool(q) \/ Finish(q)
      PROVE  HttpTyped'
  BY <1>3 DEF NoUserMessage, Activate, ChatMessage, AskTool, Finish
<1>4. ASSUME NEW q \in Requests, OpenTurn(q) PROVE HttpTyped'
  BY <1>4 DEF OpenTurn
<1>5. ASSUME NEW q \in Requests, SubmitResults(q) PROVE HttpTyped'
  BY <1>5 DEF SubmitResults
<1> HIDE DEF HttpTyped
<1> QED BY <1>1, <1>2, <1>3, <1>4, <1>5 DEF HttpNext

\* A step of a request that is not registering tools.
LEMMA OtherStep ==
  ASSUME HttpInv, NEW q, NEW new,
         hpc' = [hpc EXCEPT ![q] = new],
         q \in Requests => hpc[q] \notin {"cache", "refresh", "read", "swap"},
         new \notin {"cache", "refresh", "read", "swap"},
         UNCHANGED regVars
  PROVE  LockHeld' /\ SnapshotFollows'
<1>1. \A p \in Requests : \/ hpc'[p] = hpc[p]
                          \/ /\ hpc[p] \notin {"cache", "refresh", "read", "swap"}
                             /\ hpc'[p] \notin {"cache", "refresh", "read", "swap"}
  BY DEF HttpInv, HttpTyped
<1>2. (Pledge <=> Pledge') /\ (Swapping <=> Swapping')
  BY <1>1 DEF Pledge, Swapping
<1>3. LockHeld'
  BY <1>1 DEF HttpInv, LockHeld, Holding, regVars
<1>4. SnapshotFollows'
  BY <1>2 DEF HttpInv, SnapshotFollows, Listed, regVars
<1> QED BY <1>3, <1>4

LEMMA HttpInvStep ==
  ASSUME HttpInv, [HttpNext]_httpVars
  PROVE  LockHeld' /\ SnapshotFollows'
<1> USE DEF Goes
<1>0. \A q \in Requests : AfterPrompt(q) \in PhaseNames /\ AfterRegister(q) \in PhaseNames
  BY PhasesAre DEF HttpInv
<1>1. CASE UNCHANGED httpVars
  BY <1>1 DEF httpVars, regVars, HttpInv, LockHeld, Holding, SnapshotFollows, Pledge, Swapping, Listed
<1>2. ASSUME NEW q \in Requests, Admit(q) PROVE LockHeld' /\ SnapshotFollows'
  <2>1. PICK new \in {"refused", "register", "prompt"} : hpc' = [hpc EXCEPT ![q] = new]
    <3>1. shape[q].api \in {"openai", "anthropic"}
      BY DEF HttpInv, HttpTyped, Shapes
    <3>2. CASE Room(q) = None
      BY <1>2, <3>2 DEF Admit
    <3>3. CASE Room(q) # None /\ shape[q].api = "openai"
      BY <1>2, <3>3 DEF Admit
    <3>4. CASE Room(q) # None /\ shape[q].api = "anthropic"
      BY <1>2, <3>4 DEF Admit
    <3> QED BY <3>1, <3>2, <3>3, <3>4
  <2> QED BY <1>2, <2>1, OtherStep DEF Admit
<1>3. ASSUME NEW q \in Requests, Reject(q) \/ SkipPrompt(q) \/ BindPrompt(q)
      PROVE  LockHeld' /\ SnapshotFollows'
  <2>1. PICK new \in PhaseNames : hpc' = [hpc EXCEPT ![q] = new]
    BY <1>0, <1>3 DEF Reject, SkipPrompt, BindPrompt
  <2> QED BY <1>3, <2>1, OtherStep DEF Reject, SkipPrompt, BindPrompt, PhaseNames
<1>4. ASSUME NEW q \in Requests, LookUpPrompt(q) \/ PutPrompt(q)
      PROVE  LockHeld' /\ SnapshotFollows'
  <2>1. PICK new \in {"bind", "minify"} : hpc' = [hpc EXCEPT ![q] = new]
    BY <1>4 DEF LookUpPrompt, PutPrompt
  <2> QED BY <1>4, <2>1, OtherStep DEF LookUpPrompt, PutPrompt
<1>5. ASSUME NEW q \in Requests,
             OpenTurn(q) \/ NoUserMessage(q) \/ Activate(q) \/ ChatMessage(q) \/ Finish(q)
      PROVE  LockHeld' /\ SnapshotFollows'
  <2>1. PICK new \in {"activate", "refused", "dispatch", "reading", "answered"} :
          hpc' = [hpc EXCEPT ![q] = new]
    BY <1>5 DEF OpenTurn, NoUserMessage, Activate, ChatMessage, Finish
  <2> QED BY <1>5, <2>1, OtherStep DEF OpenTurn, NoUserMessage, Activate, ChatMessage, Finish
<1>6. ASSUME NEW q \in Requests, SubmitResults(q) PROVE LockHeld' /\ SnapshotFollows'
  <2>1. PICK new \in {"refused", "reading"} : hpc' = [hpc EXCEPT ![q] = new]
    BY <1>6 DEF SubmitResults
  <2> QED BY <1>6, <2>1, OtherStep DEF SubmitResults
<1>7. ASSUME NEW t \in Requests, AskTool(t) PROVE LockHeld' /\ SnapshotFollows'
  BY <1>7, OtherStep DEF AskTool
<1>8. ASSUME NEW q \in Requests, Persist(q) \/ CacheTools(q) \/ Lock(q)
      PROVE  LockHeld' /\ SnapshotFollows'
  <2>1. Pledge'
    BY <1>8 DEF Persist, CacheTools, Lock, Pledge, HttpInv, HttpTyped
  <2>2. LockHeld'
    BY <1>8, HttpApiAssumption
       DEF Persist, CacheTools, Lock, HttpInv, HttpTyped, LockHeld, Holding
  <2> QED BY <2>1, <2>2 DEF SnapshotFollows
<1>9. ASSUME NEW q \in Requests, Build(q) PROVE LockHeld' /\ SnapshotFollows'
  <2>1. Swapping' /\ Listed'
    BY <1>9 DEF Build, Swapping, Listed, HttpInv, HttpTyped
  <2>2. LockHeld'
    BY <1>9 DEF Build, HttpInv, HttpTyped, LockHeld, Holding
  <2> QED BY <2>1, <2>2 DEF SnapshotFollows
<1>10. ASSUME NEW q \in Requests, Swap(q) PROVE LockHeld' /\ SnapshotFollows'
  <2>1. PICK new \in PhaseNames : hpc' = [hpc EXCEPT ![q] = new]
    BY <1>0, <1>10 DEF Swap
  <2>2. hpc[q] = "swap" /\ snapshot' = built.tools /\ blind' = ~built.listed /\ refresh_lock' = None
        /\ UNCHANGED <<registry, built>>
    BY <1>10 DEF Swap
  <2>3. \A p \in Requests : p # q => hpc[p] \notin {"read", "swap"}
    BY <2>2 DEF HttpInv, LockHeld, Holding
  <2>4. \A p \in Requests : hpc'[p] \notin {"read", "swap"}
    BY <2>1, <2>3 DEF HttpInv, HttpTyped, PhaseNames
  <2>5. LockHeld'
    BY <2>2, <2>4, HttpApiAssumption DEF LockHeld, Holding
  <2>6. Pledge => Pledge'
    BY <2>1, <2>2 DEF Pledge, HttpInv, HttpTyped
  <2>7. Listed \/ Pledge
    BY <2>2 DEF HttpInv, SnapshotFollows, Swapping
  <2>8. ~Swapping'
    BY <2>4 DEF Swapping
  <2> QED BY <2>2, <2>5, <2>6, <2>7, <2>8 DEF SnapshotFollows, Listed
<1> HIDE DEF Goes
<1> QED
  BY <1>1, <1>2, <1>3, <1>4, <1>5, <1>6, <1>7, <1>8, <1>9, <1>10 DEF HttpNext

\* Whatever tool:register calls overlap, for whatever rooms, once none is
\* under way the snapshot has the tools last committed for the main room, or
\* none if the last listing failed: the last to commit still has to read, and
\* one that read before it still has to swap, under the lock
\* (syscalls/tool/register.rs, runtime/snapshot.rs).
THEOREM HttpSnapshotIsCurrent == HttpSpec => []SnapshotIsCurrent
<1>1. HttpInit => HttpInv
  <2> SUFFICES ASSUME HttpInit PROVE HttpInv
    OBVIOUS
  <2>1. HttpTyped
    BY DEF HttpInit, HttpTyped
  <2>2. LockHeld
    BY HttpApiAssumption DEF HttpInit, LockHeld, Holding
  <2>3. ~blind /\ snapshot = registry[Main] /\ ~Swapping
    BY DEF HttpInit, Swapping, Rooms
  <2> QED BY <2>1, <2>2, <2>3 DEF HttpInv, SnapshotFollows
<1>2. HttpInv /\ [HttpNext]_httpVars => HttpInv'
  <2> SUFFICES ASSUME HttpInv, [HttpNext]_httpVars PROVE HttpInv'
    OBVIOUS
  <2> QED BY HttpInvStep, HttpTypedStep DEF HttpInv
<1>3. HttpInv => SnapshotIsCurrent
  BY DEF HttpInv, SnapshotFollows, SnapshotIsCurrent, Registering, Pledge, Swapping
<1> QED BY <1>1, <1>2, <1>3, PTL DEF HttpSpec

-----------------------------------------------------------------------------
(* The parts of MCEdges: what is proved of one of them from here on is a   *)
(* theorem of all of them together.                                        *)

\* Of the parts at most one moves, and by a step of its own.
LEMMA EdgeSteps ==
  ASSUME [EdgesNext]_edgeVars
  PROVE  /\ [Term!TuiNext]_tuiVars /\ [Stream!StreamNext]_streamVars /\ [Feed!FeedNext]_feedVars
         /\ [Editor!EditorNext]_edVars /\ [HttpNext]_httpVars /\ [Start!BootNext]_bootVars
         /\ [Files!SetNext]_setVars
BY DEF EdgesNext, edgeVars

-----------------------------------------------------------------------------
(* The preflight.                                                          *)

Processes == {"daemon", "cli"}

\* What a preflight found says so when it found nothing critical, and so does
\* the log.
BootInv ==
  /\ DOMAIN bootFound = Processes
  /\ \A p \in Processes : bootFound[p] # <<>> =>
       (~Start!has_critical_failures(bootFound[p][1].failed) => bootFound[p][1].usable)
  /\ DOMAIN bootLog = {"verdict", "usable", "writes"}
  /\ bootLog.verdict = "pass" => bootLog.usable

\* check_api probes the head's endpoint, and the failure of any other agent's
\* is not needed to fail.
LEMMA NothingCriticalIsUsable ==
  ASSUME NEW w, ~Start!has_critical_failures(Start!Failures(w))
  PROVE  Start!Usable(w)
<1>1. Start!Failures(w) \cap Start!Critical = {}
  BY DEF Start!has_critical_failures
<1>2. w.llm # Off
  <2> SUFFICES ASSUME w.llm = Off PROVE FALSE
    OBVIOUS
  <2>1. <<"config", "head">> \in Start!check_config(w)
    BY DEF Start!check_config, Start!Agents
  <2> QED BY <1>1, <2>1 DEF Start!Failures, Start!Critical
<1>3. w.llm \in w.alive
  <2> SUFFICES ASSUME w.llm \notin w.alive PROVE FALSE
    OBVIOUS
  <2>1. <<"api", "head">> \in Start!check_api(w)
    BY <1>2 DEF Start!check_api, Start!probe_api, Start!AgentOrder
  <2> QED BY <1>1, <2>1 DEF Start!Failures, Start!Critical
<1>4. "store" \notin w.broken
  <2> SUFFICES ASSUME "store" \in w.broken PROVE FALSE
    OBVIOUS
  <2>1. <<"database", "store">> \in Start!check_databases(w)
    BY DEF Start!check_databases
  <2> QED BY <1>1, <2>1 DEF Start!Failures, Start!Critical
<1> QED BY <1>3, <1>4 DEF Start!Usable

LEMMA CheckKeeps ==
  ASSUME BootInv, NEW p \in Processes, NEW w, Start!Check(p, w)
  PROVE  BootInv'
<1>1. ~Start!has_critical_failures(Start!Failures(w)) => Start!Usable(w)
  BY NothingCriticalIsUsable
<1> DEFINE found == [failed |-> Start!Failures(w), usable |-> Start!Usable(w)]
<1>2. ~Start!has_critical_failures(found.failed) => found.usable
  BY <1>1
<1>3. bootFound' = [bootFound EXCEPT ![p] = <<found>>]
  BY DEF Start!Check
<1> HIDE DEF found
<1>4. \A q \in Processes : bootFound'[q] = IF q = p THEN <<found>> ELSE bootFound[q]
  BY <1>3 DEF BootInv
<1>5. DOMAIN bootFound' = Processes
  BY <1>3 DEF BootInv
<1>6. \A q \in Processes : bootFound'[q] # <<>> =>
       (~Start!has_critical_failures(bootFound'[q][1].failed) => bootFound'[q][1].usable)
  BY <1>2, <1>4 DEF BootInv
<1>7. DOMAIN bootLog' = {"verdict", "usable", "writes"} /\ bootLog'.verdict = "none"
  BY DEF Start!Check, BootInv
<1> QED BY <1>5, <1>6, <1>7 DEF BootInv, Start!has_critical_failures, Start!Critical

LEMMA FillLogKeeps ==
  ASSUME BootInv, NEW p \in Processes, Start!FillLog(p)
  PROVE  BootInv'
<1>1. \A q \in Processes : bootFound'[q] = IF q = p THEN <<>> ELSE bootFound[q]
  BY DEF Start!FillLog, BootInv
<1>2. DOMAIN bootFound' = Processes
  BY DEF Start!FillLog, BootInv
<1>3. DOMAIN bootLog' = {"verdict", "usable", "writes"}
  BY DEF Start!FillLog
<1>4. bootLog'.verdict = "pass" => bootLog'.usable
  BY DEF Start!FillLog, BootInv
<1> QED BY <1>1, <1>2, <1>3, <1>4 DEF BootInv, Start!has_critical_failures, Start!Critical

LEMMA BootStep ==
  ASSUME BootInv, [Start!BootNext]_bootVars
  PROVE  BootInv'
<1> USE DEF Start!has_critical_failures, Start!Critical
<1>1. ASSUME UNCHANGED <<bootFound, bootLog>> PROVE BootInv'
  BY <1>1 DEF BootInv
<1>2. ASSUME Start!Kill, UNCHANGED bootLog PROVE BootInv'
  BY <1>2 DEF BootInv, Start!Kill, Processes
<1>3. CASE UNCHANGED bootVars
  BY <1>1, <1>3 DEF bootVars
<1>4. CASE \/ Start!Launch \/ Start!LoadConfig \/ Start!OpenStores \/ Start!Bind \/ Start!Crash
           \/ Start!Change
  BY <1>1, <1>4 DEF Start!Launch, Start!LoadConfig, Start!OpenStores, Start!Bind, Start!Crash, Start!Change
<1>5. CASE Start!Install \/ Start!Start \/ Start!Poll \/ Start!GiveUp \/ Start!Use \/ Start!Doctor
  BY <1>1, <1>5 DEF Start!Install, Start!Start, Start!Poll, Start!GiveUp, Start!Use, Start!Doctor
<1>6. CASE Start!Uninstall
  BY <1>2, <1>6 DEF Start!Uninstall
<1>7. CASE Start!Stop
  BY <1>1, <1>2, <1>7 DEF Start!Stop
<1>8. CASE Start!WriteConfig
  <2>1. UNCHANGED bootFound
    BY <1>8 DEF Start!WriteConfig
  <2>2. bootLog' = bootLog \/ bootLog' = [bootLog EXCEPT !.verdict = "none", !.usable = FALSE]
    BY <1>8 DEF Start!WriteConfig
  <2>3. DOMAIN bootLog' = {"verdict", "usable", "writes"} /\ (bootLog'.verdict = "pass" => bootLog'.usable)
    <3>1. CASE bootLog' = bootLog
      BY <3>1 DEF BootInv
    <3>2. CASE bootLog' = [bootLog EXCEPT !.verdict = "none", !.usable = FALSE]
      <4>1. DOMAIN bootLog' = DOMAIN bootLog
        BY <3>2
      <4>2. bootLog'.verdict = "none"
        BY <3>2 DEF BootInv
      <4> QED BY <4>1, <4>2 DEF BootInv
    <3> QED BY <2>2, <3>1, <3>2
  <2> QED BY <2>1, <2>3 DEF BootInv
<1>9. CASE Start!DaemonCheck
  BY <1>9, CheckKeeps DEF Start!DaemonCheck, Processes
<1>10. CASE Start!CliCheck
  BY <1>10, CheckKeeps DEF Start!CliCheck, Processes
<1>11. CASE Start!DaemonWrite
  BY <1>11, FillLogKeeps DEF Start!DaemonWrite, Processes
<1>12. CASE Start!CliWrite
  BY <1>12, FillLogKeeps DEF Start!CliWrite, Processes
<1> QED
  BY <1>3, <1>4, <1>5, <1>6, <1>7, <1>8, <1>9, <1>10, <1>11, <1>12 DEF Start!BootNext

\* A log that says PASS was written when the agents could work: in whatever
\* order the preflights of the daemon and of the command line overlap, write,
\* or are killed between the two halves of their write, and whatever the world
\* does meanwhile (runtime/preflight.rs).
THEOREM PassedPreflightIsUsable == EdgesSpec => []PassMeansUsable
<1>1. EdgesInit => BootInv
  <2> SUFFICES ASSUME EdgesInit PROVE BootInv
    OBVIOUS
  <2>1. bootFound = [p \in Processes |-> <<>>]
    BY DEF EdgesInit, Start!BootInit, Processes
  <2>2. PICK v \in {"none", "pass"} : bootLog = [verdict |-> v, usable |-> v = "pass", writes |-> 0]
    BY DEF EdgesInit, Start!BootInit
  <2>3. DOMAIN bootLog = {"verdict", "usable", "writes"} /\ (bootLog.verdict = "pass" => bootLog.usable)
    BY <2>2
  <2> QED BY <2>1, <2>3 DEF BootInv
<1>2. BootInv /\ [EdgesNext]_edgeVars => BootInv'
  BY EdgeSteps, BootStep
<1>3. BootInv => PassMeansUsable
  BY DEF BootInv, PassMeansUsable, Start!PassMeansUsable
<1> QED BY <1>1, <1>2, <1>3, PTL DEF EdgesSpec

-----------------------------------------------------------------------------
(* The writers of the settings files.                                      *)

WriteOps == {"save_key", "resave_key", "remove_key", "use", "mount", "unmount", "config_set", "init",
             "set_trait", "unset_trait", "put_section", "put_config"}

Phases == {"read", "create", "fill", "rename", "swap"}

ConfigFiles == Configs \cup {Missing, Empty, Broken}
KeyFiles == KeySets \cup {Missing, Empty, Broken}

WriterRecords ==
  [plan : Seq(WriteOps \cup {"clean"}), p : Providers \cup {NoModel}, phase : Phases,
   content : ConfigFiles \cup KeyFiles]

Saving(w) == Files!Busy(w) /\ setWriter[w].phase \in {"create", "fill", "rename"}

SetTyped ==
  /\ setFile \in [config : ConfigFiles, keys : KeyFiles]
  /\ setTmp \in [config : ConfigFiles, keys : KeyFiles]
  /\ setWriter \in [Writers -> WriterRecords]
  /\ setCache \in Configs
  /\ setOverlap \in BOOLEAN
  /\ \A w \in Writers : /\ Files!Busy(w) /\ Files!Op(w) = "clean" => setWriter[w].phase = "read"
                        /\ Files!Busy(w) /\ setWriter[w].phase = "swap" => setWriter[w].content \in Configs
                        /\ Saving(w) => setWriter[w].content \in
                             IF Files!Target(Files!Op(w)) = "keys" THEN KeyFiles ELSE ConfigFiles
                        /\ Saving(w) /\ Files!Op(w) = "put_config" => setWriter[w].content \in Configs

\* One writer at a time in a file, what it writes is not nothing, and what it
\* is about to rename is written.
OneByOne ==
  /\ setFile.config # Empty /\ setFile.keys # Empty
  /\ \A w \in Writers : Saving(w) => setWriter[w].content # Empty
  /\ \A w \in Writers : Saving(w) /\ setWriter[w].phase = "rename" =>
                          setTmp[Files!Target(Files!Op(w))] # Empty
  /\ \A w, x \in Writers : Saving(w) /\ Saving(x) /\ w # x =>
                             Files!Target(Files!Op(w)) # Files!Target(Files!Op(x))

SettingsInv == SetTyped /\ (~setOverlap => OneByOne)

\* A load gives a configuration, and a set of keys, of whatever the file holds.
LEMMA LoadsAre ==
  ASSUME NEW c \in ConfigFiles, NEW k \in KeyFiles
  PROVE  Files!load(c) \in Configs /\ Files!load_api_keys(k) \in KeySets
<1>1. Files!DefaultConfig \in Configs
  BY DEF Files!DefaultConfig, Configs
<1>2. {} \in KeySets
  BY DEF KeySets
<1> QED BY <1>1, <1>2 DEF Files!load, Files!load_api_keys, Files!Unread, ConfigFiles, KeyFiles

\* What a write makes of the file it has read is of the kind of the file, and
\* is empty only when the file was.
LEMMA EditedIs ==
  ASSUME SetTyped, NEW op \in WriteOps, NEW p \in Providers \cup {NoModel}, Files!Edited(op, p) # Refuse
  PROVE  /\ Files!Edited(op, p) \in IF Files!Target(op) = "keys" THEN KeyFiles ELSE ConfigFiles
         /\ op = "put_config" => Files!Edited(op, p) \in Configs
         /\ setFile.config # Empty => Files!Edited(op, p) # Empty
<1> DEFINE c == setFile.config
           k == setFile.keys
<1>1. c \in ConfigFiles /\ k \in KeyFiles /\ setCache \in Configs
  BY DEF SetTyped
<1>2. Files!load(c) \in Configs /\ Files!load_api_keys(k) \in KeySets
  BY <1>1, LoadsAre
<1>3. ASSUME NEW f \in Configs
      PROVE  /\ \A on \in BOOLEAN : [f EXCEPT !.trait = on] \in Configs /\ [f EXCEPT !.mount = on] \in Configs
             /\ [f EXCEPT !.model = p] \in Configs
  BY DEF Configs
<1> HIDE DEF c, k
<1>4. CASE op \in {"save_key", "resave_key"}
  <2>1. Files!Edited(op, p) \in KeySets
    BY <1>2, <1>4 DEF Files!Edited, Files!save_api_key, KeySets, k
  <2> QED BY <1>4, <2>1, EdgesAssumption DEF Files!Target, KeyFiles
<1>5. CASE op = "remove_key"
  <2>1. Files!Edited(op, p) \in KeySets
    BY <1>2, <1>5 DEF Files!Edited, Files!remove_api_key, KeySets, k
  <2> QED BY <1>5, <2>1, EdgesAssumption DEF Files!Target, KeyFiles
<1>6. CASE op = "use"
  <2>1. Files!Edited(op, p) = c \/ (c = Files!load(c) /\ Files!Edited(op, p) = [c EXCEPT !.model = p])
    BY <1>1, <1>6 DEF Files!Edited, Files!update_config_model, Files!load, Files!DefaultConfig, c
  <2>2. Files!Edited(op, p) \in ConfigFiles /\ (c # Empty => Files!Edited(op, p) # Empty)
    BY <1>1, <1>2, <1>3, <2>1, EdgesAssumption DEF ConfigFiles
  <2> QED BY <1>6, <2>2 DEF Files!Target, c
<1>7. CASE op \in WriteOps \ {"save_key", "resave_key", "remove_key", "use"}
  <2>1. Files!Edited(op, p) \in Configs
    <3>1. CASE op = "mount"
      BY <1>2, <1>3, <3>1 DEF Files!Edited, Files!MountsAdd, c
    <3>2. CASE op = "unmount"
      <4>1. Files!load(c).mount /\ Files!Edited(op, p) = [c EXCEPT !.mount = FALSE]
        BY <3>2 DEF Files!Edited, Files!MountsRemove, c
      <4>2. c = Files!load(c)
        BY <4>1 DEF Files!load, Files!DefaultConfig
      <4> QED BY <1>2, <1>3, <4>1, <4>2
    <3>3. CASE op = "config_set"
      BY <1>2, <1>3, <3>3 DEF Files!Edited, Files!ConfigSet, c
    <3>4. CASE op = "init"
      <4>1. Files!Edited(op, p) = [Files!DefaultConfig EXCEPT !.model = p]
        BY <3>4 DEF Files!Edited, Files!generate_default_config
      <4>2. Files!DefaultConfig \in Configs
        BY DEF Files!DefaultConfig, Configs
      <4> QED BY <1>3, <4>1, <4>2
    <3>5. CASE op = "set_trait"
      BY <1>2, <1>3, <3>5 DEF Files!Edited, Files!TraitsSet, Files!mutate_config, c
    <3>6. CASE op = "unset_trait"
      BY <1>2, <1>3, <3>6 DEF Files!Edited, Files!TraitsUnset, Files!mutate_config, c
    <3>7. CASE op = "put_section"
      BY <1>1, <3>7 DEF Files!Edited
    <3>8. CASE op = "put_config"
      BY <1>1, <1>3, <3>8 DEF Files!Edited
    <3> QED BY <1>7, <3>1, <3>2, <3>3, <3>4, <3>5, <3>6, <3>7, <3>8 DEF WriteOps
  <2> QED BY <1>7, <2>1, EdgesAssumption DEF Files!Target, ConfigFiles
<1> QED BY <1>4, <1>5, <1>6, <1>7

LEMMA PlansAre ==
  ASSUME NEW plan \in Files!Plans \cup Files!InitPlans
  PROVE  plan \in Seq(WriteOps \cup {"clean"})
<1> DEFINE Ops == WriteOps \cup {"clean"}
<1> SUFFICES plan \in Seq(Ops)
  OBVIOUS
<1>1. \A a, b \in Ops : <<>> \in Seq(Ops) /\ <<a>> \in Seq(Ops) /\ <<a, b>> \in Seq(Ops)
  OBVIOUS
<1>2. \A s, t \in Seq(Ops) : s \o t \in Seq(Ops)
  OBVIOUS
<1>3. \A op \in WriteOps : op \in Ops
  OBVIOUS
<1>4. "clean" \in Ops
  OBVIOUS
<1>5. "save_key" \in WriteOps /\ "resave_key" \in WriteOps /\ "use" \in WriteOps /\ "init" \in WriteOps
  BY DEF WriteOps
<1>6. \A op \in {"remove_key", "use", "mount", "unmount", "config_set", "set_trait", "unset_trait",
                 "put_config"} : op \in WriteOps
  BY DEF WriteOps
<1> HIDE DEF Ops
<1>7. CASE plan \in Files!Plans
  <2>1. plan = <<"save_key">> \/ plan = <<"save_key", "use">>
        \/ plan \in {<<op>> : op \in {"remove_key", "use", "mount", "unmount", "config_set", "set_trait",
                                     "unset_trait", "put_config"}}
    BY <1>7 DEF Files!Plans, Files!Login, Files!Add
  <2> QED BY <1>1, <1>3, <1>5, <1>6, <2>1
<1>8. CASE plan = Files!SyncKeys
  BY <1>1, <1>3, <1>5, <1>8 DEF Files!SyncKeys
<1>9. CASE plan \in {clean \o <<"init">> : clean \in {<<>>, <<"clean">>}}
  <2>1. PICK clean \in {<<>>, <<"clean">>} : plan = clean \o <<"init">>
    BY <1>9
  <2>2. clean \in Seq(Ops)
    BY <1>1, <1>4
  <2>3. <<"init">> \in Seq(Ops)
    BY <1>1, <1>3, <1>5
  <2> QED BY <1>2, <2>1, <2>2, <2>3
<1>10. CASE \E key \in Files!PromptKey, clean \in {<<>>, <<"clean">>} :
               plan = key \o clean \o <<"resave_key", "init">>
  <2>1. PICK key \in Files!PromptKey, clean \in {<<>>, <<"clean">>} :
             plan = key \o clean \o <<"resave_key", "init">>
    BY <1>10
  <2>2. clean \in Seq(Ops)
    BY <1>1, <1>4
  <2>3. <<"resave_key", "init">> \in Seq(Ops)
    BY <1>1, <1>3, <1>5
  <2>4. key \in Seq(Ops)
    BY <1>1, <1>3, <1>5 DEF Files!PromptKey
  <2>5. key \o clean \in Seq(Ops)
    BY <1>2, <2>2, <2>4
  <2> QED BY <1>2, <2>1, <2>3, <2>5
<1>11. \/ plan \in Files!Plans
       \/ plan = Files!SyncKeys
       \/ plan \in {clean \o <<"init">> : clean \in {<<>>, <<"clean">>}}
       \/ \E key \in Files!PromptKey, clean \in {<<>>, <<"clean">>} :
            plan = key \o clean \o <<"resave_key", "init">>
  BY DEF Files!InitPlans
<1> QED BY <1>7, <1>8, <1>9, <1>10, <1>11

LEMMA RestingIs == Files!Resting \in WriterRecords /\ Files!Resting.phase = "read" /\ Files!Resting.plan = <<>>
<1>1. Missing \in ConfigFiles
  BY DEF ConfigFiles
<1>2. <<>> \in Seq(WriteOps \cup {"clean"})
  OBVIOUS
<1> QED BY <1>1, <1>2 DEF Files!Resting, WriterRecords, Phases

\* A writer that stays as it is stays where it is.
LEMMA WriterStays ==
  ASSUME NEW x, setWriter'[x] = setWriter[x]
  PROVE  /\ Saving(x)' <=> Saving(x)
         /\ Files!Busy(x)' <=> Files!Busy(x)
         /\ Files!Op(x)' = Files!Op(x)
         /\ Files!Target(Files!Op(x))' = Files!Target(Files!Op(x))
<1>1. Files!Busy(x)' <=> Files!Busy(x)
  BY DEF Files!Busy
<1>2. Saving(x)' <=> Saving(x)
  BY <1>1 DEF Saving
<1>3. Files!Op(x)' = Files!Op(x)
  BY DEF Files!Op
<1>4. Files!Target(Files!Op(x))' = Files!Target(Files!Op(x))
  BY <1>3 DEF Files!Target
<1> QED BY <1>1, <1>2, <1>3, <1>4

\* A step after which every writer is as it was, or at rest, or at the start of
\* a plan or of a further write of it.
LEMMA WritersStart ==
  ASSUME SettingsInv,
         setWriter' \in [Writers -> WriterRecords],
         \A x \in Writers : setWriter'[x] # setWriter[x] => setWriter'[x].phase = "read",
         setFile' \in [config : ConfigFiles, keys : KeyFiles],
         setTmp' \in [config : ConfigFiles, keys : KeyFiles],
         setCache' \in Configs,
         setOverlap' \in BOOLEAN, ~setOverlap' => ~setOverlap,
         ~setOverlap' => /\ setFile'.config # Empty /\ setFile'.keys # Empty
                         /\ \A x \in Writers :
                              Saving(x) /\ setWriter[x].phase = "rename" /\ setWriter'[x] = setWriter[x] =>
                                setTmp'[Files!Target(Files!Op(x))] # Empty
  PROVE  SettingsInv'
<1>1. ASSUME NEW x \in Writers, setWriter'[x].phase = "read"
      PROVE  ~Saving(x)' /\ (setWriter[x].phase # "swap")'
  BY <1>1 DEF Saving
<1>2. SetTyped'
  <2>1. ASSUME NEW x \in Writers
        PROVE  /\ Files!Busy(x) /\ Files!Op(x) = "clean" => setWriter[x].phase = "read"
               /\ Files!Busy(x) /\ setWriter[x].phase = "swap" => setWriter[x].content \in Configs
               /\ Saving(x) => setWriter[x].content \in
                    IF Files!Target(Files!Op(x)) = "keys" THEN KeyFiles ELSE ConfigFiles
               /\ Saving(x) /\ Files!Op(x) = "put_config" => setWriter[x].content \in Configs
    BY DEF SettingsInv, SetTyped
  <2>2. ASSUME NEW x \in Writers
        PROVE  (/\ Files!Busy(x) /\ Files!Op(x) = "clean" => setWriter[x].phase = "read"
                /\ Files!Busy(x) /\ setWriter[x].phase = "swap" => setWriter[x].content \in Configs
                /\ Saving(x) => setWriter[x].content \in
                     IF Files!Target(Files!Op(x)) = "keys" THEN KeyFiles ELSE ConfigFiles
                /\ Saving(x) /\ Files!Op(x) = "put_config" => setWriter[x].content \in Configs)'
    <3>1. CASE setWriter'[x] = setWriter[x]
      BY <2>1, <3>1, WriterStays
    <3>2. CASE setWriter'[x].phase = "read"
      BY <1>1, <3>2
    <3> QED BY <3>1, <3>2
  <2> QED BY <2>2 DEF SetTyped
<1>3. ASSUME ~setOverlap' PROVE OneByOne'
  <2>1. OneByOne
    BY <1>3 DEF SettingsInv
  <2>2. ASSUME NEW x \in Writers, Saving(x)'
        PROVE  /\ setWriter'[x] = setWriter[x] /\ Saving(x)
               /\ Files!Target(Files!Op(x))' = Files!Target(Files!Op(x))
    BY <1>1, <2>2, WriterStays
  <2> QED BY <1>3, <2>1, <2>2 DEF OneByOne
<1> QED BY <1>2, <1>3 DEF SettingsInv

\* A step of a writer on its way through a file: what it writes stays, and so
\* do the others.
LEMMA WriterWrites ==
  ASSUME SettingsInv, NEW w \in Writers, Saving(w), NEW new \in {"fill", "rename"},
         setWriter' = [setWriter EXCEPT ![w].phase = new],
         setFile' \in [config : ConfigFiles, keys : KeyFiles],
         setTmp' \in [config : ConfigFiles, keys : KeyFiles],
         UNCHANGED <<setCache, setOverlap>>,
         ~setOverlap => /\ setFile'.config # Empty /\ setFile'.keys # Empty
                        /\ new = "rename" => setTmp'[Files!Target(Files!Op(w))] # Empty,
         \A f \in {"config", "keys"} : f # Files!Target(Files!Op(w)) => setTmp'[f] = setTmp[f]
  PROVE  SettingsInv'
<1>1. \A x \in Writers \ {w} : setWriter'[x] = setWriter[x]
  BY DEF SettingsInv, SetTyped
<1>2. /\ setWriter'[w].plan = setWriter[w].plan /\ setWriter'[w].content = setWriter[w].content
      /\ setWriter'[w].phase = new /\ setWriter' \in [Writers -> WriterRecords]
  <2>1. setWriter \in [Writers -> WriterRecords]
    BY DEF SettingsInv, SetTyped
  <2>2. setWriter' = [setWriter EXCEPT ![w] = [setWriter[w] EXCEPT !.phase = new]]
    BY <2>1
  <2>3. new \in Phases
    BY DEF Phases
  <2> DEFINE old == setWriter[w]
             rec == [old EXCEPT !.phase = new]
  <2>4. old \in WriterRecords
    BY <2>1
  <2>5. rec \in WriterRecords /\ rec.plan = old.plan /\ rec.content = old.content /\ rec.phase = new
    BY <2>3, <2>4 DEF WriterRecords
  <2>6. setWriter' = [setWriter EXCEPT ![w] = rec]
    BY <2>2
  <2> HIDE DEF rec
  <2> QED BY <2>1, <2>5, <2>6
<1>3. Saving(w)' /\ Files!Busy(w)' /\ Files!Op(w)' = Files!Op(w)
      /\ Files!Target(Files!Op(w))' = Files!Target(Files!Op(w))
  <2>1. Files!Busy(w)' /\ Files!Op(w)' = Files!Op(w)
    BY <1>2 DEF Saving, Files!Busy, Files!Op
  <2>2. Files!Target(Files!Op(w))' = Files!Target(Files!Op(w))
    BY <2>1 DEF Files!Target
  <2> QED BY <1>2, <2>1, <2>2 DEF Saving
<1>4. ASSUME NEW x \in Writers
      PROVE  /\ Saving(x)' <=> Saving(x)
             /\ Files!Busy(x)' <=> Files!Busy(x)
             /\ Files!Op(x)' = Files!Op(x)
             /\ Files!Target(Files!Op(x))' = Files!Target(Files!Op(x))
  BY <1>1, <1>3, WriterStays DEF Saving
<1>5. SetTyped'
  <2>1. ASSUME NEW x \in Writers
        PROVE  (/\ Files!Busy(x) /\ Files!Op(x) = "clean" => setWriter[x].phase = "read"
                /\ Files!Busy(x) /\ setWriter[x].phase = "swap" => setWriter[x].content \in Configs
                /\ Saving(x) => setWriter[x].content \in
                     IF Files!Target(Files!Op(x)) = "keys" THEN KeyFiles ELSE ConfigFiles
                /\ Saving(x) /\ Files!Op(x) = "put_config" => setWriter[x].content \in Configs)'
    <3>1. CASE x = w
      BY <1>2, <1>3, <3>1 DEF SettingsInv, SetTyped, Saving
    <3>2. CASE x # w
      BY <1>1, <1>4, <3>2 DEF SettingsInv, SetTyped
    <3> QED BY <3>1, <3>2
  <2> QED BY <1>2, <2>1 DEF SettingsInv, SetTyped
<1>6. ASSUME ~setOverlap' PROVE OneByOne'
  <2>1. OneByOne
    BY <1>6 DEF SettingsInv
  <2>2. \A x \in Writers : Files!Target(Files!Op(x)) \in {"config", "keys"}
    BY DEF Files!Target
  <2>3. ASSUME NEW x \in Writers, Saving(x)', setWriter'[x].phase = "rename"
        PROVE  (setTmp[Files!Target(Files!Op(x))])' # Empty
    <3>1. Saving(x)
      BY <1>4, <2>3
    <3>2. setTmp'[Files!Target(Files!Op(x))] # Empty
      BY <1>1, <1>2, <1>6, <2>1, <2>2, <2>3, <3>1 DEF OneByOne
    <3> QED BY <1>4, <3>2
  <2>4. ASSUME NEW x \in Writers, Saving(x)'
        PROVE  setWriter'[x].content # Empty
    BY <1>1, <1>2, <1>4, <2>1, <2>4 DEF OneByOne
  <2>5. ASSUME NEW x \in Writers, NEW y \in Writers, Saving(x)', Saving(y)', x # y
        PROVE  (Files!Target(Files!Op(x)) # Files!Target(Files!Op(y)))'
    <3>1. Saving(x) /\ Saving(y)
      BY <1>4, <2>5
    <3> QED BY <1>4, <2>1, <2>5, <3>1 DEF OneByOne
  <2> QED BY <1>4, <1>6, <2>3, <2>4, <2>5 DEF OneByOne
<1> QED BY <1>5, <1>6 DEF SettingsInv

LEMMA ReadKeeps ==
  ASSUME SettingsInv, NEW w \in Writers, Files!Read(w)
  PROVE  SettingsInv'
<1> DEFINE op == Files!Op(w)
           content == Files!Edited(op, setWriter[w].p)
           r == [setWriter[w] EXCEPT !.phase = "create", !.content = content]
<1>1. op \in WriteOps /\ setWriter[w].p \in Providers \cup {NoModel} /\ setWriter[w] \in WriterRecords
  BY DEF Files!Read, Files!Busy, Files!Op, SettingsInv, SetTyped, WriterRecords
<1>2. setOverlap' \in BOOLEAN /\ (~setOverlap' => ~setOverlap)
      /\ (~setOverlap' => \A x \in Writers \ {w} : ~Files!Writing(x, Files!Target(op)))
  BY DEF Files!Read, SettingsInv, SetTyped
<1> HIDE DEF op
<1>3. CASE content = Refuse
  <2>1. setWriter' = [setWriter EXCEPT ![w] = Files!Resting]
    BY <1>3 DEF Files!Read, op
  <2>2. \A x \in Writers : setWriter'[x] = IF x = w THEN Files!Resting ELSE setWriter[x]
    BY <2>1 DEF SettingsInv, SetTyped
  <2>3. setWriter' \in [Writers -> WriterRecords]
    BY <2>1, RestingIs DEF SettingsInv, SetTyped
  <2>4. \A x \in Writers : setWriter'[x] # setWriter[x] => setWriter'[x].phase = "read"
    BY <2>2, RestingIs
  <2>5. UNCHANGED <<setFile, setTmp, setCache>>
    BY DEF Files!Read
  <2>6. ~setOverlap' => OneByOne
    BY <1>2 DEF SettingsInv
  <2> QED BY <1>2, <2>3, <2>4, <2>5, <2>6, WritersStart DEF SettingsInv, SetTyped, OneByOne
<1>4. CASE content # Refuse
  <2>1. setWriter' = [setWriter EXCEPT ![w] = r]
    BY <1>4 DEF Files!Read, op
  <2>2. /\ content \in IF Files!Target(op) = "keys" THEN KeyFiles ELSE ConfigFiles
        /\ op = "put_config" => content \in Configs
        /\ setFile.config # Empty => content # Empty
    BY <1>1, <1>4, EditedIs DEF SettingsInv
  <2> HIDE DEF content
  <2>3. r \in WriterRecords
    BY <1>1, <2>2 DEF WriterRecords, Phases
  <2>4. r.phase = "create" /\ r.content = content /\ r.plan = setWriter[w].plan
    BY <1>1 DEF WriterRecords
  <2>5. \A x \in Writers : setWriter'[x] = IF x = w THEN r ELSE setWriter[x]
    BY <2>1 DEF SettingsInv, SetTyped
  <2>6. setWriter' \in [Writers -> WriterRecords]
    BY <2>1, <2>3 DEF SettingsInv, SetTyped
  <2>7. /\ setWriter'[w].phase = "create" /\ setWriter'[w].content = content
        /\ setWriter'[w].plan = setWriter[w].plan
    BY <2>4, <2>5
  <2>8. Saving(w)' /\ Files!Op(w)' = op
    BY <2>7 DEF Files!Read, Files!Busy, Files!Op, Saving, op
  <2>9. Files!Target(Files!Op(w))' = Files!Target(op)
    BY <2>8 DEF Files!Target
  <2>10. UNCHANGED <<setFile, setTmp, setCache>>
    BY DEF Files!Read
  <2>11. op # "clean"
    BY DEF Files!Read, op
  <2>12. SetTyped'
    <3>1. ASSUME NEW x \in Writers
          PROVE  (/\ Files!Busy(x) /\ Files!Op(x) = "clean" => setWriter[x].phase = "read"
                  /\ Files!Busy(x) /\ setWriter[x].phase = "swap" => setWriter[x].content \in Configs
                  /\ Saving(x) => setWriter[x].content \in
                       IF Files!Target(Files!Op(x)) = "keys" THEN KeyFiles ELSE ConfigFiles
                  /\ Saving(x) /\ Files!Op(x) = "put_config" => setWriter[x].content \in Configs)'
      <4>1. CASE x = w
        BY <2>2, <2>7, <2>8, <2>9, <2>11, <4>1
      <4>2. CASE x # w
        BY <2>5, <4>2, WriterStays DEF SettingsInv, SetTyped
      <4> QED BY <4>1, <4>2
    <3> QED BY <1>2, <2>6, <2>10, <3>1 DEF SettingsInv, SetTyped
  <2>13. ASSUME ~setOverlap' PROVE OneByOne'
    <3>1. OneByOne
      BY <1>2, <2>13 DEF SettingsInv
    <3>2. ASSUME NEW x \in Writers \ {w}
          PROVE  /\ setWriter'[x] = setWriter[x] /\ (Saving(x)' <=> Saving(x))
                 /\ Files!Target(Files!Op(x))' = Files!Target(Files!Op(x))
      BY <2>5, WriterStays
    <3>3. ASSUME NEW x \in Writers \ {w}, Saving(x)
          PROVE  Files!Target(Files!Op(x)) # Files!Target(op)
      BY <1>2, <2>13, <3>3 DEF Saving, Files!Writing
    <3>4. setFile'.config # Empty /\ setFile'.keys # Empty
      BY <2>10, <3>1 DEF OneByOne
    <3>5. ASSUME NEW x \in Writers, Saving(x)'
          PROVE  setWriter'[x].content # Empty
      BY <2>2, <2>7, <3>1, <3>2, <3>5 DEF OneByOne
    <3>6. ASSUME NEW x \in Writers, Saving(x)', setWriter'[x].phase = "rename"
          PROVE  (setTmp[Files!Target(Files!Op(x))])' # Empty
      <4>1. x # w
        BY <2>7, <3>6
      <4> QED BY <2>10, <3>1, <3>2, <3>6, <4>1 DEF OneByOne
    <3>7. ASSUME NEW x \in Writers, NEW y \in Writers, Saving(x)', Saving(y)', x # y
          PROVE  (Files!Target(Files!Op(x)) # Files!Target(Files!Op(y)))'
      <4>1. CASE x = w
        BY <2>9, <3>2, <3>3, <3>7, <4>1
      <4>2. CASE y = w
        BY <2>9, <3>2, <3>3, <3>7, <4>2
      <4>3. CASE x # w /\ y # w
        BY <3>1, <3>2, <3>7, <4>3 DEF OneByOne
      <4> QED BY <4>1, <4>2, <4>3
    <3> QED BY <3>4, <3>5, <3>6, <3>7 DEF OneByOne
  <2> QED BY <2>12, <2>13 DEF SettingsInv
<1> QED BY <1>3, <1>4

\* A step that leaves the files alone, and after which every writer is as it
\* was, or at rest, or at the start of a plan.
LEMMA PlansChange ==
  ASSUME SettingsInv, UNCHANGED <<setFile, setTmp, setOverlap>>, setCache' \in Configs,
         setWriter' \in [Writers -> WriterRecords],
         \A x \in Writers : setWriter'[x] # setWriter[x] => setWriter'[x].phase = "read"
  PROVE  SettingsInv'
<1>1. ~setOverlap => OneByOne
  BY DEF SettingsInv
<1> QED BY <1>1, WritersStart DEF SettingsInv, SetTyped, OneByOne

LEMMA CleanKeeps ==
  ASSUME SettingsInv, NEW w \in Writers, Files!Clean(w)
  PROVE  SettingsInv'
<1> DEFINE r == [setWriter[w] EXCEPT !.plan = Tail(@)]
<1>1. setWriter[w] \in WriterRecords /\ setWriter[w].phase = "read" /\ setWriter[w].plan # <<>>
  BY DEF Files!Clean, Files!Busy, SettingsInv, SetTyped
<1>2. r \in WriterRecords /\ r.phase = "read"
  <2>1. Tail(setWriter[w].plan) \in Seq(WriteOps \cup {"clean"})
    BY <1>1 DEF WriterRecords
  <2> QED BY <1>1, <2>1 DEF WriterRecords
<1>3. DOMAIN setWriter' = Writers /\ setWriter'[w] = r
  BY DEF Files!Clean
<1> HIDE DEF r
<1>4. ASSUME NEW x \in Writers \ {w}
      PROVE  setWriter'[x] = IF setWriter[x].phase = "fill" THEN [setWriter[x] EXCEPT !.phase = "rename"]
                             ELSE setWriter[x]
  BY DEF Files!Clean
<1>5. ASSUME NEW x \in Writers \ {w}
      PROVE  /\ setWriter'[x] \in WriterRecords
             /\ setWriter'[x].plan = setWriter[x].plan /\ setWriter'[x].content = setWriter[x].content
             /\ \/ setWriter'[x].phase = setWriter[x].phase
                \/ setWriter[x].phase = "fill" /\ setWriter'[x].phase = "rename"
  <2>1. setWriter[x] \in WriterRecords
    BY DEF SettingsInv, SetTyped
  <2> QED BY <1>4, <2>1 DEF WriterRecords, Phases
<1>6. setWriter' \in [Writers -> WriterRecords]
  <2>1. \A x \in Writers : setWriter'[x] \in WriterRecords
    BY <1>2, <1>3, <1>5
  <2>2. setWriter' = [x \in Writers |-> setWriter'[x]]
    BY DEF Files!Clean
  <2> QED BY <2>1, <2>2
<1>7. /\ setFile' = [config |-> Missing, keys |-> Missing] /\ setTmp' = [config |-> Missing, keys |-> Missing]
      /\ setFile' \in [config : ConfigFiles, keys : KeyFiles]
      /\ setTmp' \in [config : ConfigFiles, keys : KeyFiles]
  BY DEF Files!Clean, ConfigFiles, KeyFiles
<1>8. UNCHANGED setCache /\ setOverlap' \in BOOLEAN
      /\ (~setOverlap' => \A x \in Writers \ {w} : ~Files!Busy(x))
  BY DEF Files!Clean, SettingsInv, SetTyped
<1>9. ASSUME NEW x \in Writers \ {w}
      PROVE  /\ Files!Busy(x)' <=> Files!Busy(x)
             /\ Files!Op(x)' = Files!Op(x)
             /\ Files!Target(Files!Op(x))' = Files!Target(Files!Op(x))
             /\ Saving(x)' <=> Saving(x)
  <2>1. (Files!Busy(x)' <=> Files!Busy(x)) /\ Files!Op(x)' = Files!Op(x)
    BY <1>5 DEF Files!Busy, Files!Op
  <2>2. Files!Target(Files!Op(x))' = Files!Target(Files!Op(x))
    BY <2>1 DEF Files!Target
  <2>3. Saving(x)' <=> Saving(x)
    BY <1>5, <2>1 DEF Saving
  <2> QED BY <2>1, <2>2, <2>3
<1>10. ~Saving(w)' /\ setWriter'[w].phase = "read"
  BY <1>2, <1>3 DEF Saving
<1>11. ASSUME NEW x \in Writers
       PROVE  (/\ Files!Busy(x) /\ Files!Op(x) = "clean" => setWriter[x].phase = "read"
               /\ Files!Busy(x) /\ setWriter[x].phase = "swap" => setWriter[x].content \in Configs
               /\ Saving(x) => setWriter[x].content \in
                    IF Files!Target(Files!Op(x)) = "keys" THEN KeyFiles ELSE ConfigFiles
               /\ Saving(x) /\ Files!Op(x) = "put_config" => setWriter[x].content \in Configs)'
  <2>1. CASE x = w
    BY <1>10, <2>1
  <2>2. CASE x # w
    BY <1>5, <1>9, <2>2 DEF SettingsInv, SetTyped
  <2> QED BY <2>1, <2>2
<1>12. SetTyped'
  BY <1>6, <1>7, <1>8, <1>11 DEF SettingsInv, SetTyped
<1>13. ASSUME ~setOverlap' PROVE OneByOne'
  <2>1. \A x \in Writers : ~Saving(x)'
    BY <1>8, <1>9, <1>10, <1>13 DEF Saving
  <2> QED BY <1>7, <2>1, EdgesAssumption DEF OneByOne
<1> QED BY <1>12, <1>13 DEF SettingsInv

LEMMA CreateKeeps ==
  ASSUME SettingsInv, NEW w \in Writers, Files!Create(w)
  PROVE  SettingsInv'
<1>1. Saving(w)
  BY DEF Files!Create, Saving
<1>2. setTmp' = [setTmp EXCEPT ![Files!Target(Files!Op(w))] = Empty]
  BY DEF Files!Create
<1>3. Files!Target(Files!Op(w)) \in {"config", "keys"}
  BY DEF Files!Target
<1>4. setTmp' \in [config : ConfigFiles, keys : KeyFiles]
  BY <1>2, <1>3 DEF SettingsInv, SetTyped, ConfigFiles, KeyFiles
<1>5. \A f \in {"config", "keys"} : f # Files!Target(Files!Op(w)) => setTmp'[f] = setTmp[f]
  BY <1>2, <1>3 DEF SettingsInv, SetTyped
<1>6. setWriter' = [setWriter EXCEPT ![w].phase = "fill"] /\ UNCHANGED <<setFile, setCache, setOverlap>>
  BY DEF Files!Create
<1>7. ~setOverlap => setFile'.config # Empty /\ setFile'.keys # Empty
  BY <1>6 DEF SettingsInv, OneByOne
<1> QED BY <1>1, <1>4, <1>5, <1>6, <1>7, WriterWrites DEF SettingsInv, SetTyped

LEMMA FillKeeps ==
  ASSUME SettingsInv, NEW w \in Writers, Files!Fill(w)
  PROVE  SettingsInv'
<1> DEFINE t == Files!Target(Files!Op(w))
           content == setWriter[w].content
<1>1. Saving(w)
  BY DEF Files!Fill, Saving
<1>2. t \in {"config", "keys"}
  BY DEF Files!Target
<1>3. content \in IF t = "keys" THEN KeyFiles ELSE ConfigFiles
  BY <1>1 DEF SettingsInv, SetTyped
<1>4. ~setOverlap => content # Empty
  BY <1>1 DEF SettingsInv, OneByOne
<1>5. \/ setTmp[t] = Missing /\ setFile' = [setFile EXCEPT ![t] = content] /\ setTmp' = setTmp
      \/ setFile' = setFile /\ setTmp' = [setTmp EXCEPT ![t] = content]
  BY DEF Files!Fill
<1>6. setWriter' = [setWriter EXCEPT ![w].phase = "rename"] /\ UNCHANGED <<setCache, setOverlap>>
  BY DEF Files!Fill
<1> HIDE DEF t, content
<1>7. setFile' \in [config : ConfigFiles, keys : KeyFiles] /\ setTmp' \in [config : ConfigFiles, keys : KeyFiles]
  BY <1>2, <1>3, <1>5 DEF SettingsInv, SetTyped
<1>8. ~setOverlap => setFile'.config # Empty /\ setFile'.keys # Empty /\ setTmp'[t] # Empty
  BY <1>2, <1>4, <1>5, EdgesAssumption DEF SettingsInv, SetTyped, OneByOne
<1>9. \A f \in {"config", "keys"} : f # t => setTmp'[f] = setTmp[f]
  BY <1>2, <1>5 DEF SettingsInv, SetTyped
<1> QED BY <1>1, <1>6, <1>7, <1>8, <1>9, WriterWrites DEF t

LEMMA RenameKeeps ==
  ASSUME SettingsInv, NEW w \in Writers, Files!Rename(w)
  PROVE  SettingsInv'
<1> DEFINE t == Files!Target(Files!Op(w))
           next == [setWriter[w] EXCEPT !.plan = Tail(setWriter[w].plan), !.phase = "read", !.content = Missing]
           swap == [setWriter[w] EXCEPT !.phase = "swap"]
<1>1. Saving(w) /\ setWriter[w].phase = "rename" /\ setWriter[w].plan # <<>>
  BY DEF Files!Rename, Files!Busy, Saving
<1>2. t \in {"config", "keys"}
  BY DEF Files!Target
<1>3. \/ setFile' = setFile /\ setTmp' = setTmp
      \/ setFile' = [setFile EXCEPT ![t] = setTmp[t]] /\ setTmp' = [setTmp EXCEPT ![t] = Missing]
  BY DEF Files!Rename
<1>4. UNCHANGED <<setCache, setOverlap>>
  BY DEF Files!Rename
<1>5. ~setOverlap => setTmp[t] # Empty
  BY <1>1 DEF SettingsInv, OneByOne
<1>6. PICK r \in {Files!Resting, next, swap} :
        /\ setWriter' = [setWriter EXCEPT ![w] = r]
        /\ r = swap => Files!Op(w) = "put_config" \/ swap \in {Files!Resting, next}
  <2>1. CASE setTmp[t] # Missing /\ Files!Op(w) = "put_config"
    <3>1. setWriter' = [setWriter EXCEPT ![w] = swap]
      BY <2>1 DEF Files!Rename
    <3> QED BY <2>1, <3>1
  <2>2. CASE ~(setTmp[t] # Missing /\ Files!Op(w) = "put_config")
    <3>1. CASE setTmp[t] = Missing \/ Len(setWriter[w].plan) = 1
      <4>1. setWriter' = [setWriter EXCEPT ![w] = Files!Resting]
        BY <2>2, <3>1 DEF Files!Rename
      <4> HIDE DEF next, swap
      <4> QED BY <4>1
    <3>2. CASE ~(setTmp[t] = Missing \/ Len(setWriter[w].plan) = 1)
      <4>1. setWriter' = [setWriter EXCEPT ![w] = next]
        BY <2>2, <3>2 DEF Files!Rename
      <4> HIDE DEF next, swap
      <4> QED BY <4>1
    <3> QED BY <3>1, <3>2
  <2> QED BY <2>1, <2>2
<1> HIDE DEF t
<1>7. setFile' \in [config : ConfigFiles, keys : KeyFiles] /\ setTmp' \in [config : ConfigFiles, keys : KeyFiles]
  BY <1>2, <1>3 DEF SettingsInv, SetTyped, ConfigFiles, KeyFiles
<1>8. ~setOverlap => setFile'.config # Empty /\ setFile'.keys # Empty
  BY <1>2, <1>3, <1>5 DEF SettingsInv, SetTyped, OneByOne
<1>9. ASSUME NEW x \in Writers, Saving(x), setWriter[x].phase = "rename", x # w, ~setOverlap
      PROVE  setTmp'[Files!Target(Files!Op(x))] # Empty
  <2>1. Files!Target(Files!Op(x)) # t /\ setTmp[Files!Target(Files!Op(x))] # Empty
    BY <1>1, <1>9 DEF SettingsInv, OneByOne, t
  <2>2. Files!Target(Files!Op(x)) \in {"config", "keys"}
    BY DEF Files!Target
  <2> QED BY <1>2, <1>3, <2>1, <2>2 DEF SettingsInv, SetTyped
<1>10. setWriter[w] \in WriterRecords
  BY DEF SettingsInv, SetTyped
<1>11. next \in WriterRecords /\ next.phase = "read"
  <2>1. Tail(setWriter[w].plan) \in Seq(WriteOps \cup {"clean"})
    BY <1>1, <1>10 DEF WriterRecords
  <2>2. Missing \in ConfigFiles
    BY DEF ConfigFiles
  <2> QED BY <1>10, <2>1, <2>2 DEF WriterRecords, Phases
<1>12. swap \in WriterRecords /\ swap.phase = "swap" /\ swap.plan = setWriter[w].plan
       /\ swap.content = setWriter[w].content
  BY <1>10 DEF WriterRecords, Phases
<1> HIDE DEF next, swap
<1>13. \A x \in Writers : setWriter'[x] = IF x = w THEN r ELSE setWriter[x]
  BY <1>6 DEF SettingsInv, SetTyped
<1>14. CASE r \in {Files!Resting, next}
  <2>1. r.phase = "read" /\ r \in WriterRecords
    BY <1>11, <1>14, RestingIs
  <2>2. setWriter' \in [Writers -> WriterRecords]
    BY <1>6, <2>1 DEF SettingsInv, SetTyped
  <2>3. \A x \in Writers : setWriter'[x] # setWriter[x] => x = w /\ setWriter'[x].phase = "read"
    BY <1>13, <2>1
  <2>4. setWriter'[w] # setWriter[w]
    BY <1>1, <1>13, <2>1
  <2>5. setCache' \in Configs /\ setOverlap' \in BOOLEAN
    BY <1>4 DEF SettingsInv, SetTyped
  <2> QED BY <1>4, <1>7, <1>8, <1>9, <2>2, <2>3, <2>4, <2>5, WritersStart
<1>15. CASE r = swap /\ swap \notin {Files!Resting, next}
  <2>1. Files!Op(w) = "put_config"
    BY <1>6, <1>15
  <2>2. setWriter' \in [Writers -> WriterRecords]
    BY <1>6, <1>12, <1>15 DEF SettingsInv, SetTyped
  <2>3. /\ setWriter'[w].phase = "swap" /\ setWriter'[w].plan = setWriter[w].plan
        /\ setWriter'[w].content = setWriter[w].content
    BY <1>12, <1>13, <1>15
  <2>4. ~Saving(w)' /\ Files!Op(w)' = "put_config"
    BY <2>1, <2>3 DEF Saving, Files!Op
  <2>5. setWriter[w].content \in Configs
    BY <1>1, <2>1 DEF SettingsInv, SetTyped
  <2>6. ASSUME NEW x \in Writers
        PROVE  (/\ Files!Busy(x) /\ Files!Op(x) = "clean" => setWriter[x].phase = "read"
                /\ Files!Busy(x) /\ setWriter[x].phase = "swap" => setWriter[x].content \in Configs
                /\ Saving(x) => setWriter[x].content \in
                     IF Files!Target(Files!Op(x)) = "keys" THEN KeyFiles ELSE ConfigFiles
                /\ Saving(x) /\ Files!Op(x) = "put_config" => setWriter[x].content \in Configs)'
    <3>1. CASE x = w
      BY <2>3, <2>4, <2>5, <3>1
    <3>2. CASE x # w
      BY <1>13, <3>2, WriterStays DEF SettingsInv, SetTyped
    <3> QED BY <3>1, <3>2
  <2>7. SetTyped'
    BY <1>4, <1>7, <2>2, <2>6 DEF SettingsInv, SetTyped
  <2>8. ASSUME ~setOverlap' PROVE OneByOne'
    <3>1. OneByOne /\ ~setOverlap
      BY <1>4, <2>8 DEF SettingsInv
    <3>2. ASSUME NEW x \in Writers, Saving(x)'
          PROVE  /\ x # w /\ setWriter'[x] = setWriter[x] /\ Saving(x)
                 /\ Files!Target(Files!Op(x))' = Files!Target(Files!Op(x))
      BY <1>13, <2>4, <3>2, WriterStays
    <3> QED BY <1>8, <1>9, <3>1, <3>2 DEF OneByOne
  <2> QED BY <2>7, <2>8 DEF SettingsInv
<1> QED BY <1>6, <1>14, <1>15

LEMMA SettingsStep ==
  ASSUME SettingsInv, [Files!SetNext]_setVars
  PROVE  SettingsInv'
<1>1. CASE UNCHANGED setVars
  BY <1>1, PlansChange DEF setVars, SettingsInv, SetTyped
<1>2. ASSUME NEW w \in Writers, NEW r \in WriterRecords, r.phase = "read",
             setWriter' = [setWriter EXCEPT ![w] = r],
             UNCHANGED <<setFile, setTmp, setOverlap>>, setCache' \in Configs
      PROVE  SettingsInv'
  BY <1>2, PlansChange DEF SettingsInv, SetTyped
<1>3. ASSUME NEW w \in Writers, Files!Command(w) PROVE SettingsInv'
  <2>1. PICK p \in Providers, plan \in Files!Plans \cup Files!InitPlans :
          setWriter' = [setWriter EXCEPT ![w] = [Files!Resting EXCEPT !.plan = plan, !.p = p]]
    BY <1>3 DEF Files!Command
  <2> DEFINE r == [Files!Resting EXCEPT !.plan = plan, !.p = p]
  <2>2. plan \in Seq(WriteOps \cup {"clean"})
    BY PlansAre
  <2>3. r \in WriterRecords /\ r.phase = "read"
    BY <2>2, RestingIs DEF WriterRecords
  <2>4. UNCHANGED <<setFile, setTmp, setOverlap>> /\ setCache' \in Configs
    BY <1>3 DEF Files!Command, SettingsInv, SetTyped
  <2> HIDE DEF r
  <2> QED BY <1>2, <2>1, <2>3, <2>4 DEF r
<1>4. ASSUME NEW w \in Writers, Files!PutSection(w) PROVE SettingsInv'
  <2> DEFINE r == [Files!Resting EXCEPT !.plan = <<"put_section">>]
  <2>1. r \in WriterRecords /\ r.phase = "read"
    <3>1. <<"put_section">> \in Seq(WriteOps \cup {"clean"})
      BY DEF WriteOps
    <3> QED BY <3>1, RestingIs DEF WriterRecords
  <2>2. setCache' \in Configs
    BY <1>4 DEF Files!PutSection, SettingsInv, SetTyped, Configs
  <2>3. setWriter' = [setWriter EXCEPT ![w] = r] /\ UNCHANGED <<setFile, setTmp, setOverlap>>
    BY <1>4 DEF Files!PutSection
  <2> HIDE DEF r
  <2> QED BY <1>2, <2>1, <2>2, <2>3
<1>5. ASSUME NEW w \in Writers, Files!SwapCache(w) PROVE SettingsInv'
  <2>1. setCache' \in Configs
    BY <1>5 DEF Files!SwapCache, SettingsInv, SetTyped
  <2> QED BY <1>2, <1>5, <2>1, RestingIs DEF Files!SwapCache
<1>6. ASSUME NEW w \in Writers, Files!Interrupt(w) PROVE SettingsInv'
  <2>1. setCache' \in Configs
    BY <1>6 DEF Files!Interrupt, SettingsInv, SetTyped
  <2> QED BY <1>2, <1>6, <2>1, RestingIs DEF Files!Interrupt
<1>7. CASE Files!Restart
  <2>1. setCache' \in Configs
    <3>1. setFile.config \in ConfigFiles /\ {} \in KeyFiles
      BY DEF SettingsInv, SetTyped, KeyFiles, KeySets
    <3> QED BY <1>7, <3>1, LoadsAre DEF Files!Restart
  <2> QED BY <1>7, <2>1, PlansChange DEF Files!Restart, SettingsInv, SetTyped
<1>8. CASE Files!Editor
  <2>1. setFile' = [setFile EXCEPT !.config = Broken] /\ UNCHANGED <<setTmp, setWriter, setCache, setOverlap>>
    BY <1>8 DEF Files!Editor
  <2>2. setFile' \in [config : ConfigFiles, keys : KeyFiles]
    BY <2>1 DEF SettingsInv, SetTyped, ConfigFiles
  <2>3. ~setOverlap => OneByOne /\ setFile'.config # Empty /\ setFile'.keys # Empty
    BY <2>1, EdgesAssumption DEF SettingsInv, SetTyped, OneByOne
  <2>4. ~setOverlap => \A x \in Writers : Saving(x) /\ setWriter[x].phase = "rename" =>
                                          setTmp'[Files!Target(Files!Op(x))] # Empty
    BY <2>1, <2>3 DEF OneByOne
  <2> QED BY <2>1, <2>2, <2>3, <2>4, WritersStart DEF SettingsInv, SetTyped
<1>9. CASE Files!DaemonDies
  <2>1. setWriter' \in [Writers -> WriterRecords]
        /\ \A x \in Writers : setWriter'[x] # setWriter[x] => setWriter'[x].phase = "read"
    BY <1>9, RestingIs DEF Files!DaemonDies, SettingsInv, SetTyped
  <2> QED BY <1>9, <2>1, PlansChange DEF Files!DaemonDies, SettingsInv, SetTyped
<1> QED
  BY <1>1, <1>3, <1>4, <1>5, <1>6, <1>7, <1>8, <1>9, ReadKeeps, CleanKeeps, CreateKeeps, FillKeeps,
     RenameKeeps DEF Files!SetNext

\* As long as no two writers were in one file at a time, no settings file is
\* ever found empty: whatever is interrupted, and whenever the daemon dies, in
\* any plan of any command (runtime/app_config.rs atomic_write_file_0600).
THEOREM WritersEmptyNothing == EdgesSpec => []KilledWriterHarmsNothing
<1>1. EdgesInit => SettingsInv
  <2> SUFFICES ASSUME EdgesInit PROVE SettingsInv
    OBVIOUS
  <2>1. PICK c \in {Missing} \cup {[model |-> p, trait |-> FALSE, mount |-> FALSE] : p \in Providers},
             k \in {{}, Providers} : setFile = [config |-> c, keys |-> k]
    BY DEF EdgesInit, Files!SetInit
  <2>2. c \in Configs \cup {Missing}
    <3>1. \A p \in Providers : [model |-> p, trait |-> FALSE, mount |-> FALSE] \in Configs
      BY DEF Configs
    <3> QED BY <3>1
  <2>20. k \in KeySets
    BY DEF KeySets
  <2>3. setFile \in [config : ConfigFiles, keys : KeyFiles] /\ setFile.config # Empty /\ setFile.keys # Empty
    BY <2>1, <2>2, <2>20, EdgesAssumption DEF ConfigFiles, KeyFiles
  <2>4. setTmp \in [config : ConfigFiles, keys : KeyFiles]
    BY DEF EdgesInit, Files!SetInit, ConfigFiles, KeyFiles
  <2>5. setCache \in Configs
    BY <2>3, LoadsAre DEF EdgesInit, Files!SetInit
  <2>6. setWriter = [w \in Writers |-> Files!Resting] /\ setOverlap = FALSE
    BY DEF EdgesInit, Files!SetInit
  <2>7. setWriter \in [Writers -> WriterRecords] /\ \A w \in Writers : ~Saving(w) /\ ~Files!Busy(w)
    BY <2>6, RestingIs DEF Saving, Files!Busy
  <2> QED BY <2>3, <2>4, <2>5, <2>6, <2>7 DEF SettingsInv, SetTyped, OneByOne
<1>2. SettingsInv /\ [EdgesNext]_edgeVars => SettingsInv'
  BY EdgeSteps, SettingsStep
<1>3. SettingsInv => KilledWriterHarmsNothing
  BY DEF SettingsInv, OneByOne, KilledWriterHarmsNothing, Files!KilledWriterHarmsNothing
<1> QED BY <1>1, <1>2, <1>3, PTL DEF EdgesSpec

-----------------------------------------------------------------------------
(* The configuration editor.                                               *)

EdValues == [Editor!FieldSet -> Values \cup {Absent, Bad}]

EdTasks == [kind : {"get", "put"}, body : EdValues, answer : {"none", "loaded", "saved", "error"}]

\* A save under way sends the fields as they are, and only a save is answered
\* by "saved".
TasksOf(value, touched) ==
  {t \in EdTasks : /\ t.answer = "saved" => t.kind = "put"
                   /\ t.kind = "put" /\ ~touched => t.body = value}

EdTyped ==
  /\ edServer \in EdValues /\ edValue \in EdValues /\ edBase \in EdValues
  /\ edTouched \in BOOLEAN

\* The originals are what the daemon last said, the fields that are not shown
\* are as they were loaded.
EditorInv ==
  /\ EdTyped
  /\ edTasks \in Seq(TasksOf(edValue, edTouched))
  /\ \A f \in Editor!FieldSet : f \notin Editor!ToSet(edShown) => edValue[f] = edBase[f]
  /\ ~edTouched => edOriginal = edKnown

LEMMA JsonIsValue == EditorInv => Editor!to_json = edValue
BY DEF EditorInv, EdTyped, EdValues, Editor!to_json

\* When no save is under way the fields may change.
LEMMA TasksFollow ==
  ASSUME NEW value, NEW touched \in BOOLEAN, NEW new, edTasks \in Seq(TasksOf(value, touched))
  PROVE  edTasks \in Seq(TasksOf(new, touched \/ Editor!Saving))
<1>1. ASSUME NEW i \in 1..Len(edTasks)
      PROVE  edTasks[i] \in TasksOf(new, touched \/ Editor!Saving)
  <2>1. edTasks[i] \in TasksOf(value, touched) /\ i \in DOMAIN edTasks
    OBVIOUS
  <2>2. edTasks[i].kind = "put" => Editor!Saving
    BY <2>1 DEF Editor!Saving
  <2> QED BY <2>1, <2>2 DEF TasksOf
<1> HIDE DEF TasksOf
<1> QED BY <1>1

LEMMA EditorStep ==
  ASSUME EditorInv, [Editor!EditorNext]_edVars
  PROVE  EditorInv'
<1> USE DEF Editor!requestVars, Editor!fieldVars
<1> DEFINE Ok == TasksOf(edValue, edTouched)
<1>0. edTasks \in Seq(Ok) /\ edTouched \in BOOLEAN
  BY DEF EditorInv, EdTyped
<1>1. ASSUME UNCHANGED <<edServer, edTasks, edKnown, edTouched, edShown, edValue, edOriginal, edBase>>
      PROVE  EditorInv'
  BY <1>1 DEF EditorInv, EdTyped, TasksOf
<1>2. CASE UNCHANGED edVars
  BY <1>1, <1>2 DEF edVars
<1>3. CASE Editor!SwitchView \/ Editor!Select \/ Editor!OpenDialog \/ Editor!Escape
           \/ Editor!AskToSave \/ Editor!Decline
  BY <1>1, <1>3 DEF Editor!SwitchView, Editor!Select, Editor!OpenDialog, Editor!Escape,
     Editor!AskToSave, Editor!Decline
<1>4. ASSUME NEW task \in Ok, edTasks' = Append(edTasks, task),
             UNCHANGED <<edServer, edKnown, edTouched, edShown, edValue, edOriginal, edBase>>
      PROVE  EditorInv'
  <2> HIDE DEF Ok
  <2>1. edTasks' \in Seq(Ok)
    BY <1>0, <1>4
  <2>2. Ok = TasksOf(edValue, edTouched)'
    BY <1>4 DEF Ok, TasksOf
  <2> QED BY <1>4, <2>1, <2>2 DEF EditorInv, EdTyped
<1>5. [kind |-> "get", body |-> Editor!Nothing, answer |-> "none"] \in Ok
  BY DEF TasksOf, EdTasks, EdValues, Editor!Nothing
<1>6. CASE Editor!Reload
  BY <1>4, <1>5, <1>6 DEF Editor!Reload, Editor!Spawn
<1>7. CASE Editor!Notice
  BY <1>1, <1>4, <1>5, <1>7 DEF Editor!Notice, Editor!Spawn
<1>8. CASE Editor!Enter
  <2>1. PICK v \in Values \cup {Absent, Bad} :
          edValue' = IF edCursor \in DOMAIN edShown
                     THEN [edValue EXCEPT ![edShown[edCursor]] = v] ELSE edValue
    BY <1>8 DEF Editor!Enter
  <2>2. edTouched' = (edTouched \/ Editor!Saving)
        /\ UNCHANGED <<edServer, edTasks, edKnown, edShown, edOriginal, edBase>>
    BY <1>8 DEF Editor!Enter
  <2>3. edTasks' \in Seq(TasksOf(edValue, edTouched)')
    BY <1>0, <2>2, TasksFollow
  <2>4. edValue' \in EdValues
    BY <2>1 DEF EditorInv, EdTyped, EdValues
  <2>5. edTouched' \in BOOLEAN
    BY <1>0, <2>2 DEF Editor!Saving
  <2>6. \A f \in Editor!FieldSet : f \notin Editor!ToSet(edShown) => edValue'[f] = edValue[f]
    BY <2>1 DEF EditorInv, EdTyped, EdValues, Editor!ToSet
  <2> QED BY <2>2, <2>3, <2>4, <2>5, <2>6 DEF EditorInv, EdTyped
<1>9. CASE Editor!Confirm
  <2>1. CASE Editor!Savable
    <3> DEFINE task == [kind |-> "put", body |-> edValue, answer |-> "none"]
    <3>1. edTasks' = Append(edTasks, task) /\ edTouched' = (edTouched \/ Editor!Saving)
          /\ UNCHANGED <<edServer, edKnown, edShown, edValue, edOriginal, edBase>>
      BY <1>9, <2>1, JsonIsValue DEF Editor!Confirm, Editor!Spawn
    <3>2. edTouched' \in BOOLEAN
      BY <1>0, <3>1 DEF Editor!Saving
    <3> DEFINE New == TasksOf(edValue', edTouched')
    <3>3. edTasks \in Seq(New)
      BY <1>0, <3>1, TasksFollow
    <3>4. task \in New
      BY <3>1 DEF TasksOf, EdTasks, EditorInv, EdTyped
    <3> HIDE DEF New, task
    <3>5. edTasks' \in Seq(New)
      BY <3>1, <3>3, <3>4
    <3> QED BY <3>1, <3>2, <3>5 DEF EditorInv, EdTyped, New
  <2>2. CASE ~Editor!Savable
    BY <1>1, <1>9, <2>2 DEF Editor!Confirm
  <2> QED BY <2>1, <2>2
<1>10. CASE Editor!Serve
  <2>1. PICK i \in DOMAIN edTasks :
          /\ edTasks[i].answer = "none"
          /\ \/ Editor!get_config(i) \/ Editor!put_config(i)
             \/ Editor!Answers(i, "error") /\ UNCHANGED edServer
    BY <1>10 DEF Editor!Serve
  <2>2. edTasks[i] \in Ok /\ edTasks[i] \in EdTasks
    <3>1. edTasks[i] \in Ok
      BY <1>0
    <3> QED BY <3>1 DEF TasksOf
  <2>3. UNCHANGED <<edKnown, edTouched, edShown, edValue, edOriginal, edBase>>
    BY <1>10 DEF Editor!Serve
  <2>4. edServer' \in EdValues
    BY <2>1, <2>2 DEF Editor!get_config, Editor!put_config, EditorInv, EdTyped, EdTasks
  <2>5. \E t \in Ok : edTasks' = [edTasks EXCEPT ![i] = t]
    <3>1. CASE Editor!get_config(i)
      <4>1. edTasks[i].kind = "get"
            /\ edTasks' = [edTasks EXCEPT ![i] = [edTasks[i] EXCEPT !.answer = "loaded", !.body = edServer]]
        BY <3>1 DEF Editor!get_config
      <4>2. [edTasks[i] EXCEPT !.answer = "loaded", !.body = edServer] \in Ok
        BY <2>2, <4>1 DEF TasksOf, EdTasks, EditorInv, EdTyped
      <4> QED BY <4>1, <4>2
    <3>2. CASE Editor!put_config(i)
      <4>1. PICK a \in {"saved", "error"} : edTasks' = [edTasks EXCEPT ![i].answer = a]
        BY <3>2 DEF Editor!put_config, Editor!Answers
      <4>2. edTasks[i].kind = "put"
        BY <3>2 DEF Editor!put_config
      <4>3. [edTasks[i] EXCEPT !.answer = a] \in Ok
        BY <2>2, <4>2 DEF TasksOf, EdTasks
      <4> QED BY <4>1, <4>3
    <3>3. CASE Editor!Answers(i, "error")
      <4>1. edTasks' = [edTasks EXCEPT ![i].answer = "error"]
        BY <3>3 DEF Editor!Answers
      <4>2. [edTasks[i] EXCEPT !.answer = "error"] \in Ok
        BY <2>2 DEF TasksOf, EdTasks
      <4> QED BY <4>1, <4>2
    <3> QED BY <2>1, <3>1, <3>2, <3>3
  <2>6. Ok = TasksOf(edValue, edTouched)'
    BY <2>3 DEF TasksOf
  <2> HIDE DEF Ok
  <2>7. edTasks' \in Seq(Ok)
    BY <1>0, <2>5
  <2> QED BY <2>3, <2>4, <2>6, <2>7 DEF EditorInv, EdTyped
<1>11. CASE Editor!Others
  <2>1. edServer' \in EdValues
    BY <1>11 DEF Editor!Others, Editor!Configs, EdValues
  <2>2. UNCHANGED <<edTasks, edKnown, edTouched, edShown, edValue, edOriginal, edBase>>
    BY <1>11 DEF Editor!Others
  <2> QED BY <2>1, <2>2 DEF EditorInv, EdTyped, TasksOf
<1>12. ASSUME NEW i \in DOMAIN edTasks, NEW S, edTasks \in Seq(S), edTasks' = Editor!RemoveAt(edTasks, i)
       PROVE  edTasks' \in Seq(S)
  <2>1. /\ edTasks' = SubSeq(edTasks, 1, i - 1) \o SubSeq(edTasks, i + 1, Len(edTasks))
        /\ i \in 1..Len(edTasks)
    BY <1>12 DEF Editor!RemoveAt
  <2>2. SubSeq(edTasks, 1, i - 1) \in Seq(S) /\ SubSeq(edTasks, i + 1, Len(edTasks)) \in Seq(S)
    BY <1>12, <2>1
  <2> QED BY <2>1, <2>2
<1>13. CASE Editor!Loaded
  <2>1. PICK i \in DOMAIN edTasks :
          /\ Editor!Answered(i, "loaded")
          /\ edValue' = edTasks[i].body /\ edOriginal' = edTasks[i].body
          /\ edBase' = edTasks[i].body /\ edKnown' = edTasks[i].body
    BY <1>13 DEF Editor!Loaded
  <2>2. edTouched' = (edTouched \/ Editor!Saving) /\ UNCHANGED edServer
        /\ edTasks' = Editor!RemoveAt(edTasks, i)
    BY <1>13, <2>1 DEF Editor!Loaded, Editor!Answered
  <2>3. edTasks[i].body \in EdValues
    <3>1. edTasks[i] \in Ok
      BY <1>0
    <3> QED BY <3>1 DEF TasksOf, EdTasks
  <2>4. edTouched' \in BOOLEAN
    BY <1>0, <2>2 DEF Editor!Saving
  <2>5. edTasks \in Seq(TasksOf(edValue', edTouched'))
    BY <1>0, <2>2, TasksFollow
  <2>6. edTasks' \in Seq(TasksOf(edValue', edTouched'))
    BY <1>12, <2>2, <2>5
  <2> QED BY <2>1, <2>2, <2>3, <2>4, <2>6 DEF EditorInv, EdTyped
<1>14. CASE Editor!Saved
  <2>1. PICK i \in DOMAIN edTasks : Editor!Answered(i, "saved") /\ edKnown' = edTasks[i].body
    BY <1>14 DEF Editor!Saved
  <2>2. edTasks[i].answer = "saved" /\ UNCHANGED edServer /\ edTasks' = Editor!RemoveAt(edTasks, i)
    BY <2>1 DEF Editor!Answered
  <2>3. edOriginal' = edValue /\ UNCHANGED <<edTouched, edShown, edValue, edBase>>
    BY <1>14 DEF Editor!Saved
  <2>4. ~edTouched => edTasks[i].body = edValue
    <3>1. edTasks[i] \in Ok
      BY <1>0
    <3>2. edTasks[i].kind = "put" /\ (edTasks[i].kind = "put" /\ ~edTouched => edTasks[i].body = edValue)
      BY <2>2, <3>1 DEF TasksOf
    <3> QED BY <3>2
  <2>5. edTasks' \in Seq(Ok)
    BY <1>0, <1>12, <2>2
  <2>6. Ok = TasksOf(edValue, edTouched)'
    BY <2>3 DEF TasksOf
  <2> HIDE DEF Ok
  <2> QED BY <2>1, <2>2, <2>3, <2>4, <2>5, <2>6 DEF EditorInv, EdTyped
<1>15. CASE Editor!Failed
  <2>1. PICK i \in DOMAIN edTasks : Editor!Answered(i, "error")
    BY <1>15 DEF Editor!Failed
  <2>2. UNCHANGED edServer /\ edTasks' = Editor!RemoveAt(edTasks, i)
    BY <2>1 DEF Editor!Answered
  <2>3. UNCHANGED <<edKnown, edTouched, edShown, edValue, edOriginal, edBase>>
    BY <1>15 DEF Editor!Failed
  <2>4. edTasks' \in Seq(Ok)
    BY <1>0, <1>12, <2>2
  <2>5. Ok = TasksOf(edValue, edTouched)'
    BY <2>3 DEF TasksOf
  <2> HIDE DEF Ok
  <2> QED BY <2>2, <2>3, <2>4, <2>5 DEF EditorInv, EdTyped
<1> QED
  BY <1>2, <1>3, <1>6, <1>7, <1>8, <1>9, <1>10, <1>11, <1>13, <1>14, <1>15 DEF Editor!EditorNext

\* As long as nothing is typed or loaded between a save and its answer, a field
\* without the mark of an unsaved change holds what the daemon last said it has:
\* however many requests overlap, fail, or lose their answer (monitor/src/config.rs).
THEOREM UnmarkedIsSaved == EdgesSpec => []CleanMeansSaved
<1>1. EdgesInit => EditorInv
  <2> SUFFICES ASSUME EdgesInit PROVE EditorInv
    OBVIOUS
  <2>1. edServer \in EdValues
    BY DEF EdgesInit, Editor!EditorInit, Editor!Configs, EdValues
  <2>2. edValue = Editor!Nothing /\ edBase = Editor!Nothing /\ edOriginal = edKnown
        /\ edTasks = <<>> /\ edTouched = FALSE
    BY DEF EdgesInit, Editor!EditorInit
  <2>3. Editor!Nothing \in EdValues
    BY DEF Editor!Nothing, EdValues
  <2>4. edTasks \in Seq(TasksOf(edValue, edTouched))
    BY <2>2
  <2> QED BY <2>1, <2>2, <2>3, <2>4 DEF EditorInv, EdTyped
<1>2. EditorInv /\ [EdgesNext]_edgeVars => EditorInv'
  BY EdgeSteps, EditorStep
<1>3. EditorInv => CleanMeansSaved
  BY DEF EditorInv, CleanMeansSaved, Editor!CleanMeansSaved, Editor!is_dirty
<1> QED BY <1>1, <1>2, <1>3, PTL DEF EdgesSpec

-----------------------------------------------------------------------------
(* The terminal clients.                                                   *)

Known == Clients \cup {"other"}

TurnRecs == [text : Texts \cup {""}, client : Known, state : {"queued", "waiting", "done"}]

Commands ==
  [op : {"message"}, text : Texts \cup {""}] \cup [op : {"cancel"}] \cup [op : {"result"}, turn : Nat]

\* What is on its way to a client's main loop.
Events ==
  [op : {"connected"}, live : {FALSE}] \cup [op : {"sync"}, upto : Nat, live : {FALSE}]
  \cup [op : {"ack", "tool"}, turn : Nat, live : BOOLEAN]

TuiTyped ==
  /\ box \in [Clients -> Texts \cup {""}]
  /\ thread \in [Clients -> Nat] /\ tracked \in [Clients -> Nat] /\ orphans \subseteq Nat
  /\ cmds \in [Clients -> Seq(Commands)]
  /\ synced \in [Clients -> Nat] /\ fetching \in [Clients -> SUBSET Nat]
  /\ turns \in Seq(TurnRecs) /\ log \in Seq(Nat \ {0})
  /\ ran \in [Clients -> Seq(Nat)]
  /\ \A c \in Clients : busy[c] \subseteq DOMAIN ran[c]
  /\ DOMAIN events = Clients /\ DOMAIN busy = Clients

\* Turn t of ts is client c's.
Own(ts, c, t) == t \in DOMAIN ts /\ ts[t].client = c

\* An acknowledgement goes to the client of its turn, and no turn has number 0.
EventsOf(ts, c) ==
  {e \in Events : (e.op = "ack" => Own(ts, c, e.turn)) /\ (e.op = "tool" => e.turn # 0)}

TuiInv ==
  /\ TuiTyped
  /\ \A c \in Clients : /\ events[c] \in Seq(EventsOf(turns, c))
                        /\ thread[c] # 0 => Own(turns, c, thread[c])
                        /\ \A i \in DOMAIN ran[c] : Own(turns, c, ran[c][i])

\* No turn is taken back, or given to another.
TurnsGrow ==
  DOMAIN turns \subseteq DOMAIN turns' /\ \A t \in DOMAIN turns : turns'[t].client = turns[t].client

LEMMA OwnStays ==
  ASSUME TurnsGrow, NEW c
  PROVE  /\ \A t : Own(turns, c, t) => Own(turns', c, t)
         /\ EventsOf(turns, c) \subseteq EventsOf(turns', c)
<1>1. ASSUME NEW t, Own(turns, c, t) PROVE Own(turns', c, t)
  BY <1>1 DEF Own, TurnsGrow
<1>2. ASSUME NEW e \in EventsOf(turns, c) PROVE e \in EventsOf(turns', c)
  BY <1>1, <1>2 DEF EventsOf
<1> QED BY <1>1, <1>2

\* A sequence over a set is one over a larger set.
LEMMA SeqGrows ==
  ASSUME NEW S, NEW T, S \subseteq T, NEW s \in Seq(S)
  PROVE  s \in Seq(T)
<1>1. \A i \in 1..Len(s) : s[i] \in T
  OBVIOUS
<1> QED BY <1>1

\* What is on its way to a client can still be, when turns are added.
LEMMA EventsStay ==
  ASSUME TuiInv, TurnsGrow, NEW d \in Clients
  PROVE  events[d] \in Seq(EventsOf(turns', d))
<1>1. events[d] \in Seq(EventsOf(turns, d)) /\ EventsOf(turns, d) \subseteq EventsOf(turns', d)
  BY OwnStays DEF TuiInv
<1> QED BY <1>1, SeqGrows

\* What a step must say of each client.
LEMMA TuiKeeps ==
  ASSUME TuiInv, TuiTyped', TurnsGrow,
         \A d \in Clients : events'[d] \in Seq(EventsOf(turns', d)),
         \A d \in Clients : thread'[d] = thread[d] \/ Own(turns', d, thread'[d]),
         \A d \in Clients : \/ ran'[d] = ran[d]
                            \/ \E t \in Nat : ran'[d] = Append(ran[d], t) /\ Own(turns, d, t)
  PROVE  TuiInv'
<1>1. ASSUME NEW d \in Clients
      PROVE  /\ thread'[d] # 0 => Own(turns', d, thread'[d])
             /\ \A i \in DOMAIN ran'[d] : Own(turns', d, ran'[d][i])
  <2>1. /\ \A t : Own(turns, d, t) => Own(turns', d, t)
        /\ thread[d] # 0 => Own(turns, d, thread[d])
        /\ \A i \in DOMAIN ran[d] : Own(turns, d, ran[d][i])
    BY OwnStays DEF TuiInv
  <2>2. \A i \in DOMAIN ran'[d] : Own(turns', d, ran'[d][i])
    <3>1. CASE ran'[d] = ran[d]
      BY <2>1, <3>1
    <3>2. CASE \E t \in Nat : ran'[d] = Append(ran[d], t) /\ Own(turns, d, t)
      <4>1. PICK t \in Nat : ran'[d] = Append(ran[d], t) /\ Own(turns, d, t)
        BY <3>2
      <4>2. ran[d] \in Seq(Nat)
        BY DEF TuiInv, TuiTyped
      <4>3. ASSUME NEW i \in DOMAIN ran'[d] PROVE Own(turns', d, ran'[d][i])
        <5>1. ran'[d][i] = t \/ (i \in DOMAIN ran[d] /\ ran'[d][i] = ran[d][i])
          BY <4>1, <4>2, <4>3
        <5>2. Own(turns', d, t)
          BY <2>1, <4>1
        <5>3. ASSUME i \in DOMAIN ran[d] PROVE Own(turns', d, ran[d][i])
          BY <2>1, <5>3
        <5> QED BY <5>1, <5>2, <5>3
      <4> QED BY <4>3
    <3> QED BY <3>1, <3>2
  <2>3. thread'[d] # 0 => Own(turns', d, thread'[d])
    BY <2>1
  <2> QED BY <2>2, <2>3
<1> QED BY <1>1 DEF TuiInv

\* A step that says nothing new to a client.
LEMMA TuiQuiet ==
  ASSUME TuiInv, TuiTyped', TurnsGrow, UNCHANGED <<events, thread, ran>>
  PROVE  TuiInv'
<1>1. \A d \in Clients : events'[d] \in Seq(EventsOf(turns', d))
  BY EventsStay
<1> QED BY <1>1, TuiKeeps

LEMMA TurnsStay ==
  ASSUME UNCHANGED turns
  PROVE  TurnsGrow
BY DEF TurnsGrow

\* The state of a turn is not whose it is.
LEMMA SetGrows ==
  ASSUME TuiTyped, NEW t, NEW s \in {"queued", "waiting", "done"}
  PROVE  /\ Term!Set(t, s) \in Seq(TurnRecs)
         /\ turns' = Term!Set(t, s) => TurnsGrow
<1>1. turns \in Seq(TurnRecs)
  BY DEF TuiTyped
<1>2. Term!Set(t, s) \in Seq(TurnRecs)
  <2> DEFINE q == Term!Set(t, s)
  <2>1. q = [u \in DOMAIN turns |-> IF u = t THEN [turns[u] EXCEPT !.state = s] ELSE turns[u]]
    BY <1>1 DEF Term!Set
  <2>2. ASSUME NEW u \in 1..Len(turns) PROVE q[u] \in TurnRecs
    <3>1. turns[u] \in TurnRecs
      BY <1>1, <2>2
    <3>2. [turns[u] EXCEPT !.state = s] \in TurnRecs
      BY <3>1 DEF TurnRecs
    <3> QED BY <1>1, <2>1, <2>2, <3>1, <3>2
  <2>3. Len(turns) \in Nat /\ DOMAIN turns = 1..Len(turns)
    BY <1>1
  <2>4. q \in [1..Len(turns) -> TurnRecs]
    BY <2>1, <2>2, <2>3
  <2> HIDE DEF q
  <2>5. q \in Seq(TurnRecs)
    BY <2>3, <2>4
  <2> QED BY <2>5 DEF q
<1>3. ASSUME turns' = Term!Set(t, s) PROVE TurnsGrow
  <2>1. DOMAIN turns' = DOMAIN turns
    BY <1>1, <1>3 DEF Term!Set
  <2>2. ASSUME NEW u \in DOMAIN turns PROVE turns'[u].client = turns[u].client
    <3>1. turns[u] \in TurnRecs
      BY <1>1, <2>2
    <3> QED BY <1>1, <1>3, <2>2, <3>1 DEF Term!Set, TurnRecs
  <2> QED BY <2>1, <2>2 DEF TurnsGrow
<1> QED BY <1>2, <1>3

LEMMA CancelledGrows ==
  ASSUME TuiTyped, NEW t, turns' = Term!Cancelled(t)
  PROVE  turns' \in Seq(TurnRecs) /\ TurnsGrow
<1>1. CASE turns' = turns
  BY <1>1, TurnsStay DEF TuiTyped
<1>2. CASE turns' = Term!Set(t, "done")
  BY <1>2, SetGrows
<1> QED BY <1>1, <1>2 DEF Term!Cancelled

LEMMA AppendGrows ==
  ASSUME TuiTyped, NEW r \in TurnRecs, turns' = Append(turns, r)
  PROVE  /\ turns' \in Seq(TurnRecs) /\ TurnsGrow
         /\ Len(turns) + 1 \in Nat \ {0}
         /\ Own(turns', r.client, Len(turns) + 1)
<1>1. turns \in Seq(TurnRecs)
  BY DEF TuiTyped
<1> QED BY <1>1 DEF TurnsGrow, Own

\* What is sent over the connection to client c.
LEMMA SentEvent ==
  ASSUME TuiInv, TurnsGrow, NEW c \in Clients, NEW e \in EventsOf(turns', c),
         events' = [events EXCEPT ![c] = Append(@, e)]
  PROVE  DOMAIN events' = Clients /\ \A d \in Clients : events'[d] \in Seq(EventsOf(turns', d))
<1>1. DOMAIN events = Clients
  BY DEF TuiInv, TuiTyped
<1>2. ASSUME NEW d \in Clients PROVE events'[d] \in Seq(EventsOf(turns', d))
  <2>1. events[d] \in Seq(EventsOf(turns', d))
    BY EventsStay
  <2>2. events'[d] = IF d = c THEN Append(events[d], e) ELSE events[d]
    BY <1>1
  <2> QED BY <2>1, <2>2
<1> QED BY <1>1, <1>2

LEMMA ToolIsEvent ==
  ASSUME NEW t \in Nat \ {0}, NEW b \in BOOLEAN, NEW ts, NEW c
  PROVE  [op |-> "tool", turn |-> t, live |-> b] \in EventsOf(ts, c)
BY DEF EventsOf, Events

LEMMA SentCommand ==
  ASSUME TuiTyped, NEW c \in Clients, NEW m \in Commands
  PROVE  [cmds EXCEPT ![c] = Append(@, m)] \in [Clients -> Seq(Commands)]
<1>1. cmds \in [Clients -> Seq(Commands)]
  BY DEF TuiTyped
<1>2. Append(cmds[c], m) \in Seq(Commands)
  BY <1>1
<1> HIDE DEF Commands
<1> QED BY <1>1, <1>2

\* The user's steps, and a result that is sent.
LEMMA SubmitKeeps ==
  ASSUME TuiInv, NEW c \in Clients, Term!Submit(c)
  PROVE  TuiInv'
<1>1. PICK t \in Texts :
        /\ box' = [box EXCEPT ![c] = t]
        /\ cmds' = [cmds EXCEPT ![c] = Append(@, [op |-> "message", text |-> t])]
  BY DEF Term!Submit
<1>2. /\ UNCHANGED <<thread, events, ran, turns, tracked, orphans, synced, fetching, log, busy>>
  BY DEF Term!Submit, Term!replayVars, Term!toolVars, Term!daemonVars
<1>3. [op |-> "message", text |-> t] \in Commands
  BY DEF Commands
<1>4. cmds' \in [Clients -> Seq(Commands)]
  BY <1>1, <1>3, SentCommand DEF TuiInv
<1>5. box' \in [Clients -> Texts \cup {""}]
  BY <1>1 DEF TuiInv, TuiTyped
<1>6. TuiTyped'
  BY <1>2, <1>4, <1>5 DEF TuiInv, TuiTyped
<1> QED BY <1>2, <1>6, TuiQuiet, TurnsStay

LEMMA CancelTurnKeeps ==
  ASSUME TuiInv, NEW c \in Clients, Term!CancelTurn(c)
  PROVE  TuiInv'
<1>1. /\ cmds' = [cmds EXCEPT ![c] = Append(@, [op |-> "cancel"])]
      /\ UNCHANGED <<box, thread, events, ran, turns, tracked, orphans, synced, fetching, log, busy>>
  BY DEF Term!CancelTurn, Term!screenVars, Term!replayVars, Term!toolVars, Term!daemonVars
<1>2. [op |-> "cancel"] \in Commands
  BY DEF Commands
<1>3. cmds' \in [Clients -> Seq(Commands)]
  BY <1>1, <1>2, SentCommand DEF TuiInv
<1>4. TuiTyped'
  BY <1>1, <1>3 DEF TuiInv, TuiTyped
<1> QED BY <1>1, <1>4, TuiQuiet, TurnsStay

LEMMA ToolExecDoneKeeps ==
  ASSUME TuiInv, NEW c \in Clients, Term!ToolExecDone(c)
  PROVE  TuiInv'
<1>1. PICK i \in busy[c] :
        /\ busy' = [busy EXCEPT ![c] = @ \ {i}]
        /\ cmds' = [cmds EXCEPT ![c] = Append(@, [op |-> "result", turn |-> ran[c][i]])]
        /\ UNCHANGED <<box, thread, events, ran, turns, tracked, orphans, synced, fetching, log>>
  BY DEF Term!ToolExecDone, Term!screenVars, Term!replayVars, Term!daemonVars
<1>2. i \in DOMAIN ran[c] /\ ran[c] \in Seq(Nat)
  BY <1>1 DEF TuiInv, TuiTyped
<1>3. ran[c][i] \in Nat
  BY <1>2
<1>4. [op |-> "result", turn |-> ran[c][i]] \in Commands
  BY <1>3 DEF Commands
<1>5. cmds' \in [Clients -> Seq(Commands)]
  BY <1>1, <1>4, SentCommand DEF TuiInv
<1>6. DOMAIN busy' = Clients /\ \A d \in Clients : busy'[d] \subseteq DOMAIN ran'[d]
  BY <1>1 DEF TuiInv, TuiTyped
<1>7. TuiTyped'
  BY <1>1, <1>5, <1>6 DEF TuiInv, TuiTyped
<1> QED BY <1>1, <1>7, TuiQuiet, TurnsStay

\* The connection.
LEMMA ConnectKeeps ==
  ASSUME TuiInv, NEW c \in Clients, Term!Connect(c)
  PROVE  TuiInv'
<1> DEFINE recent == [i \in DOMAIN log |-> Term!ToolFrame(log[i])]
<1>1. /\ events' = [events EXCEPT ![c] = Append(@, Term!Connection) \o recent]
      /\ UNCHANGED <<box, thread, ran, cmds, turns, tracked, orphans, synced, fetching, log, busy>>
  BY DEF Term!Connect, Term!screenVars, Term!replayVars, Term!toolVars, Term!daemonVars
<1>2. recent \in Seq(EventsOf(turns, c))
  <2>1. log \in Seq(Nat \ {0})
    BY DEF TuiInv, TuiTyped
  <2>2. ASSUME NEW i \in 1..Len(log) PROVE Term!ToolFrame(log[i]) \in EventsOf(turns, c)
    <3>1. log[i] \in Nat \ {0}
      BY <2>1, <2>2
    <3>2. Term!ToolFrame(log[i]) = [op |-> "tool", turn |-> log[i], live |-> TRUE]
      BY DEF Term!ToolFrame, Term!Live
    <3> QED BY <3>1, <3>2, ToolIsEvent
  <2>3. DOMAIN log = 1..Len(log) /\ Len(log) \in Nat
    BY <2>1
  <2>4. recent \in [1..Len(log) -> EventsOf(turns, c)]
    BY <2>2, <2>3
  <2> HIDE DEF recent
  <2> QED BY <2>3, <2>4
<1> HIDE DEF recent
<1>3. Term!Connection \in EventsOf(turns, c)
  BY DEF Term!Connection, EventsOf, Events
<1>4. events[c] \in Seq(EventsOf(turns, c)) /\ DOMAIN events = Clients
  BY DEF TuiInv, TuiTyped
<1>5. Append(events[c], Term!Connection) \in Seq(EventsOf(turns, c))
  BY <1>3, <1>4
<1>6. Append(events[c], Term!Connection) \o recent \in Seq(EventsOf(turns, c))
  BY <1>2, <1>5
<1>7. ASSUME NEW d \in Clients PROVE events'[d] \in Seq(EventsOf(turns', d))
  <2>1. CASE d = c
    BY <1>1, <1>4, <1>6, <2>1
  <2>2. CASE d # c
    BY <1>1, <1>4, <2>2 DEF TuiInv
  <2> QED BY <2>1, <2>2
<1>8. TuiTyped'
  BY <1>1, <1>4 DEF TuiInv, TuiTyped
<1> QED BY <1>1, <1>7, <1>8, TuiKeeps, TurnsStay

LEMMA DropKeeps ==
  ASSUME TuiInv, NEW c \in Clients, Term!Drop(c)
  PROVE  TuiInv'
<1>1. /\ orphans' = orphans \cup ({tracked[c]} \ {0})
      /\ tracked' = [tracked EXCEPT ![c] = 0]
      /\ UNCHANGED <<box, thread, ran, turns, synced, fetching, log, busy>>
  BY DEF Term!Drop, Term!screenVars, Term!replayVars, Term!toolVars
<1>2. PICK k \in 0..Len(cmds[c]) : cmds' = [cmds EXCEPT ![c] = SubSeq(@, k + 1, Len(@))]
  BY DEF Term!Drop
<1>3. PICK j \in 0..Len(events[c]) :
        events' = [events EXCEPT ![c] =
                     SubSeq(@, 1, j) \o Term!Sift(SubSeq(@, j + 1, Len(@)), Term!Fetched(c))]
  BY DEF Term!Drop
<1>4. events[c] \in Seq(EventsOf(turns, c)) /\ DOMAIN events = Clients /\ cmds[c] \in Seq(Commands)
  BY DEF TuiInv, TuiTyped
<1> DEFINE rest == SubSeq(events[c], j + 1, Len(events[c]))
<1>5. Term!Sift(rest, Term!Fetched(c)) = Sift(rest, Term!Fetched(c))
  BY DEF Term!Sift, Term!Sifted, Sift, Sifted
<1>6. rest \in Seq(EventsOf(turns, c)) /\ SubSeq(events[c], 1, j) \in Seq(EventsOf(turns, c))
  BY <1>4
<1> HIDE DEF rest
<1>7. Sift(rest, Term!Fetched(c)) \in Seq(EventsOf(turns, c))
  <2>1. Sift(rest, Term!Fetched(c)) \in Seq(EventsOf(turns, c) \cap Term!Fetched(c))
    BY <1>6, SiftIn
  <2> QED BY <2>1, SeqGrows
<1>8. SubSeq(events[c], 1, j) \o Sift(rest, Term!Fetched(c)) \in Seq(EventsOf(turns, c))
  BY <1>6, <1>7
<1>9. events' = [events EXCEPT ![c] = SubSeq(events[c], 1, j) \o Sift(rest, Term!Fetched(c))]
  BY <1>3, <1>5 DEF rest
<1>10. ASSUME NEW d \in Clients PROVE events'[d] \in Seq(EventsOf(turns', d))
  <2>1. CASE d = c
    BY <1>1, <1>4, <1>8, <1>9, <2>1
  <2>2. CASE d # c
    BY <1>1, <1>4, <1>9, <2>2 DEF TuiInv
  <2> QED BY <2>1, <2>2
<1>11. SubSeq(cmds[c], k + 1, Len(cmds[c])) \in Seq(Commands)
  BY <1>4
<1>12. cmds' \in [Clients -> Seq(Commands)] /\ tracked' \in [Clients -> Nat] /\ orphans' \subseteq Nat
  BY <1>1, <1>2, <1>11 DEF TuiInv, TuiTyped
<1>13. TuiTyped'
  BY <1>1, <1>4, <1>9, <1>12 DEF TuiInv, TuiTyped
<1> QED BY <1>1, <1>10, <1>13, TuiKeeps, TurnsStay

\* The main loop.  A call is run when its turn is that of the thread, which is
\* the client's own.
LEMMA HandleEventKeeps ==
  ASSUME TuiInv, NEW c \in Clients, Term!HandleEvent(c)
  PROVE  TuiInv'
<1> DEFINE e == Head(events[c])
<1>1. /\ events[c] # <<>> /\ events' = [events EXCEPT ![c] = Tail(@)]
      /\ UNCHANGED <<turns, tracked, orphans, log>>
      /\ \/ Term!Connected(c)
         \/ e.op = "ack"  /\ Term!ChatAck(c, e.turn)
         \/ e.op = "tool" /\ Term!ChatTool(c, e.turn)
         \/ e.op = "sync" /\ Term!ReplaySync(c, e.upto)
  BY DEF Term!HandleEvent, Term!daemonVars
<1>2. events[c] \in Seq(EventsOf(turns, c)) /\ DOMAIN events = Clients
  BY DEF TuiInv, TuiTyped
<1>3. e \in EventsOf(turns, c) /\ Tail(events[c]) \in Seq(EventsOf(turns, c))
  BY <1>1, <1>2
<1> HIDE DEF e
<1>4. ASSUME NEW d \in Clients PROVE events'[d] \in Seq(EventsOf(turns', d))
  <2>1. CASE d = c
    BY <1>1, <1>2, <1>3, <2>1
  <2>2. CASE d # c
    BY <1>1, <1>2, <2>2 DEF TuiInv
  <2> QED BY <2>1, <2>2
<1>5. DOMAIN events' = Clients
  BY <1>1, <1>2
<1>6. CASE Term!Connected(c)
  <2>1. /\ fetching' = [fetching EXCEPT ![c] = @ \cup {synced[c]}]
        /\ UNCHANGED <<box, thread, synced, ran, busy>>
    BY <1>6 DEF Term!Connected, Term!screenVars
  <2>2. cmds' \in [Clients -> Seq(Commands)]
    <3>1. CASE cmds' = [cmds EXCEPT ![c] = Append(@, [op |-> "message", text |-> box[c]])]
      <4>1. [op |-> "message", text |-> box[c]] \in Commands
        BY DEF TuiInv, TuiTyped, Commands
      <4> QED BY <3>1, <4>1, SentCommand DEF TuiInv
    <3>2. CASE cmds' = cmds
      BY <3>2 DEF TuiInv, TuiTyped
    <3> QED BY <1>6, <3>1, <3>2 DEF Term!Connected, Term!Resend
  <2>3. fetching' \in [Clients -> SUBSET Nat]
    BY <2>1 DEF TuiInv, TuiTyped
  <2>4. TuiTyped'
    BY <1>1, <1>5, <2>1, <2>2, <2>3 DEF TuiInv, TuiTyped
  <2> QED BY <1>1, <1>4, <2>1, <2>4, TuiKeeps, TurnsStay
<1>7. CASE e.op = "ack" /\ Term!ChatAck(c, e.turn)
  <2>1. /\ thread' = [thread EXCEPT ![c] = e.turn]
        /\ box' = (IF c \in locked THEN [box EXCEPT ![c] = ""] ELSE box)
        /\ UNCHANGED <<cmds, fetching, synced, ran, busy>>
    BY <1>7 DEF Term!ChatAck, Term!replayVars
  <2>2. Own(turns, c, e.turn) /\ e.turn \in Nat
    BY <1>3, <1>7 DEF EventsOf, Events
  <2>3. thread' \in [Clients -> Nat] /\ box' \in [Clients -> Texts \cup {""}]
    BY <2>1, <2>2 DEF TuiInv, TuiTyped
  <2>4. ASSUME NEW d \in Clients PROVE thread'[d] = thread[d] \/ Own(turns', d, thread'[d])
    BY <1>1, <2>1, <2>2 DEF TuiInv, TuiTyped
  <2>5. TuiTyped'
    BY <1>1, <1>5, <2>1, <2>3 DEF TuiInv, TuiTyped
  <2> QED BY <1>1, <1>4, <2>1, <2>4, <2>5, TuiKeeps, TurnsStay
<1>8. CASE e.op = "tool" /\ Term!ChatTool(c, e.turn)
  <2>1. UNCHANGED <<box, thread, cmds, fetching, synced>>
    BY <1>8 DEF Term!ChatTool, Term!screenVars, Term!replayVars
  <2>2. e.turn \in Nat \ {0}
    BY <1>3, <1>8 DEF EventsOf, Events
  <2>3. CASE thread[c] = e.turn
    <3>1. /\ ran' = [ran EXCEPT ![c] = Append(@, e.turn)]
          /\ busy' = [busy EXCEPT ![c] = @ \cup {Len(ran[c]) + 1}]
      BY <1>8, <2>3 DEF Term!ChatTool, Term!is_ours
    <3>2. Own(turns, c, e.turn)
      BY <2>2, <2>3 DEF TuiInv
    <3>3. ran \in [Clients -> Seq(Nat)] /\ DOMAIN busy = Clients /\ busy[c] \subseteq DOMAIN ran[c]
      BY DEF TuiInv, TuiTyped
    <3>4. /\ Append(ran[c], e.turn) \in Seq(Nat)
          /\ busy[c] \cup {Len(ran[c]) + 1} \subseteq DOMAIN Append(ran[c], e.turn)
      BY <2>2, <3>3
    <3>5. ran' \in [Clients -> Seq(Nat)]
      BY <3>1, <3>3, <3>4
    <3>6. DOMAIN busy' = Clients /\ \A d \in Clients : busy'[d] \subseteq DOMAIN ran'[d]
      BY <3>1, <3>3, <3>4 DEF TuiInv, TuiTyped
    <3>7. ASSUME NEW d \in Clients
          PROVE  ran'[d] = ran[d] \/ \E t \in Nat : ran'[d] = Append(ran[d], t) /\ Own(turns, d, t)
      BY <2>2, <3>1, <3>2, <3>3
    <3>8. TuiTyped'
      BY <1>1, <1>5, <2>1, <3>5, <3>6 DEF TuiInv, TuiTyped
    <3> QED BY <1>1, <1>4, <2>1, <3>7, <3>8, TuiKeeps, TurnsStay
  <2>4. CASE thread[c] # e.turn
    <3>1. UNCHANGED <<ran, busy>>
      BY <1>8, <2>4 DEF Term!ChatTool, Term!is_ours
    <3>2. TuiTyped'
      BY <1>1, <1>5, <2>1, <3>1 DEF TuiInv, TuiTyped
    <3> QED BY <1>1, <1>4, <2>1, <3>1, <3>2, TuiKeeps, TurnsStay
  <2> QED BY <2>3, <2>4
<1>9. CASE e.op = "sync" /\ Term!ReplaySync(c, e.upto)
  <2>1. /\ synced' = [synced EXCEPT ![c] = e.upto]
        /\ UNCHANGED <<box, thread, cmds, fetching, ran, busy>>
    BY <1>9 DEF Term!ReplaySync, Term!screenVars
  <2>2. e.upto \in Nat
    BY <1>3, <1>9 DEF EventsOf, Events
  <2>3. synced' \in [Clients -> Nat]
    BY <2>1, <2>2 DEF TuiInv, TuiTyped
  <2>4. TuiTyped'
    BY <1>1, <1>5, <2>1, <2>3 DEF TuiInv, TuiTyped
  <2> QED BY <1>1, <1>4, <2>1, <2>4, TuiKeeps, TurnsStay
<1> QED BY <1>1, <1>6, <1>7, <1>8, <1>9

LEMMA FetchHistoryKeeps ==
  ASSUME TuiInv, NEW c \in Clients, Term!FetchHistory(c)
  PROVE  TuiInv'
<1>1. PICK since \in fetching[c] :
        /\ fetching' = [fetching EXCEPT ![c] = @ \ {since}]
        /\ \/ \E k \in 0..Len(events[c]) :
                events' = [events EXCEPT ![c] =
                             SubSeq(@, 1, k) \o Append(Term!Missed(since), Term!Synced)
                               \o SubSeq(@, k + 1, Len(@))]
           \/ UNCHANGED events
        /\ UNCHANGED <<box, thread, cmds, synced, ran, busy, tracked, orphans, turns, log>>
  BY DEF Term!FetchHistory, Term!screenVars, Term!toolVars, Term!daemonVars
<1>2. log \in Seq(Nat \ {0}) /\ since \in Nat /\ events[c] \in Seq(EventsOf(turns, c))
  BY <1>1 DEF TuiInv, TuiTyped
<1>3. DOMAIN events = Clients /\ fetching' \in [Clients -> SUBSET Nat]
  BY <1>1 DEF TuiInv, TuiTyped
<1>4. Append(Term!Missed(since), Term!Synced) \in Seq(EventsOf(turns, c))
  <2> DEFINE new == SubSeq(log, since + 1, Len(log))
             missed == [i \in DOMAIN new |-> [op |-> "tool", turn |-> new[i], live |-> FALSE]]
  <2>1. new \in Seq(Nat \ {0})
    BY <1>2
  <2>2. Term!Missed(since) = missed
    BY DEF Term!Missed, Term!get_logs
  <2> HIDE DEF new
  <2>3. DOMAIN new = 1..Len(new) /\ Len(new) \in Nat
    BY <2>1
  <2>4. ASSUME NEW i \in 1..Len(new)
        PROVE  [op |-> "tool", turn |-> new[i], live |-> FALSE] \in EventsOf(turns, c)
    <3>1. new[i] \in Nat \ {0}
      BY <2>1, <2>4
    <3> QED BY <3>1, ToolIsEvent
  <2>5. missed \in [1..Len(new) -> EventsOf(turns, c)]
    BY <2>3, <2>4
  <2> HIDE DEF missed
  <2>6. missed \in Seq(EventsOf(turns, c))
    BY <2>3, <2>5
  <2>7. Term!Synced \in EventsOf(turns, c)
    <3>1. Len(log) \in Nat
      BY <1>2
    <3> QED BY <3>1 DEF Term!Synced, EventsOf, Events
  <2> QED BY <2>2, <2>6, <2>7
<1>5. ASSUME NEW d \in Clients PROVE events'[d] \in Seq(EventsOf(turns', d))
  <2>1. CASE UNCHANGED events
    BY <1>1, <2>1 DEF TuiInv
  <2>2. ASSUME NEW k \in 0..Len(events[c]),
               events' = [events EXCEPT ![c] =
                            SubSeq(@, 1, k) \o Append(Term!Missed(since), Term!Synced)
                              \o SubSeq(@, k + 1, Len(@))]
        PROVE  events'[d] \in Seq(EventsOf(turns', d))
    <3>1. /\ SubSeq(events[c], 1, k) \in Seq(EventsOf(turns, c))
          /\ SubSeq(events[c], k + 1, Len(events[c])) \in Seq(EventsOf(turns, c))
      BY <1>2
    <3>2. SubSeq(events[c], 1, k) \o Append(Term!Missed(since), Term!Synced)
            \o SubSeq(events[c], k + 1, Len(events[c])) \in Seq(EventsOf(turns, c))
      BY <1>4, <3>1
    <3>3. CASE d = c
      BY <1>1, <1>3, <2>2, <3>2, <3>3
    <3>4. CASE d # c
      BY <1>1, <1>3, <2>2, <3>4 DEF TuiInv
    <3> QED BY <3>3, <3>4
  <2> QED BY <1>1, <2>1, <2>2
<1>6. DOMAIN events' = Clients
  BY <1>1, <1>3
<1>7. TuiTyped'
  BY <1>1, <1>3, <1>6 DEF TuiInv, TuiTyped
<1> QED BY <1>1, <1>5, <1>7, TuiKeeps, TurnsStay

\* The daemon.  An acknowledgement goes out with the turn that it is of.
LEMMA HandleInboundKeeps ==
  ASSUME TuiInv, NEW c \in Clients, Term!HandleInbound(c)
  PROVE  TuiInv'
<1> DEFINE m == Head(cmds[c])
<1>1. /\ cmds[c] # <<>> /\ cmds' = [cmds EXCEPT ![c] = Tail(@)]
      /\ UNCHANGED <<box, thread, synced, fetching, ran, busy, orphans, log>>
      /\ \/ m.op = "message" /\ Term!HandleMessage(c, m.text)
         \/ Term!HandleCancel(c)
         \/ m.op = "result" /\ Term!HandleResult(m.turn)
  BY DEF Term!HandleInbound, Term!screenVars, Term!replayVars, Term!toolVars
<1>2. cmds \in [Clients -> Seq(Commands)] /\ cmds[c] \in Seq(Commands)
  BY DEF TuiInv, TuiTyped
<1>3. m \in Commands /\ Tail(cmds[c]) \in Seq(Commands)
  BY <1>1, <1>2
<1> HIDE DEF m
<1>4. cmds' \in [Clients -> Seq(Commands)]
  <2> HIDE DEF Commands
  <2> QED BY <1>1, <1>2, <1>3
<1>5. TuiTyped
  BY DEF TuiInv
<1>6. CASE m.op = "message" /\ Term!HandleMessage(c, m.text)
  <2> DEFINE r == [text |-> m.text, client |-> c, state |-> "queued"]
             ack == [op |-> "ack", turn |-> Len(turns) + 1, live |-> TRUE]
  <2>1. /\ turns' = Append(turns, r)
        /\ tracked' = [tracked EXCEPT ![c] = Len(turns) + 1]
        /\ events' = [events EXCEPT ![c] = Append(@, ack)]
    BY <1>6 DEF Term!HandleMessage, Term!Live
  <2>2. r \in TurnRecs
    BY <1>3, <1>6 DEF Commands, TurnRecs, Known
  <2>3. /\ turns' \in Seq(TurnRecs) /\ TurnsGrow /\ Len(turns) + 1 \in Nat \ {0}
        /\ Own(turns', c, Len(turns) + 1)
    BY <1>5, <2>1, <2>2, AppendGrows
  <2>4. ack \in EventsOf(turns', c)
    BY <2>3 DEF EventsOf, Events
  <2> HIDE DEF ack, r
  <2>5. DOMAIN events' = Clients /\ \A d \in Clients : events'[d] \in Seq(EventsOf(turns', d))
    BY <2>1, <2>3, <2>4, SentEvent
  <2>6. tracked' \in [Clients -> Nat]
    BY <1>5, <2>1, <2>3 DEF TuiTyped
  <2>7. TuiTyped'
    BY <1>1, <1>4, <1>5, <2>3, <2>5, <2>6 DEF TuiTyped
  <2> QED BY <1>1, <2>3, <2>5, <2>7, TuiKeeps
<1>7. CASE Term!HandleCancel(c)
  <2>1. /\ turns' = Term!Cancelled(tracked[c]) /\ tracked' = [tracked EXCEPT ![c] = 0]
        /\ UNCHANGED events
    BY <1>7 DEF Term!HandleCancel
  <2>2. turns' \in Seq(TurnRecs) /\ TurnsGrow
    BY <1>5, <2>1, CancelledGrows
  <2>3. tracked' \in [Clients -> Nat]
    BY <1>5, <2>1 DEF TuiTyped
  <2>4. TuiTyped'
    BY <1>1, <1>4, <1>5, <2>1, <2>2, <2>3 DEF TuiTyped
  <2> QED BY <1>1, <2>1, <2>2, <2>4, TuiQuiet
<1>8. CASE Term!HandleResult(m.turn)
  <2>1. UNCHANGED <<tracked, events>>
    BY <1>8 DEF Term!HandleResult
  <2>2. turns' \in Seq(TurnRecs) /\ TurnsGrow
    <3>1. CASE turns' = turns
      BY <1>5, <3>1, TurnsStay DEF TuiTyped
    <3>2. CASE turns' = Term!Set(m.turn, "done")
      BY <1>5, <3>2, SetGrows
    <3> QED BY <1>8, <3>1, <3>2 DEF Term!HandleResult
  <2>3. TuiTyped'
    BY <1>1, <1>4, <1>5, <2>1, <2>2 DEF TuiTyped
  <2> QED BY <1>1, <2>1, <2>2, <2>3, TuiQuiet
<1> QED BY <1>1, <1>6, <1>7, <1>8

\* A call goes to every client, whoever's it is.
LEMMA DeliverKeeps ==
  ASSUME TuiInv, NEW t \in Nat \ {0}, Term!Deliver(t), TurnsGrow, turns' \in Seq(TurnRecs),
         log' = Append(log, t),
         UNCHANGED <<box, thread, cmds, synced, fetching, ran, busy, tracked, orphans>>
  PROVE  TuiInv'
<1>1. DOMAIN events' = Clients
  BY DEF Term!Deliver
<1>2. ASSUME NEW d \in Clients PROVE events'[d] \in Seq(EventsOf(turns', d))
  <2>1. events[d] \in Seq(EventsOf(turns', d))
    BY EventsStay
  <2>2. Term!ToolFrame(t) \in EventsOf(turns', d)
    <3>1. Term!ToolFrame(t) = [op |-> "tool", turn |-> t, live |-> TRUE]
      BY DEF Term!ToolFrame, Term!Live
    <3> QED BY <3>1, ToolIsEvent
  <2>3. events'[d] = Append(events[d], Term!ToolFrame(t)) \/ events'[d] = events[d]
    BY DEF Term!Deliver
  <2>4. Append(events[d], Term!ToolFrame(t)) \in Seq(EventsOf(turns', d))
    BY <2>1, <2>2
  <2> QED BY <2>1, <2>3, <2>4
<1>3. log' \in Seq(Nat \ {0})
  <2>1. log \in Seq(Nat \ {0})
    BY DEF TuiInv, TuiTyped
  <2> QED BY <2>1
<1>4. TuiTyped'
  BY <1>1, <1>3 DEF TuiInv, TuiTyped
<1> QED BY <1>2, <1>4, TuiKeeps

LEMMA TuiStep ==
  ASSUME TuiInv, [Term!TuiNext]_tuiVars
  PROVE  TuiInv'
<1>1. TuiTyped /\ turns \in Seq(TurnRecs)
  BY DEF TuiInv, TuiTyped
<1>2. CASE Term!EmitTool
  <2>1. PICK t \in DOMAIN turns :
          /\ turns' = Term!Set(t, "waiting") /\ log' = Append(log, t) /\ Term!Deliver(t)
          /\ UNCHANGED <<box, thread, cmds, synced, fetching, ran, busy, tracked, orphans>>
    BY <1>2 DEF Term!EmitTool, Term!screenVars, Term!replayVars, Term!toolVars
  <2>2. t \in Nat \ {0}
    BY <1>1, <2>1
  <2>3. turns' \in Seq(TurnRecs) /\ TurnsGrow
    BY <1>1, <2>1, SetGrows
  <2> QED BY <2>1, <2>2, <2>3, DeliverKeeps
<1>3. CASE Term!OtherTurn
  <2> DEFINE t == Len(turns) + 1
             r == [text |-> "", client |-> "other", state |-> "done"]
  <2>1. /\ turns' = Append(turns, r) /\ log' = Append(log, t) /\ Term!Deliver(t)
        /\ UNCHANGED <<box, thread, cmds, synced, fetching, ran, busy, tracked, orphans>>
    BY <1>3 DEF Term!OtherTurn, Term!screenVars, Term!replayVars, Term!toolVars
  <2>2. r \in TurnRecs
    BY DEF TurnRecs, Known
  <2> HIDE DEF r
  <2>3. turns' \in Seq(TurnRecs) /\ TurnsGrow /\ t \in Nat \ {0}
    BY <1>1, <2>1, <2>2, AppendGrows
  <2> HIDE DEF t
  <2> QED BY <2>1, <2>3, DeliverKeeps
<1>4. CASE Term!Cleanup
  <2>1. PICK t \in orphans :
          /\ orphans' = orphans \ {t} /\ turns' = Term!Cancelled(t)
          /\ UNCHANGED <<box, thread, cmds, events, synced, fetching, ran, busy, tracked, log>>
    BY <1>4 DEF Term!Cleanup, Term!screenVars, Term!linkVars, Term!replayVars, Term!toolVars
  <2>2. turns' \in Seq(TurnRecs) /\ TurnsGrow
    BY <1>1, <2>1, CancelledGrows
  <2>3. TuiTyped'
    BY <1>1, <2>1, <2>2 DEF TuiTyped
  <2> QED BY <2>1, <2>2, <2>3, TuiQuiet
<1>5. ASSUME NEW c \in Clients, Term!ClientNext(c) PROVE TuiInv'
  BY <1>5, SubmitKeeps, CancelTurnKeeps, ConnectKeeps, DropKeeps, HandleEventKeeps, FetchHistoryKeeps,
     ToolExecDoneKeeps, HandleInboundKeeps DEF Term!ClientNext
<1>6. CASE UNCHANGED tuiVars
  <2>1. TuiTyped'
    BY <1>1, <1>6 DEF TuiTyped, tuiVars
  <2> QED BY <1>6, <2>1, TuiQuiet, TurnsStay DEF tuiVars
<1> QED BY <1>2, <1>3, <1>4, <1>5, <1>6 DEF Term!TuiNext

\* A client runs the tool calls of its own turns only: those of the thread that
\* an acknowledgement named last, which goes to the client of its turn and to
\* no other, however connections break and what was missed is fetched again
\* (tui/src/main.rs chat_tool, replay.rs fetch_history, daemon
\* server/websocket.rs handle_inbound_frame).
THEOREM ClientsRunTheirOwn == EdgesSpec => []OwnCallsOnly
<1>1. EdgesInit => TuiInv
  <2> SUFFICES ASSUME Term!TuiInit PROVE TuiInv
    BY DEF EdgesInit
  <2>1. /\ orphans = {} /\ turns = <<>> /\ log = <<>>
        /\ box = [c \in Clients |-> ""] /\ thread = [c \in Clients |-> 0]
        /\ synced = [c \in Clients |-> 0] /\ tracked = [c \in Clients |-> 0]
        /\ cmds = [c \in Clients |-> <<>>] /\ events = [c \in Clients |-> <<>>]
        /\ ran = [c \in Clients |-> <<>>]
        /\ busy = [c \in Clients |-> {}] /\ fetching = [c \in Clients |-> {}]
    BY DEF Term!TuiInit, Term!Each
  <2>2. /\ box \in [Clients -> Texts \cup {""}] /\ thread \in [Clients -> Nat]
        /\ synced \in [Clients -> Nat] /\ tracked \in [Clients -> Nat]
        /\ fetching \in [Clients -> SUBSET Nat]
    BY <2>1
  <2>3. \A S : <<>> \in Seq(S)
    OBVIOUS
  <2>4. cmds \in [Clients -> Seq(Commands)] /\ ran \in [Clients -> Seq(Nat)]
    BY <2>1, <2>3
  <2>5. ASSUME NEW c \in Clients PROVE events[c] \in Seq(EventsOf(turns, c))
    BY <2>1, <2>3
  <2>6. turns \in Seq(TurnRecs) /\ log \in Seq(Nat \ {0})
    BY <2>1, <2>3
  <2>7. DOMAIN busy = Clients /\ DOMAIN events = Clients /\ \A c \in Clients : busy[c] = {}
    BY <2>1
  <2>8. TuiTyped
    BY <2>1, <2>2, <2>4, <2>6, <2>7 DEF TuiTyped
  <2>9. ASSUME NEW c \in Clients PROVE thread[c] = 0 /\ ran[c] = <<>>
    BY <2>1
  <2> QED BY <2>5, <2>8, <2>9 DEF TuiInv
<1>2. TuiInv /\ [EdgesNext]_edgeVars => TuiInv'
  BY EdgeSteps, TuiStep
<1>3. TuiInv => OwnCallsOnly
  BY DEF TuiInv, Own, OwnCallsOnly, Term!OwnCallsOnly
<1> QED BY <1>1, <1>2, <1>3, PTL DEF EdgesSpec

-----------------------------------------------------------------------------
(* The streams of the HTTP adapters.                                       *)

Parts == {"text", "call"}

\* The answer after one frame more.
Further(said, f) ==
  CASE Stream!response_stream(f) = "text" -> Stream!AddText(said)
    [] Stream!response_stream(f) = "call" -> Append(said, "call")
    [] OTHER -> said

Clean(fs) == \A i \in DOMAIN fs : Stream!response_stream(fs[i]) # "error"
Over(fs) == \E i \in DOMAIN fs : fs[i] = "done"

InText(said) == said # <<>> /\ said[Len(said)] = "text"
Calling(said) == Stream!CallsOf(said) # <<>>

\* The reader c has these parts, this block open and this stop reason.
Has(c, parts, open, stop) ==
  /\ DOMAIN c = {"parts", "open", "stop", "whole"}
  /\ c.parts = parts /\ c.open = open /\ c.stop = stop /\ c.whole = TRUE

\* to_sse_stream of anthropic.rs is at the block that is open, or the next.
Placed(s, said) ==
  /\ s.tools \in BOOLEAN /\ (s.tools = TRUE <=> Calling(said))
  /\ s.open \in BOOLEAN /\ (s.open = TRUE <=> InText(said))
  /\ s.index = IF InText(said) THEN Len(said) - 1 ELSE Len(said)

\* While the answer goes on, the adapter's state tells where it is, and a client
\* of events has what was said.
Along(a, c, s, said) ==
  /\ DOMAIN s = {"index", "tools", "open", "parts"}
  /\ a = "openai-sse" =>
       /\ Has(c, said, "none", IF Calling(said) THEN "tool_calls" ELSE "none")
       /\ s.index = Len(Stream!CallsOf(said))
  /\ a = "anthropic-sse" =>
       /\ Has(c, said, IF InText(said) THEN "text" ELSE "none", "none")
       /\ Placed(s, said)
  /\ ~Stream!Streaming(a) => Has(c, <<>>, "none", "none") /\ s.parts = said

\* The answer as the client has it at the end.
Whole(a, c, said) ==
  /\ c.whole /\ c.open = "none"
  /\ c.parts = IF a = "openai-json" /\ Calling(said) THEN Stream!CallsOf(said) ELSE said
  /\ c.stop \in (IF Calling(said) THEN {"tool_calls", "tool_use"} ELSE {"stop", "end_turn"})

StreamInv ==
  /\ adapter \in Stream!Adapters
  /\ frames \in Seq(Stream!FrameTypes)
  /\ Clean(frames) /\ ~Over(frames) /\ wire = "open" =>
       Along(adapter, client, scan, Stream!Said(frames))
  /\ Clean(frames) /\ Over(frames) =>
       /\ Whole(adapter, client, Stream!Said(frames))
       /\ wire = "open" => Stream!Streaming(adapter)

LEMMA StreamSift == \A s, S : Stream!Sift(s, S) = Sift(s, S)
BY DEF Stream!Sift, Stream!Sifted, Sift, Sifted

LEMMA FurtherIn ==
  ASSUME NEW x \in Seq(Parts), NEW f
  PROVE  Further(x, f) \in Seq(Parts)
<1>1. "text" \in Parts /\ "call" \in Parts
  BY DEF Parts
<1>2. Append(x, "text") \in Seq(Parts) /\ Append(x, "call") \in Seq(Parts)
  BY <1>1
<1>3. Stream!AddText(x) \in Seq(Parts)
  BY <1>2 DEF Stream!AddText
<1> QED BY <1>2, <1>3 DEF Further

\* The function that Telling names.
LEMMA TellingSteps ==
  ASSUME NEW fs \in Seq(Stream!FrameTypes)
  PROVE  /\ Stream!Telling(fs)[0] = <<>>
         /\ \A n \in 1..Len(fs) : Stream!Telling(fs)[n] = Further(Stream!Telling(fs)[n - 1], fs[n])
<1> DEFINE Step(g, n) == IF n = 0 THEN <<>>
                         ELSE CASE Stream!response_stream(fs[n]) = "text" -> Stream!AddText(g[n - 1])
                                [] Stream!response_stream(fs[n]) = "call" -> Append(g[n - 1], "call")
                                [] OTHER -> g[n - 1]
           m == Len(fs)
           A == Seq(Parts)
           b == <<>>
           f == [n \in 1..m |-> [x \in A |-> Further(x, fs[n])]]
<1>1. b \in A /\ m \in Nat
  OBVIOUS
<1>2. f \in [1..m -> [A -> A]]
  BY FurtherIn
<1>3. \A n \in 1..m, x \in A : f[n][x] = Further(x, fs[n])
  OBVIOUS
<1>4. PICK g \in [0..m -> A] : g[0] = b /\ \A n \in 1..m : g[n] = f[n][g[n - 1]]
  <2> HIDE DEF m, A, b, f
  <2>1. f \in Steps(A, m)
    BY <1>2 DEF Steps
  <2>2. Runs(A, b, m, f) # {}
    BY <1>1, <2>1, Recursion
  <2> QED BY <2>2 DEF Runs
<1>5. ASSUME NEW n \in 1..m PROVE g[n] = Further(g[n - 1], fs[n])
  <2>1. n - 1 \in 0..m
    BY <1>1
  <2>2. g[n - 1] \in A
    BY <2>1
  <2> HIDE DEF m, A, f
  <2> QED BY <1>3, <1>4, <2>2
<1>6. \A h, n : n # 0 => Step(h, n) = Further(h[n - 1], fs[n])
  BY DEF Further
<1>7. ASSUME NEW n \in 0..m PROVE g[n] = Step(g, n)
  <2>1. CASE n = 0
    BY <1>4, <2>1
  <2>2. CASE n # 0
    <3>1. n \in 1..m
      BY <1>1, <2>2
    <3> HIDE DEF Step, m, f
    <3> QED BY <1>5, <1>6, <2>2, <3>1
  <2> QED BY <2>1, <2>2
<1>8. g = [n \in 0..m |-> Step(g, n)]
  <2>1. g = [n \in 0..m |-> g[n]]
    OBVIOUS
  <2> HIDE DEF Step
  <2> QED BY <1>7, <2>1
<1>9. Stream!Telling(fs) = CHOOSE h : h = [n \in 0..m |-> Step(h, n)]
  BY DEF Stream!Telling
<1>10. Stream!Telling(fs) = [n \in 0..m |-> Step(Stream!Telling(fs), n)]
  <2> HIDE DEF Step
  <2> QED BY <1>8, <1>9
<1>11. Stream!Telling(fs)[0] = <<>>
  BY <1>1, <1>10
<1>12. ASSUME NEW n \in 1..m PROVE Stream!Telling(fs)[n] = Further(Stream!Telling(fs)[n - 1], fs[n])
  <2>1. n \in 0..m /\ n # 0
    BY <1>1
  <2> HIDE DEF Step, m
  <2> QED BY <1>6, <1>10, <2>1
<1> QED BY <1>11, <1>12

LEMMA TellingIn ==
  ASSUME NEW fs \in Seq(Stream!FrameTypes)
  PROVE  \A n \in 0..Len(fs) : Stream!Telling(fs)[n] \in Seq(Parts)
<1> DEFINE T == {n \in 0..Len(fs) : Stream!Telling(fs)[n] \in Seq(Parts)}
<1>1. 0 \in T
  <2>1. <<>> \in Seq(Parts) /\ 0 \in 0..Len(fs)
    OBVIOUS
  <2> QED BY <2>1, TellingSteps
<1>2. ASSUME NEW n \in 1..Len(fs), n - 1 \in T PROVE n \in T
  BY <1>2, TellingSteps, FurtherIn
<1>3. Len(fs) \in Nat
  OBVIOUS
<1>4. 0..Len(fs) \subseteq T
  <2> HIDE DEF T
  <2> QED BY <1>1, <1>2, <1>3, InductionTo
<1> QED BY <1>4

\* What was said goes on with each frame.
LEMMA SaidAppend ==
  ASSUME NEW fs \in Seq(Stream!FrameTypes), NEW e \in Stream!FrameTypes
  PROVE  Stream!Said(Append(fs, e)) = Further(Stream!Said(fs), e)
<1> DEFINE gs == Append(fs, e)
           m == Len(fs)
           T == {n \in 0..m : Stream!Telling(fs)[n] = Stream!Telling(gs)[n]}
<1>1. /\ gs \in Seq(Stream!FrameTypes) /\ m \in Nat /\ Len(gs) = m + 1 /\ gs[m + 1] = e
      /\ \A i \in 1..m : gs[i] = fs[i]
  OBVIOUS
<1> HIDE DEF gs
<1>2. 0 \in T
  BY <1>1, TellingSteps
<1>3. ASSUME NEW n \in 1..m, n - 1 \in T PROVE n \in T
  <2>1. n \in 1..Len(gs) /\ gs[n] = fs[n] /\ n \in 0..m
    BY <1>1
  <2>2. Stream!Telling(fs)[n] = Further(Stream!Telling(fs)[n - 1], fs[n])
    BY TellingSteps
  <2>3. Stream!Telling(gs)[n] = Further(Stream!Telling(gs)[n - 1], gs[n])
    BY <1>1, <2>1, TellingSteps
  <2> QED BY <1>3, <2>1, <2>2, <2>3
<1>4. 0..m \subseteq T
  <2> HIDE DEF T, m
  <2> QED BY <1>1, <1>2, <1>3, InductionTo
<1>5. Stream!Telling(fs)[m] = Stream!Telling(gs)[m]
  BY <1>1, <1>4
<1>6. Stream!Telling(gs)[m + 1] = Further(Stream!Telling(gs)[m], e)
  <2>1. m + 1 \in 1..Len(gs) /\ (m + 1) - 1 = m
    BY <1>1
  <2>2. Stream!Telling(gs)[m + 1] = Further(Stream!Telling(gs)[(m + 1) - 1], gs[m + 1])
    BY <1>1, <2>1, TellingSteps
  <2> QED BY <1>1, <2>1, <2>2
<1> QED BY <1>1, <1>5, <1>6 DEF Stream!Said, gs

LEMMA SaidIn ==
  ASSUME NEW fs \in Seq(Stream!FrameTypes)
  PROVE  Stream!Said(fs) \in Seq(Parts)
<1>1. Len(fs) \in 0..Len(fs)
  OBVIOUS
<1> QED BY <1>1, TellingIn DEF Stream!Said

\* The calls of an answer that goes on.
LEMMA CallsGoOn ==
  ASSUME NEW x \in Seq(Parts)
  PROVE  /\ Stream!CallsOf(x) \in Seq(Parts)
         /\ Stream!CallsOf(Append(x, "call")) = Append(Stream!CallsOf(x), "call")
         /\ Stream!CallsOf(Stream!AddText(x)) = Stream!CallsOf(x)
<1>1. "text" \in Parts /\ "call" \in Parts /\ "text" \notin {"call"} /\ "call" \in {"call"}
  BY DEF Parts
<1>2. Stream!CallsOf(x) \in Seq(Parts \cap {"call"})
  BY SiftIn, StreamSift DEF Stream!CallsOf
<1>3. Stream!CallsOf(x) \in Seq(Parts)
  BY <1>2
<1>4. Sift(Append(x, "call"), {"call"}) = Append(Sift(x, {"call"}), "call")
  BY <1>1, SiftAppend
<1>5. Sift(Append(x, "text"), {"call"}) = Sift(x, {"call"})
  BY <1>1, SiftAppend
<1>6. Stream!CallsOf(Stream!AddText(x)) = Stream!CallsOf(x)
  BY <1>5, StreamSift DEF Stream!CallsOf, Stream!AddText
<1> QED BY <1>3, <1>4, <1>6, StreamSift DEF Stream!CallsOf

\* What a frame adds.
LEMMA FurtherIs ==
  ASSUME NEW x, NEW e \in Stream!FrameTypes
  PROVE  /\ e = "text" => Stream!response_stream(e) = "text" /\ Further(x, e) = Stream!AddText(x)
         /\ e = "call" => Stream!response_stream(e) = "call" /\ Further(x, e) = Append(x, "call")
         /\ e = "blank" => Stream!response_stream(e) = "none" /\ Further(x, e) = x
         /\ e = "done" => Stream!response_stream(e) = "done" /\ Further(x, e) = x
         /\ e \notin {"text", "call", "blank", "done"} => Stream!response_stream(e) = "error"
BY DEF Further, Stream!response_stream, Stream!FrameTypes

LEMMA CallingIs ==
  ASSUME NEW x \in Seq(Parts)
  PROVE  /\ Calling(Append(x, "call")) /\ Calling(Stream!AddText(x)) = Calling(x)
         /\ ~InText(Append(x, "call")) /\ InText(Stream!AddText(x))
         /\ Stream!AddText(x) = IF InText(x) THEN x ELSE Append(x, "text")
<1>1. "call" \in Parts /\ "text" \in Parts /\ "call" # "text"
  BY DEF Parts
<1>2. Append(Stream!CallsOf(x), "call") # <<>>
  BY <1>1, CallsGoOn
<1>3. Calling(Append(x, "call")) /\ Calling(Stream!AddText(x)) = Calling(x)
  BY <1>2, CallsGoOn DEF Calling
<1>4. /\ Len(Append(x, "call")) = Len(x) + 1 /\ Append(x, "call")[Len(x) + 1] = "call"
      /\ Len(Append(x, "text")) = Len(x) + 1 /\ Append(x, "text")[Len(x) + 1] = "text"
      /\ Append(x, "text") # <<>>
  BY <1>1
<1>5. ~InText(Append(x, "call")) /\ InText(Append(x, "text"))
  BY <1>1, <1>4 DEF InText
<1>6. Stream!AddText(x) = IF InText(x) THEN x ELSE Append(x, "text")
  BY DEF Stream!AddText, InText
<1>7. InText(Stream!AddText(x))
  BY <1>5, <1>6
<1> QED BY <1>3, <1>5, <1>6, <1>7

\* What the changes of a reader do.
LEMMA HasChanges ==
  ASSUME NEW c, NEW x, NEW o, NEW t, Has(c, x, o, t), NEW y
  PROVE  /\ Has([c EXCEPT !.parts = y], y, o, t)
         /\ Has([c EXCEPT !.open = y], x, y, t)
         /\ Has([c EXCEPT !.stop = y], x, o, y)
         /\ c.parts = x /\ c.open = o /\ c.stop = t
BY DEF Has

\* to_sse_stream of openai.rs.
LEMMA OpenAiKeeps ==
  ASSUME NEW x \in Seq(Parts), NEW c, NEW s, Along("openai-sse", c, s, x)
  PROVE  /\ Along("openai-sse", Stream!OpenAiEvent(c, s, "text")[1], Stream!OpenAiEvent(c, s, "text")[2],
                  Stream!AddText(x))
         /\ Along("openai-sse", Stream!OpenAiEvent(c, s, "call")[1], Stream!OpenAiEvent(c, s, "call")[2],
                  Append(x, "call"))
         /\ Whole("openai-sse", Stream!OpenAiEvent(c, s, "done")[1], x)
<1> DEFINE stop == IF Calling(x) THEN "tool_calls" ELSE "none"
           k == Len(Stream!CallsOf(x))
<1>1. Has(c, x, "none", stop) /\ s.index = k /\ DOMAIN s = {"index", "tools", "open", "parts"}
  BY DEF Along
<1>2. k \in Nat /\ (k > 0 <=> Calling(x)) /\ Len(Append(Stream!CallsOf(x), "call")) = k + 1
  <2>1. Stream!CallsOf(x) \in Seq(Parts)
    BY CallsGoOn
  <2>2. "call" \in Parts
    BY DEF Parts
  <2> QED BY <2>1, <2>2 DEF Calling
<1> HIDE DEF k, stop
<1>3. /\ Stream!OpenAiEvent(c, s, "text") = <<[c EXCEPT !.parts = Stream!AddText(c.parts)], s>>
      /\ Stream!OpenAiEvent(c, s, "call") =
           <<[Stream!FileCall(c, s.index) EXCEPT !.stop = "tool_calls"], [s EXCEPT !.index = s.index + 1]>>
      /\ Stream!OpenAiEvent(c, s, "done") = <<IF s.index > 0 THEN c ELSE [c EXCEPT !.stop = "stop"], s>>
  BY DEF Stream!OpenAiEvent
<1>4. c.parts = x
  BY <1>1, HasChanges
<1>5. Has(Stream!OpenAiEvent(c, s, "text")[1], Stream!AddText(x), "none", stop)
  <2>1. Has([c EXCEPT !.parts = Stream!AddText(x)], Stream!AddText(x), "none", stop)
    BY <1>1, HasChanges
  <2>2. Stream!OpenAiEvent(c, s, "text")[1] = [c EXCEPT !.parts = Stream!AddText(x)]
    BY <1>3, <1>4
  <2> QED BY <2>1, <2>2
<1>6. Has(Stream!FileCall(c, s.index), Append(x, "call"), "none", stop)
  <2>1. Stream!FileCall(c, s.index) = [c EXCEPT !.parts = Append(x, "call")]
    BY <1>1, <1>4 DEF Stream!FileCall, k
  <2> DEFINE y == Append(x, "call")
  <2> HIDE DEF y
  <2>2. Has([c EXCEPT !.parts = y], y, "none", stop)
    BY <1>1, HasChanges
  <2> QED BY <2>1, <2>2 DEF y
<1>7. Has(Stream!OpenAiEvent(c, s, "call")[1], Append(x, "call"), "none", "tool_calls")
  <2> DEFINE d == Stream!FileCall(c, s.index)
  <2>1. Has([d EXCEPT !.stop = "tool_calls"], Append(x, "call"), "none", "tool_calls")
    BY <1>6, HasChanges
  <2>2. Stream!OpenAiEvent(c, s, "call")[1] = [d EXCEPT !.stop = "tool_calls"]
    BY <1>3
  <2> QED BY <2>1, <2>2
<1>8. /\ DOMAIN Stream!OpenAiEvent(c, s, "call")[2] = {"index", "tools", "open", "parts"}
      /\ Stream!OpenAiEvent(c, s, "call")[2].index = k + 1
  BY <1>1, <1>3
<1>9. Along("openai-sse", Stream!OpenAiEvent(c, s, "text")[1], Stream!OpenAiEvent(c, s, "text")[2],
            Stream!AddText(x))
  <2>1. Stream!OpenAiEvent(c, s, "text")[2] = s
    BY <1>3
  <2> QED BY <1>1, <1>5, <2>1, CallingIs, CallsGoOn DEF Along, stop, k, Stream!Streaming
<1>10. Along("openai-sse", Stream!OpenAiEvent(c, s, "call")[1], Stream!OpenAiEvent(c, s, "call")[2],
             Append(x, "call"))
  BY <1>2, <1>7, <1>8, CallingIs, CallsGoOn DEF Along, Stream!Streaming
<1>11. Whole("openai-sse", Stream!OpenAiEvent(c, s, "done")[1], x)
  <2>1. CASE Calling(x)
    <3>1. Stream!OpenAiEvent(c, s, "done")[1] = c
      BY <1>1, <1>2, <1>3, <2>1
    <3>2. stop = "tool_calls"
      BY <2>1 DEF stop
    <3> QED BY <1>1, <2>1, <3>1, <3>2 DEF Whole, Has
  <2>2. CASE ~Calling(x)
    <3>1. Stream!OpenAiEvent(c, s, "done")[1] = [c EXCEPT !.stop = "stop"]
      BY <1>1, <1>2, <1>3, <2>2
    <3>2. Has([c EXCEPT !.stop = "stop"], x, "none", "stop")
      BY <1>1, HasChanges
    <3> QED BY <2>2, <3>1, <3>2 DEF Whole, Has
  <2> QED BY <2>1, <2>2
<1> QED BY <1>9, <1>10, <1>11

\* to_sse_stream of anthropic.rs: the text block that is open is closed.
LEMMA CloseTextIs ==
  ASSUME NEW x \in Seq(Parts), NEW c, NEW s, Placed(s, x),
         Has(c, x, IF InText(x) THEN "text" ELSE "none", "none")
  PROVE  Has(Stream!CloseText(c, s), x, "none", "none")
<1> USE DEF Placed
<1>1. CASE InText(x)
  <2>1. Stream!CloseText(c, s) = Stream!BlockStop(c, s.index)
    BY <1>1 DEF Stream!CloseText
  <2>2. c.open = "text" /\ c.parts = x /\ s.index + 1 = Len(x)
    BY <1>1 DEF Has
  <2>3. Stream!BlockStop(c, s.index) = [c EXCEPT !.open = "none"]
    BY <2>2 DEF Stream!BlockStop
  <2>4. Has([c EXCEPT !.open = "none"], x, "none", "none")
    BY HasChanges
  <2> QED BY <2>1, <2>3, <2>4
<1>2. CASE ~InText(x)
  <2>1. Stream!CloseText(c, s) = c
    BY <1>2 DEF Stream!CloseText
  <2> QED BY <1>2, <2>1
<1> QED BY <1>1, <1>2

\* A block is opened after the last, filled and closed.
LEMMA BlockIs ==
  ASSUME NEW x \in Seq(Parts), NEW c, Has(c, x, "none", "none"), NEW type \in Parts, NEW y, y = Append(x, type)
  PROVE  /\ Has(Stream!BlockStart(c, Len(x), type), y, type, "none")
         /\ \A d : Has(d, y, type, "none") =>
              /\ Stream!BlockDelta(d, Len(x), type) = d
              /\ Has(Stream!BlockStop(d, Len(x)), y, "none", "none")
<1>1. c.open = "none" /\ c.parts = x
  BY DEF Has
<1>2. Stream!BlockStart(c, Len(x), type) = [c EXCEPT !.open = type, !.parts = y]
  BY <1>1 DEF Stream!BlockStart
<1>3. Has([[c EXCEPT !.open = type] EXCEPT !.parts = y], y, type, "none")
  <2>1. Has([c EXCEPT !.open = type], x, type, "none")
    BY HasChanges
  <2> QED BY <2>1, HasChanges
<1>4. Has([c EXCEPT !.open = type, !.parts = y], y, type, "none")
  BY <1>3
<1>5. Len(y) = Len(x) + 1 /\ type # "none"
  BY DEF Parts
<1>6. ASSUME NEW d, Has(d, y, type, "none")
      PROVE  /\ Stream!BlockDelta(d, Len(x), type) = d
             /\ Has(Stream!BlockStop(d, Len(x)), y, "none", "none")
  <2>1. d.open = type /\ d.parts = y
    BY <1>6 DEF Has
  <2>2. Stream!BlockDelta(d, Len(x), type) = d
    BY <1>5, <2>1 DEF Stream!BlockDelta
  <2>3. Stream!BlockStop(d, Len(x)) = [d EXCEPT !.open = "none"]
    BY <1>5, <2>1 DEF Stream!BlockStop
  <2>4. Has([d EXCEPT !.open = "none"], y, "none", "none")
    BY <1>6, HasChanges
  <2> QED BY <2>2, <2>3, <2>4
<1> QED BY <1>2, <1>4, <1>6

LEMMA AnthropicKeeps ==
  ASSUME NEW x \in Seq(Parts), NEW c, NEW s, DOMAIN s = {"index", "tools", "open"}, Placed(s, x),
         Has(c, x, IF InText(x) THEN "text" ELSE "none", "none")
  PROVE  /\ Has(Stream!AnthropicEvent(c, s, "text")[1], Stream!AddText(x), "text", "none")
         /\ Placed(Stream!AnthropicEvent(c, s, "text")[2], Stream!AddText(x))
         /\ Has(Stream!AnthropicEvent(c, s, "call")[1], Append(x, "call"), "none", "none")
         /\ Placed(Stream!AnthropicEvent(c, s, "call")[2], Append(x, "call"))
         /\ Whole("anthropic-sse", Stream!AnthropicEvent(c, s, "done")[1], x)
<1> DEFINE y == Stream!AddText(x)
           z == Append(x, "call")
           started == IF s.open THEN c ELSE Stream!BlockStart(c, s.index, "text")
           i == IF s.open THEN s.index + 1 ELSE s.index
           closed == Stream!CloseText(c, s)
           opened == Stream!BlockStart(closed, i, "call")
           reason == IF s.tools THEN "tool_use" ELSE "end_turn"
           inside == [s EXCEPT !.open = TRUE]
           after == [index |-> i + 1, tools |-> TRUE, open |-> FALSE]
<1>1. /\ Stream!AnthropicEvent(c, s, "text")
           = <<Stream!BlockDelta(started, s.index, "text"), inside>>
      /\ Stream!AnthropicEvent(c, s, "call") = Stream!ToolUse(c, s)
      /\ Stream!AnthropicEvent(c, s, "done")
           = <<Stream!MessageStop(closed, reason), [s EXCEPT !.open = FALSE]>>
  BY DEF Stream!AnthropicEvent
<1>2. Stream!ToolUse(c, s)
        = <<Stream!BlockStop(Stream!BlockDelta(opened, i, "call"), i), after>>
  BY DEF Stream!ToolUse
<1>3. /\ Calling(z) /\ Calling(y) = Calling(x) /\ ~InText(z) /\ InText(y)
      /\ y = IF InText(x) THEN x ELSE Append(x, "text")
  BY CallingIs
<1>4. "text" \in Parts /\ "call" \in Parts /\ Len(x) \in Nat /\ Len(z) = Len(x) + 1
  BY DEF Parts
<1>5. i = Len(x)
  BY <1>4 DEF Placed
<1>6. Has(closed, x, "none", "none")
  BY CloseTextIs
<1> HIDE DEF y, z, started, i, closed, opened, reason, inside, after
<1>7. Has(Stream!BlockDelta(started, s.index, "text"), y, "text", "none") /\ s.index = Len(y) - 1
  <2>1. CASE InText(x)
    <3>1. started = c /\ y = x /\ s.index = Len(x) - 1
      BY <1>3, <2>1 DEF started, Placed
    <3>2. c.open = "text" /\ c.parts = x
      BY <2>1 DEF Has
    <3>3. Stream!BlockDelta(c, s.index, "text") = c
      BY <1>4, <3>1, <3>2 DEF Stream!BlockDelta
    <3> QED BY <2>1, <3>1, <3>3
  <2>2. CASE ~InText(x)
    <3>1. started = Stream!BlockStart(c, Len(x), "text") /\ y = Append(x, "text") /\ s.index = Len(x)
      BY <1>3, <2>2 DEF started, Placed
    <3>2. Has(c, x, "none", "none")
      BY <2>2
    <3>3. Has(started, y, "text", "none")
      BY <1>4, <3>1, <3>2, BlockIs
    <3>4. Stream!BlockDelta(started, Len(x), "text") = started
      BY <1>4, <3>1, <3>2, <3>3, BlockIs
    <3>5. Len(y) = Len(x) + 1
      BY <1>4, <3>1
    <3> QED BY <1>4, <3>1, <3>3, <3>4, <3>5
  <2> QED BY <2>1, <2>2
<1>8. Placed(inside, y)
  <2>1. inside.open = TRUE /\ inside.tools = s.tools /\ inside.index = s.index
    BY DEF inside
  <2>2. inside.tools \in BOOLEAN /\ (inside.tools = TRUE <=> Calling(y))
    BY <1>3, <2>1 DEF Placed
  <2>3. inside.open \in BOOLEAN /\ (inside.open = TRUE <=> InText(y))
    BY <1>3, <2>1
  <2>4. inside.index = IF InText(y) THEN Len(y) - 1 ELSE Len(y)
    BY <1>3, <1>7, <2>1
  <2> QED BY <2>2, <2>3, <2>4 DEF Placed
<1>9. Has(Stream!BlockStop(Stream!BlockDelta(opened, i, "call"), i), z, "none", "none")
  <2>1. Has(opened, z, "call", "none")
    BY <1>4, <1>5, <1>6, BlockIs DEF opened, z
  <2>2. /\ Stream!BlockDelta(opened, Len(x), "call") = opened
        /\ Has(Stream!BlockStop(opened, Len(x)), z, "none", "none")
    BY <1>4, <1>6, <2>1, BlockIs DEF z
  <2> QED BY <1>5, <2>2
<1>10. Placed(after, z)
  <2>1. after.open = FALSE /\ after.tools = TRUE /\ after.index = i + 1
    BY DEF after
  <2>2. after.tools \in BOOLEAN /\ (after.tools = TRUE <=> Calling(z))
    BY <1>3, <2>1
  <2>3. after.open \in BOOLEAN /\ (after.open = TRUE <=> InText(z))
    BY <1>3, <2>1
  <2>4. after.index = IF InText(z) THEN Len(z) - 1 ELSE Len(z)
    BY <1>3, <1>4, <1>5, <2>1
  <2> QED BY <2>2, <2>3, <2>4 DEF Placed
<1>11. Whole("anthropic-sse", Stream!MessageStop(closed, reason), x)
  <2>1. closed.open = "none"
    BY <1>6 DEF Has
  <2>2. Stream!MessageStop(closed, reason) = [closed EXCEPT !.stop = reason]
    BY <2>1 DEF Stream!MessageStop
  <2>3. Has([closed EXCEPT !.stop = reason], x, "none", reason)
    BY <1>6, HasChanges
  <2>4. reason = IF Calling(x) THEN "tool_use" ELSE "end_turn"
    BY DEF reason, Placed
  <2> QED BY <2>2, <2>3, <2>4 DEF Whole, Has
<1>12. /\ Has(Stream!AnthropicEvent(c, s, "text")[1], y, "text", "none")
       /\ Placed(Stream!AnthropicEvent(c, s, "text")[2], y)
  BY <1>1, <1>7, <1>8
<1>13. /\ Has(Stream!AnthropicEvent(c, s, "call")[1], z, "none", "none")
       /\ Placed(Stream!AnthropicEvent(c, s, "call")[2], z)
  <2>1. /\ Stream!AnthropicEvent(c, s, "call")[1] = Stream!BlockStop(Stream!BlockDelta(opened, i, "call"), i)
        /\ Stream!AnthropicEvent(c, s, "call")[2] = after
    BY <1>1, <1>2
  <2> QED BY <1>9, <1>10, <2>1
<1>14. Whole("anthropic-sse", Stream!AnthropicEvent(c, s, "done")[1], x)
  BY <1>1, <1>11
<1> QED BY <1>12, <1>13, <1>14 DEF y, z

\* The document of a collecting loop.
LEMMA CollectedIs ==
  ASSUME NEW x \in Seq(Parts), NEW s, s.parts = x, NEW a \in {"openai-json", "anthropic-json"}
  PROVE  Whole(a, Stream!Collected(a, s), x)
<1> DEFINE body == CASE a = "anthropic-json" -> s.parts
                     [] a = "openai-json" /\ Calling(x) -> Stream!CallsOf(x)
                     [] a = "openai-json" /\ ~Calling(x) -> Stream!Sift(x, {"text"})
           stop == CASE Calling(x) /\ a = "openai-json" -> "tool_calls"
                     [] Calling(x) /\ a = "anthropic-json" -> "tool_use"
                     [] ~Calling(x) /\ a = "openai-json" -> "stop"
                     [] ~Calling(x) /\ a = "anthropic-json" -> "end_turn"
<1>1. Stream!Collected(a, s) = [Stream!NewClient EXCEPT !.parts = body, !.stop = stop]
  BY DEF Stream!Collected, Calling
<1>2. ~Calling(x) => Stream!Sift(x, {"text"}) = x
  <2> SUFFICES ASSUME ~Calling(x) PROVE Sift(x, {"text"}) = x
    BY StreamSift
  <2>1. Sift(x, {"call"}) = <<>>
    BY StreamSift DEF Calling, Stream!CallsOf
  <2>2. \A i \in 1..Len(x) : x[i] \notin {"call"}
    BY <2>1, SiftSome
  <2>3. \A i \in 1..Len(x) : x[i] \in {"text"}
    BY <2>2 DEF Parts
  <2> QED BY <2>3, SiftAll
<1>3. body = IF a = "openai-json" /\ Calling(x) THEN Stream!CallsOf(x) ELSE x
  BY <1>2
<1>4. stop \in IF Calling(x) THEN {"tool_calls", "tool_use"} ELSE {"stop", "end_turn"}
  OBVIOUS
<1> HIDE DEF body, stop
<1>5. Has(Stream!NewClient, <<>>, "none", "none")
  BY DEF Has, Stream!NewClient
<1>6. Has([Stream!NewClient EXCEPT !.parts = body], body, "none", "none")
  BY <1>5, HasChanges
<1>7. Has([[Stream!NewClient EXCEPT !.parts = body] EXCEPT !.stop = stop], body, "none", stop)
  BY <1>6, HasChanges
<1>8. Has(Stream!Collected(a, s), body, "none", stop)
  <2> DEFINE n == Stream!NewClient
  <2> HIDE DEF n
  <2>1. [n EXCEPT !.parts = body, !.stop = stop] = [[n EXCEPT !.parts = body] EXCEPT !.stop = stop]
    OBVIOUS
  <2> QED BY <1>1, <1>7, <2>1 DEF n
<1> QED BY <1>3, <1>4, <1>8 DEF Whole, Has

LEMMA PlacedSame ==
  ASSUME NEW x, NEW s, NEW t, Placed(t, x), s.index = t.index, s.tools = t.tools, s.open = t.open
  PROVE  Placed(s, x)
BY DEF Placed

\* The frames so far and one more.
LEMMA FramesGoOn ==
  ASSUME NEW fs \in Seq(Stream!FrameTypes), NEW e \in Stream!FrameTypes
  PROVE  /\ Append(fs, e) \in Seq(Stream!FrameTypes)
         /\ Clean(Append(fs, e)) <=> Clean(fs) /\ Stream!response_stream(e) # "error"
         /\ Over(Append(fs, e)) <=> Over(fs) \/ e = "done"
<1> DEFINE gs == Append(fs, e)
           m == Len(fs)
<1>1. /\ gs \in Seq(Stream!FrameTypes) /\ m \in Nat /\ DOMAIN gs = 1..(m + 1) /\ gs[m + 1] = e
      /\ DOMAIN fs = 1..m /\ \A i \in 1..m : gs[i] = fs[i]
  OBVIOUS
<1> HIDE DEF gs, m
<1>2. DOMAIN gs = (1..m) \cup {m + 1}
  BY <1>1
<1>3. Clean(gs) <=> Clean(fs) /\ Stream!response_stream(e) # "error"
  BY <1>1, <1>2 DEF Clean
<1>4. Over(gs) <=> Over(fs) \/ e = "done"
  BY <1>1, <1>2 DEF Over
<1> QED BY <1>1, <1>3, <1>4 DEF gs

\* The next frame of the turn stream.
LEMMA PollKeeps ==
  ASSUME StreamInv, NEW f \in Stream!FrameTypes, Stream!Poll(f)
  PROVE  StreamInv'
<1> DEFINE x == Stream!Said(frames)
           y == Further(x, f)
<1>1. /\ wire = "open" /\ ~Over(frames) /\ frames' = Append(frames, f) /\ adapter' = adapter
      /\ adapter \in Stream!Adapters /\ frames \in Seq(Stream!FrameTypes)
  BY DEF StreamInv, Stream!Poll, Stream!Ended, Over
<1>2. /\ frames' \in Seq(Stream!FrameTypes)
      /\ Clean(frames') <=> Clean(frames) /\ Stream!response_stream(f) # "error"
      /\ Over(frames') <=> f = "done"
  BY <1>1, FramesGoOn
<1>3. Stream!Said(frames') = y /\ x \in Seq(Parts)
  BY <1>1, SaidAppend, SaidIn
<1> HIDE DEF x, y
<1> SUFFICES ASSUME Clean(frames')
             PROVE  /\ f = "done" => /\ Whole(adapter, client', y)
                                     /\ wire' = "open" => Stream!Streaming(adapter)
                    /\ f # "done" /\ wire' = "open" => Along(adapter, client', scan', y)
  BY <1>1, <1>2, <1>3 DEF StreamInv
<1>4. Along(adapter, client, scan, x) /\ Stream!response_stream(f) # "error"
  BY <1>1, <1>2 DEF StreamInv, x
<1>5. CASE f = "blank"
  <2>1. Stream!response_stream(f) = "none" /\ y = x
    BY <1>5, FurtherIs DEF y
  <2>2. client' = client /\ scan' = scan
    BY <2>1 DEF Stream!Poll
  <2> QED BY <1>4, <1>5, <2>1, <2>2
<1>6. CASE f \in {"text", "call", "done"} /\ Stream!Streaming(adapter)
  <2>1. Stream!response_stream(f) = f
    BY <1>6, FurtherIs
  <2>2. Stream!Stream(f)
    BY <1>6, <2>1 DEF Stream!Poll
  <2>3. CASE adapter = "openai-sse"
    <3> DEFINE e == Stream!OpenAiEvent(client, scan, f)
    <3>1. client' = e[1] /\ scan' = [index |-> e[2].index, tools |-> e[2].tools, open |-> e[2].open,
                                     parts |-> scan.parts]
      BY <2>2, <2>3 DEF Stream!Stream
    <3> HIDE DEF e
    <3>2. scan'.index = e[2].index /\ DOMAIN scan' = {"index", "tools", "open", "parts"}
      BY <3>1
    <3>3. CASE f = "done"
      <4>1. y = x
        BY <3>3, FurtherIs DEF y
      <4>2. Whole("openai-sse", e[1], x)
        BY <1>3, <1>4, <2>3, <3>3, OpenAiKeeps DEF e
      <4> QED BY <1>6, <2>3, <3>1, <3>3, <4>1, <4>2
    <3>4. CASE f # "done"
      <4>1. Along("openai-sse", e[1], e[2], y)
        <5>1. CASE f = "text"
          <6>1. y = Stream!AddText(x)
            BY <5>1, FurtherIs DEF y
          <6> QED BY <1>3, <1>4, <2>3, <5>1, <6>1, OpenAiKeeps DEF e
        <5>2. CASE f = "call"
          <6>1. y = Append(x, "call")
            BY <5>2, FurtherIs DEF y
          <6> QED BY <1>3, <1>4, <2>3, <5>2, <6>1, OpenAiKeeps DEF e
        <5> QED BY <1>6, <3>4, <5>1, <5>2
      <4>2. Along("openai-sse", client', scan', y)
        BY <3>1, <3>2, <4>1 DEF Along, Stream!Streaming
      <4> QED BY <2>3, <3>4, <4>2
    <3> QED BY <3>3, <3>4
  <2>4. CASE adapter = "anthropic-sse"
    <3> DEFINE s == [index |-> scan.index, tools |-> scan.tools, open |-> scan.open]
               e == Stream!AnthropicEvent(client, s, f)
    <3>1. client' = e[1] /\ scan' = [index |-> e[2].index, tools |-> e[2].tools, open |-> e[2].open,
                                     parts |-> scan.parts]
      BY <2>2, <2>4 DEF Stream!Stream
    <3>2. s.index = scan.index /\ s.tools = scan.tools /\ s.open = scan.open
          /\ DOMAIN s = {"index", "tools", "open"}
      OBVIOUS
    <3> HIDE DEF e, s
    <3>3. /\ scan'.index = e[2].index /\ scan'.tools = e[2].tools /\ scan'.open = e[2].open
          /\ DOMAIN scan' = {"index", "tools", "open", "parts"}
      BY <3>1
    <3>4. Has(client, x, IF InText(x) THEN "text" ELSE "none", "none") /\ Placed(s, x)
      BY <1>4, <2>4, <3>2, PlacedSame DEF Along
    <3>5. CASE f = "done"
      <4>1. y = x
        BY <3>5, FurtherIs DEF y
      <4>2. Whole("anthropic-sse", e[1], x)
        BY <1>3, <3>2, <3>4, <3>5, AnthropicKeeps DEF e
      <4> QED BY <1>6, <2>4, <3>1, <3>5, <4>1, <4>2
    <3>6. CASE f # "done"
      <4>1. Has(e[1], y, IF InText(y) THEN "text" ELSE "none", "none") /\ Placed(e[2], y)
        <5>1. CASE f = "text"
          <6>1. y = Stream!AddText(x)
            BY <5>1, FurtherIs DEF y
          <6>2. InText(y)
            BY <1>3, <6>1, CallingIs
          <6> QED BY <1>3, <3>2, <3>4, <5>1, <6>1, <6>2, AnthropicKeeps DEF e
        <5>2. CASE f = "call"
          <6>1. y = Append(x, "call")
            BY <5>2, FurtherIs DEF y
          <6>2. ~InText(y)
            BY <1>3, <6>1, CallingIs
          <6>3. Has(e[1], y, "none", "none") /\ Placed(e[2], y)
            BY <1>3, <3>2, <3>4, <5>2, <6>1, AnthropicKeeps DEF e
          <6> QED BY <6>2, <6>3
        <5> QED BY <1>6, <3>6, <5>1, <5>2
      <4>3. Has(client', y, IF InText(y) THEN "text" ELSE "none", "none")
        BY <3>1, <4>1
      <4>4. Placed(scan', y)
        BY <3>3, <4>1, PlacedSame
      <4>5. Along("anthropic-sse", client', scan', y)
        BY <3>3, <4>3, <4>4 DEF Along, Stream!Streaming
      <4> QED BY <2>4, <3>6, <4>5
    <3> QED BY <3>5, <3>6
  <2> QED BY <1>6, <2>3, <2>4 DEF Stream!Streaming
<1>7. CASE f \in {"text", "call", "done"} /\ ~Stream!Streaming(adapter)
  <2>1. Stream!response_stream(f) = f
    BY <1>7, FurtherIs
  <2>2. Stream!Gather(f)
    BY <1>7, <2>1 DEF Stream!Poll
  <2>3. adapter \in {"openai-json", "anthropic-json"} /\ Has(client, <<>>, "none", "none") /\ scan.parts = x
        /\ DOMAIN scan = {"index", "tools", "open", "parts"}
    BY <1>1, <1>4, <1>7 DEF Along, Stream!Adapters, Stream!Streaming
  <2>4. CASE f = "done"
    <3>1. client' = Stream!Collected(adapter, scan) /\ wire' = "closed"
      BY <2>2, <2>4 DEF Stream!Gather
    <3>2. y = x
      BY <2>4, FurtherIs DEF y
    <3>3. Whole(adapter, Stream!Collected(adapter, scan), x)
      BY <1>3, <2>3, CollectedIs
    <3> QED BY <2>4, <3>1, <3>2, <3>3
  <2>5. CASE f # "done"
    <3>1. client' = client /\ scan' = Stream!Collect(scan, f)
      BY <1>7, <2>2, <2>5 DEF Stream!Gather
    <3>2. scan' = [scan EXCEPT !.parts = y]
      BY <1>7, <2>3, <2>5, <3>1, FurtherIs DEF Stream!Collect, y
    <3>3. scan'.parts = y /\ DOMAIN scan' = {"index", "tools", "open", "parts"}
      BY <2>3, <3>2
    <3>4. Along(adapter, client', scan', y)
      BY <1>7, <2>3, <3>1, <3>3 DEF Along, Stream!Streaming
    <3> QED BY <2>5, <3>4
  <2> QED BY <2>4, <2>5
<1>8. f \in {"blank", "text", "call", "done"}
  BY <1>4, FurtherIs
<1> QED BY <1>5, <1>6, <1>7, <1>8

LEMMA StreamStep ==
  ASSUME StreamInv, [Stream!StreamNext]_streamVars
  PROVE  StreamInv'
<1>1. ASSUME NEW f \in Stream!FrameTypes, Stream!Poll(f) PROVE StreamInv'
  BY <1>1, PollKeeps
<1>2. CASE Stream!StreamEnds
  <2>1. /\ wire = "open" /\ wire' = "closed" /\ adapter' = adapter /\ frames' = frames
        /\ Stream!Streaming(adapter) => client' = client
    BY <1>2 DEF Stream!StreamEnds
  <2> QED BY <2>1 DEF StreamInv
<1>3. CASE Stream!Leave
  <2>1. wire' = "dropped" /\ adapter' = adapter /\ frames' = frames /\ client' = client
    BY <1>3 DEF Stream!Leave
  <2> QED BY <2>1 DEF StreamInv
<1>4. CASE UNCHANGED streamVars
  BY <1>4 DEF StreamInv, streamVars
<1> QED BY <1>1, <1>2, <1>3, <1>4 DEF Stream!StreamNext

\* Whatever the frames of an answer, however many, and whichever adapter sends
\* them: an answer that comes to its done without an error is put together by
\* its client as the turn said it (server/openai.rs, server/anthropic.rs).
THEOREM AnswersArriveWhole == EdgesSpec => []AnswerIsWhole
<1>1. EdgesInit => StreamInv
  <2> SUFFICES ASSUME Stream!StreamInit PROVE StreamInv
    BY DEF EdgesInit
  <2>1. /\ adapter \in Stream!Adapters /\ frames = <<>> /\ client = Stream!NewClient
        /\ scan = [index |-> 0, tools |-> FALSE, open |-> FALSE, parts |-> <<>>]
    BY DEF Stream!StreamInit
  <2>2. frames \in Seq(Stream!FrameTypes) /\ ~Over(frames) /\ Len(frames) = 0
    BY <2>1 DEF Over
  <2>3. Stream!Said(frames) = <<>>
    BY <2>1, <2>2, TellingSteps DEF Stream!Said
  <2>4. /\ scan.index = 0 /\ scan.tools = FALSE /\ scan.open = FALSE /\ scan.parts = <<>>
        /\ DOMAIN scan = {"index", "tools", "open", "parts"}
    BY <2>1
  <2>5. Has(client, <<>>, "none", "none")
    BY <2>1 DEF Has, Stream!NewClient
  <2>6. Stream!CallsOf(<<>>) = <<>>
    BY StreamSift, SiftEmpty DEF Stream!CallsOf
  <2>7. ~Calling(<<>>) /\ ~InText(<<>>)
    BY <2>6 DEF Calling, InText
  <2>8. Placed(scan, <<>>)
    BY <2>4, <2>7 DEF Placed
  <2>9. Along(adapter, client, scan, <<>>)
    BY <2>4, <2>5, <2>6, <2>7, <2>8 DEF Along
  <2> QED BY <2>1, <2>2, <2>3, <2>9 DEF StreamInv
<1>2. StreamInv /\ [EdgesNext]_edgeVars => StreamInv'
  BY EdgeSteps, StreamStep
<1>3. StreamInv => AnswerIsWhole
  <2> SUFFICES ASSUME StreamInv, Stream!Ended,
                      ~\E i \in 1 .. Len(frames) : Stream!response_stream(frames[i]) = "error"
               PROVE  /\ client.whole /\ client.open = "none"
                      /\ client.parts = IF adapter = "openai-json" /\ Stream!CallsOf(Stream!Said(frames)) # <<>>
                                        THEN Stream!CallsOf(Stream!Said(frames)) ELSE Stream!Said(frames)
                      /\ client.stop \in (IF Stream!CallsOf(Stream!Said(frames)) # <<>>
                                          THEN {"tool_calls", "tool_use"} ELSE {"stop", "end_turn"})
    BY DEF AnswerIsWhole, Stream!AnswerIsWhole
  <2>1. DOMAIN frames = 1 .. Len(frames)
    BY DEF StreamInv
  <2>2. Clean(frames) /\ Over(frames)
    BY <2>1 DEF Clean, Over, Stream!Ended
  <2> QED BY <2>2 DEF StreamInv, Whole, Calling
<1> QED BY <1>1, <1>2, <1>3, PTL DEF EdgesSpec

-----------------------------------------------------------------------------
(* The monitor's feed.                                                     *)

Ops == {"req", "item", "ok", "done"}
Sent == [id : Calls, op : Ops]
Records == [n : Nat, resolved : {"no", "ok", "done"}, by : Nat]
Lists == [list : Seq(Records), pending : [Calls -> Nat]]

\* The record number i is of request c.
RecordOf(sent, list, i, c) ==
  i \in DOMAIN list /\ sent[list[i].n].op = "req" /\ sent[list[i].n].id = c

\* Every record is of a frame sent, the replies that mark it are replies to it,
\* and what is pending is the record of the request.
Marked(sent, list, waiting) ==
  /\ \A i \in DOMAIN list :
       /\ list[i].n \in DOMAIN sent
       /\ list[i].by # 0 =>
            /\ list[i].by \in DOMAIN sent
            /\ RecordOf(sent, list, i, sent[list[i].by].id)
  /\ \A c \in Calls : waiting[c] # 0 => RecordOf(sent, list, waiting[c], c)

FeedInv ==
  /\ feedSent \in Seq(Sent)
  /\ feedNext \in Nat \ {0}
  /\ feedChan \in Seq([n : Nat, link : BOOLEAN])
  /\ \A i \in DOMAIN feedChan : feedChan[i].n # 0 => feedChan[i].n \in DOMAIN feedSent
  /\ feedQueue \in Seq(Nat)
  /\ \A i \in DOMAIN feedQueue : feedQueue[i] \in DOMAIN feedSent
  /\ feedList \in Seq(Records)
  /\ feedPending \in [Calls -> Nat]
  /\ Marked(feedSent, feedList, feedPending)

\* pop_front: the records move down, and what is pending with them.
LEMMA EvictedKeeps ==
  ASSUME NEW sent \in Seq(Sent), NEW l \in Seq(Records), l # <<>>, NEW p \in [Calls -> Nat],
         Marked(sent, l, p), NEW t, t = Feed!Evicted(l, p)
  PROVE  t \in Lists /\ Marked(sent, t.list, t.pending)
<1> DEFINE m == Tail(l)
           q == [c \in Calls |-> IF p[c] = 0 THEN 0 ELSE p[c] - 1]
<1>1. CASE t = [list |-> l, pending |-> p]
  BY <1>1 DEF Lists
<1>2. CASE t = [list |-> m, pending |-> q]
  <2>1. /\ m \in Seq(Records) /\ \A i \in DOMAIN m : i + 1 \in DOMAIN l /\ m[i] = l[i + 1]
        /\ \A i \in DOMAIN l : i # 1 => (i - 1 \in DOMAIN m /\ i \in Nat)
    OBVIOUS
  <2>2. q \in [Calls -> Nat]
    OBVIOUS
  <2>3. \A c \in Calls : q[c] # 0 => p[c] # 0 /\ p[c] \in Nat /\ p[c] # 1 /\ q[c] = p[c] - 1
    OBVIOUS
  <2> HIDE DEF m, q
  <2>4. ASSUME NEW i, NEW c, RecordOf(sent, l, i + 1, c), i \in DOMAIN m PROVE RecordOf(sent, m, i, c)
    BY <2>1, <2>4 DEF RecordOf
  <2>5. ASSUME NEW i \in DOMAIN m
        PROVE  /\ m[i].n \in DOMAIN sent
               /\ m[i].by # 0 => m[i].by \in DOMAIN sent /\ RecordOf(sent, m, i, sent[m[i].by].id)
    BY <2>1, <2>4 DEF Marked
  <2>6. ASSUME NEW c \in Calls, q[c] # 0 PROVE RecordOf(sent, m, q[c], c)
    <3>1. p[c] # 0 /\ p[c] \in Nat /\ p[c] # 1 /\ q[c] = p[c] - 1
      BY <2>3, <2>6
    <3>2. RecordOf(sent, l, p[c], c)
      BY <3>1 DEF Marked
    <3>3. p[c] \in DOMAIN l /\ q[c] + 1 = p[c]
      BY <3>1, <3>2 DEF RecordOf
    <3>4. q[c] \in DOMAIN m
      BY <2>1, <3>1, <3>3
    <3> QED BY <2>4, <3>2, <3>3, <3>4
  <2>7. Marked(sent, m, q)
    BY <2>5, <2>6 DEF Marked
  <2> QED BY <1>2, <2>1, <2>2, <2>7 DEF Lists
<1>3. t = [list |-> l, pending |-> p] \/ t = [list |-> m, pending |-> q]
  BY DEF Feed!Evicted
<1> QED BY <1>1, <1>2, <1>3

\* push_frame, of a frame that was sent.
LEMMA PushKeeps ==
  ASSUME feedSent \in Seq(Sent), NEW s \in Lists, Marked(feedSent, s.list, s.pending),
         NEW n \in DOMAIN feedSent
  PROVE  /\ Feed!push_frame(s, n) \in Lists
         /\ Marked(feedSent, Feed!push_frame(s, n).list, Feed!push_frame(s, n).pending)
<1> DEFINE f == feedSent[n]
           l == s.list
           p == s.pending
           i == p[f.id]
           t == Feed!push_frame(s, n)
<1>1. /\ l \in Seq(Records) /\ p \in [Calls -> Nat] /\ f \in Sent /\ f.id \in Calls /\ f.op \in Ops
      /\ i \in Nat /\ n \in Nat /\ n # 0
  <2>1. l \in Seq(Records) /\ p \in [Calls -> Nat]
    BY DEF Lists
  <2>2. f \in Sent /\ n \in Nat /\ n # 0
    OBVIOUS
  <2> HIDE DEF f, l, p
  <2>3. f.id \in Calls /\ f.op \in Ops
    BY <2>2 DEF Sent
  <2> QED BY <2>1, <2>2, <2>3
<1>2. CASE f.op \in {"ok", "done"}
  <2> DEFINE m == IF i = 0 THEN l ELSE [l EXCEPT ![i] = [n |-> l[i].n, resolved |-> f.op, by |-> n]]
             q == [p EXCEPT ![f.id] = 0]
  <2>1. t = [list |-> m, pending |-> q]
    BY <1>2 DEF Feed!push_frame
  <2>2. q \in [Calls -> Nat] /\ \A c \in Calls : q[c] # 0 => q[c] = p[c]
    BY <1>1
  <2>3. i # 0 => RecordOf(feedSent, l, i, f.id)
    BY <1>1 DEF Marked
  <2>4. /\ m \in Seq(Records) /\ DOMAIN m = DOMAIN l /\ \A j \in DOMAIN l : m[j].n = l[j].n
        /\ \A j \in DOMAIN l : (j = i /\ m[j].by = n) \/ m[j].by = l[j].by
    <3>1. CASE i = 0
      BY <1>1, <3>1
    <3>2. CASE i # 0
      <4> DEFINE r == [n |-> l[i].n, resolved |-> f.op, by |-> n]
      <4>1. i \in DOMAIN l
        BY <2>3, <3>2 DEF RecordOf
      <4>2. l[i] \in Records
        BY <1>1, <4>1
      <4>3. r \in Records /\ r.n = l[i].n /\ r.by = n
        BY <1>1, <1>2, <4>2 DEF Records
      <4> HIDE DEF r
      <4>4. m = [l EXCEPT ![i] = r]
        BY <3>2 DEF r
      <4>5. m \in Seq(Records) /\ DOMAIN m = DOMAIN l /\ \A j \in DOMAIN l : m[j] = IF j = i THEN r ELSE l[j]
        <5>1. l \in Seq(Records)
          BY <1>1
        <5> HIDE DEF m, l, i
        <5> QED BY <4>1, <4>3, <4>4, <5>1
      <4> QED BY <4>3, <4>5
    <3> QED BY <3>1, <3>2
  <2> HIDE DEF m, q, t, i, l, p
  <2>5. ASSUME NEW j, NEW c, RecordOf(feedSent, l, j, c) PROVE RecordOf(feedSent, m, j, c)
    BY <2>4, <2>5 DEF RecordOf
  <2>6. ASSUME NEW j \in DOMAIN m
        PROVE  /\ m[j].n \in DOMAIN feedSent
               /\ m[j].by # 0 => m[j].by \in DOMAIN feedSent /\ RecordOf(feedSent, m, j, feedSent[m[j].by].id)
    <3>1. j \in DOMAIN l /\ m[j].n = l[j].n /\ l[j].n \in DOMAIN feedSent
      BY <2>4 DEF Marked, l, p
    <3>2. CASE m[j].by = l[j].by
      BY <2>5, <3>1, <3>2 DEF Marked, l, p
    <3>3. CASE j = i /\ m[j].by = n
      <4>1. i # 0
        BY <1>1, <3>1, <3>3
      <4> QED BY <2>3, <2>5, <3>1, <3>3, <4>1
    <3> QED BY <2>4, <3>1, <3>2, <3>3
  <2>7. Marked(feedSent, m, q)
    BY <2>2, <2>5, <2>6 DEF Marked, l, p
  <2>8. t \in Lists /\ t.list = m /\ t.pending = q
    BY <2>1, <2>2, <2>4 DEF Lists
  <2> QED BY <2>7, <2>8 DEF t
<1>3. CASE f.op \notin {"ok", "done"}
  <2> DEFINE r == [n |-> n, resolved |-> "no", by |-> 0]
             m == Append(l, r)
             q == IF f.op = "req" THEN [p EXCEPT ![f.id] = Len(l) + 1] ELSE p
  <2>1. t = Feed!Evicted(m, q)
    BY <1>3 DEF Feed!push_frame
  <2>2. r \in Records /\ r.n = n /\ r.by = 0
    BY <1>1 DEF Records
  <2> HIDE DEF r
  <2>3. /\ m \in Seq(Records) /\ m # <<>> /\ Len(l) + 1 \in DOMAIN m /\ m[Len(l) + 1] = r
        /\ \A j \in DOMAIN l : j \in DOMAIN m /\ m[j] = l[j]
        /\ \A j \in DOMAIN m : j \in DOMAIN l \/ j = Len(l) + 1
    BY <1>1, <2>2
  <2>4. q \in [Calls -> Nat]
    BY <1>1
  <2>5. \A c \in Calls : q[c] = p[c] \/ (c = f.id /\ f.op = "req" /\ q[c] = Len(l) + 1)
    <3> HIDE DEF f, l, p
    <3>1. CASE f.op = "req"
      <4>1. q = [p EXCEPT ![f.id] = Len(l) + 1]
        BY <3>1
      <4>2. p \in [Calls -> Nat] /\ f.id \in Calls
        BY <1>1
      <4>3. \A c \in Calls : q[c] = p[c] \/ (c = f.id /\ q[c] = Len(l) + 1)
        <5> HIDE DEF q
        <5> QED BY <4>1, <4>2
      <4> HIDE DEF q
      <4> QED BY <3>1, <4>3
    <3>2. CASE f.op # "req"
      <4>1. q = p
        BY <3>2
      <4> HIDE DEF q
      <4> QED BY <4>1
    <3> QED BY <3>1, <3>2
  <2> HIDE DEF m, q
  <2>6. ASSUME NEW j, NEW c, RecordOf(feedSent, l, j, c) PROVE RecordOf(feedSent, m, j, c)
    BY <2>3, <2>6 DEF RecordOf
  <2>7. ASSUME NEW j \in DOMAIN m
        PROVE  /\ m[j].n \in DOMAIN feedSent
               /\ m[j].by # 0 => m[j].by \in DOMAIN feedSent /\ RecordOf(feedSent, m, j, feedSent[m[j].by].id)
    <3>1. CASE j \in DOMAIN l
      <4>1. m[j] = l[j]
        BY <2>3, <3>1
      <4> QED BY <2>6, <3>1, <4>1 DEF Marked
    <3>2. CASE j = Len(l) + 1
      BY <2>2, <2>3, <3>2
    <3> QED BY <2>3, <3>1, <3>2
  <2>8. ASSUME NEW c \in Calls, q[c] # 0 PROVE RecordOf(feedSent, m, q[c], c)
    <3>1. CASE q[c] = p[c]
      BY <2>6, <2>8, <3>1 DEF Marked
    <3>2. CASE c = f.id /\ f.op = "req" /\ q[c] = Len(l) + 1
      BY <2>2, <2>3, <3>2 DEF RecordOf
    <3> QED BY <2>5, <3>1, <3>2
  <2>9. Marked(feedSent, m, q)
    BY <2>7, <2>8 DEF Marked
  <2> HIDE DEF t
  <2>10. t \in Lists /\ Marked(feedSent, t.list, t.pending)
    BY <2>1, <2>3, <2>4, <2>9, EvictedKeeps
  <2> QED BY <2>10 DEF t
<1> QED BY <1>2, <1>3

\* One frame after the other.
LEMMA PushedKeeps ==
  ASSUME feedSent \in Seq(Sent), feedList \in Seq(Records), feedPending \in [Calls -> Nat],
         Marked(feedSent, feedList, feedPending),
         NEW queue \in Seq(Nat), \A i \in DOMAIN queue : queue[i] \in DOMAIN feedSent
  PROVE  /\ Feed!Pushed(queue)[Len(queue)] \in Lists
         /\ Marked(feedSent, Feed!Pushed(queue)[Len(queue)].list, Feed!Pushed(queue)[Len(queue)].pending)
<1> DEFINE b == [list |-> feedList, pending |-> feedPending]
           A == {s \in Lists : Marked(feedSent, s.list, s.pending)}
           m == Len(queue)
           f == [n \in 1..m |-> [s \in A |-> Feed!push_frame(s, queue[n])]]
           Step(g, n) == IF n = 0 THEN b ELSE Feed!push_frame(g[n - 1], queue[n])
           h == Feed!Pushed(queue)
<1>1. m \in Nat /\ \A n \in 1..m : queue[n] \in DOMAIN feedSent
  OBVIOUS
<1>2. b \in A
  <2>1. b \in Lists /\ b.list = feedList /\ b.pending = feedPending
    BY DEF Lists
  <2> HIDE DEF b
  <2> QED BY <2>1
<1>3. \A n \in 1..m, s \in A : Feed!push_frame(s, queue[n]) \in A
  BY <1>1, PushKeeps
<1>4. f \in [1..m -> [A -> A]] /\ \A n \in 1..m, s \in A : f[n][s] = Feed!push_frame(s, queue[n])
  <2> HIDE DEF A, b, m
  <2> QED BY <1>3
<1>5. PICK g \in [0..m -> A] : g[0] = b /\ \A n \in 1..m : g[n] = f[n][g[n - 1]]
  <2> HIDE DEF f, A, b, m
  <2>1. f \in Steps(A, m)
    BY <1>4 DEF Steps
  <2>2. Runs(A, b, m, f) # {}
    BY <1>1, <1>2, <2>1, Recursion
  <2> QED BY <2>2 DEF Runs
<1> HIDE DEF A, b, m
<1>6. ASSUME NEW n \in 0..m PROVE g[n] = Step(g, n)
  <2>1. CASE n = 0
    BY <1>5, <2>1
  <2>2. CASE n # 0
    <3>1. n \in 1..m /\ n - 1 \in 0..m
      BY <1>1, <2>2
    <3>2. g[n - 1] \in A
      BY <3>1
    <3> HIDE DEF f
    <3> QED BY <1>4, <1>5, <2>2, <3>1, <3>2
  <2> QED BY <2>1, <2>2
<1>7. g = [n \in 0..m |-> Step(g, n)]
  <2>1. g = [n \in 0..m |-> g[n]]
    OBVIOUS
  <2> HIDE DEF Step
  <2> QED BY <1>6, <2>1
<1>8. h = CHOOSE k : k = [n \in 0..m |-> Step(k, n)]
  BY DEF Feed!Pushed, b, m
<1>9. h = [n \in 0..m |-> Step(h, n)]
  <2> HIDE DEF Step, h
  <2> QED BY <1>7, <1>8
<1> DEFINE T == {n \in 0..m : h[n] \in A}
<1> HIDE DEF h
<1>10. 0 \in T
  BY <1>1, <1>2, <1>9
<1>11. ASSUME NEW n \in 1..m, n - 1 \in T PROVE n \in T
  <2>1. n \in 0..m /\ n # 0
    BY <1>1
  <2>2. h[n] = Feed!push_frame(h[n - 1], queue[n])
    BY <1>9, <2>1
  <2> QED BY <1>3, <1>11, <2>1, <2>2
<1>12. 0..m \subseteq T
  <2> HIDE DEF T
  <2> QED BY <1>1, <1>10, <1>11, InductionTo
<1>13. h[m] \in A
  BY <1>1, <1>12
<1> QED BY <1>13 DEF A, h, m

LEMMA FeedStep ==
  ASSUME FeedInv, [Feed!FeedNext]_feedVars
  PROVE  FeedInv'
<1> USE DEF FeedInv
<1>1. CASE Feed!Emit
  <2>1. PICK c \in Calls, op \in Ops : feedSent' = Append(feedSent, [id |-> c, op |-> op])
    BY <1>1 DEF Feed!Emit, Ops
  <2>2. UNCHANGED <<feedNext, feedChan, feedQueue, feedList, feedPending>>
    BY <1>1 DEF Feed!Emit
  <2> DEFINE r == [id |-> c, op |-> op]
  <2>3. r \in Sent
    BY DEF Sent
  <2> HIDE DEF r
  <2>4. feedSent' \in Seq(Sent) /\ \A k \in DOMAIN feedSent : k \in DOMAIN feedSent' /\ feedSent'[k] = feedSent[k]
    BY <2>1, <2>3 DEF r
  <2>5. ASSUME NEW k \in DOMAIN feedList, NEW d, RecordOf(feedSent, feedList, k, d)
        PROVE  RecordOf(feedSent', feedList, k, d)
    BY <2>4, <2>5 DEF RecordOf, Marked
  <2>6. ASSUME NEW k \in DOMAIN feedList
        PROVE  /\ feedList[k].n \in DOMAIN feedSent'
               /\ feedList[k].by # 0 => /\ feedList[k].by \in DOMAIN feedSent'
                                       /\ RecordOf(feedSent', feedList, k, feedSent'[feedList[k].by].id)
    BY <2>4, <2>5 DEF Marked
  <2>7. ASSUME NEW d \in Calls, feedPending[d] # 0 PROVE RecordOf(feedSent', feedList, feedPending[d], d)
    <3>1. RecordOf(feedSent, feedList, feedPending[d], d)
      BY <2>7 DEF Marked
    <3>2. feedPending[d] \in DOMAIN feedList
      BY <3>1 DEF RecordOf
    <3> QED BY <2>5, <3>1, <3>2
  <2>8. Marked(feedSent', feedList, feedPending)
    BY <2>6, <2>7 DEF Marked
  <2> QED BY <2>2, <2>4, <2>8
<1>2. ASSUME NEW e \in [n : Nat, link : BOOLEAN], e.n # 0 => e.n \in DOMAIN feedSent,
             feedChan' = Append(feedChan, e), feedNext' \in Nat \ {0},
             UNCHANGED <<feedSent, feedQueue, feedList, feedPending>>
      PROVE  FeedInv'
  <2> DEFINE R == [n : Nat, link : BOOLEAN]
  <2>1. /\ feedChan' \in Seq(R)
        /\ \A i \in DOMAIN feedChan' : feedChan'[i] = e \/ (i \in DOMAIN feedChan /\ feedChan'[i] = feedChan[i])
    <3>1. e \in R /\ feedChan \in Seq(R)
      BY <1>2
    <3>2. feedChan' = Append(feedChan, e)
      BY <1>2
    <3> HIDE DEF R, FeedInv
    <3> QED BY ONLY <3>1, <3>2
  <2>2. \A i \in DOMAIN feedChan' : feedChan'[i].n # 0 => feedChan'[i].n \in DOMAIN feedSent
    BY <1>2, <2>1
  <2> QED BY <1>2, <2>1, <2>2
<1>3. \A n \in Nat : \A y \in BOOLEAN : [n |-> n, link |-> y] \in [n : Nat, link : BOOLEAN]
  OBVIOUS
<1>4. CASE Feed!Connect
  <2> DEFINE e == [n |-> 0, link |-> TRUE]
  <2>1. e \in [n : Nat, link : BOOLEAN] /\ e.n = 0
    OBVIOUS
  <2>2. feedChan' = Append(feedChan, e)
    BY <1>4 DEF Feed!Connect, Feed!Tells
  <2>3. Len(feedSent) \in Nat
    OBVIOUS
  <2>4. feedNext' \in Nat \ {0}
    BY <1>4, <2>3, EdgesAssumption DEF Feed!Connect
  <2>5. UNCHANGED <<feedSent, feedQueue, feedList, feedPending>>
    BY <1>4 DEF Feed!Connect
  <2> HIDE DEF e, FeedInv
  <2> QED BY <1>2, <2>1, <2>2, <2>4, <2>5
<1>5. CASE Feed!Line
  <2> DEFINE e == [n |-> feedNext, link |-> TRUE]
  <2>1. e \in [n : Nat, link : BOOLEAN] /\ e.n = feedNext
    OBVIOUS
  <2>2. feedChan' = Append(feedChan, e)
    BY <1>5 DEF Feed!Line, Feed!Tells
  <2>3. feedNext \in DOMAIN feedSent /\ feedNext' \in Nat \ {0}
    BY <1>5 DEF Feed!Line
  <2>5. UNCHANGED <<feedSent, feedQueue, feedList, feedPending>>
    BY <1>5 DEF Feed!Line
  <2> HIDE DEF e, FeedInv
  <2> QED BY <1>2, <2>1, <2>2, <2>3, <2>5
<1>6. CASE Feed!Lost
  <2> DEFINE e == [n |-> 0, link |-> FALSE]
  <2>1. e \in [n : Nat, link : BOOLEAN] /\ e.n = 0
    OBVIOUS
  <2>2. feedChan' = Append(feedChan, e)
    BY <1>6 DEF Feed!Lost, Feed!Tells
  <2>3. feedNext' \in Nat \ {0}
    BY <1>6 DEF Feed!Lost
  <2>5. UNCHANGED <<feedSent, feedQueue, feedList, feedPending>>
    BY <1>6 DEF Feed!Lost
  <2> HIDE DEF e, FeedInv
  <2> QED BY <1>2, <2>1, <2>2, <2>3, <2>5
<1>7. CASE Feed!Take
  <2> DEFINE e == Head(feedChan)
             queue == Append(feedQueue, e.n)
  <2>1. feedChan # <<>> /\ feedChan' = Tail(feedChan) /\ UNCHANGED <<feedSent, feedNext>>
    BY <1>7 DEF Feed!Take
  <2> DEFINE R == [n : Nat, link : BOOLEAN]
  <2>2. /\ e \in R /\ e = feedChan[1] /\ 1 \in DOMAIN feedChan /\ feedChan' \in Seq(R)
        /\ \A i \in DOMAIN feedChan' : i + 1 \in DOMAIN feedChan /\ feedChan'[i] = feedChan[i + 1]
    <3>1. feedChan \in Seq(R)
      OBVIOUS
    <3> HIDE DEF R, FeedInv
    <3> QED BY <2>1, <3>1
  <2> HIDE DEF e
  <2>3. \A i \in DOMAIN feedChan' : feedChan'[i].n # 0 => feedChan'[i].n \in DOMAIN feedSent'
    BY <2>1, <2>2
  <2>4. e.n \in Nat /\ (e.n # 0 => e.n \in DOMAIN feedSent)
    BY <2>2
  <2>5. /\ queue \in Seq(Nat) /\ Tail(queue) \in Seq(Nat) /\ Feed!Flush(e.n) = queue
        /\ \A i \in DOMAIN queue : queue[i] = e.n \/ (i \in DOMAIN feedQueue /\ queue[i] = feedQueue[i])
        /\ \A i \in DOMAIN Tail(queue) : i + 1 \in DOMAIN queue /\ Tail(queue)[i] = queue[i + 1]
    <3>1. feedQueue \in Seq(Nat)
      OBVIOUS
    <3> HIDE DEF FeedInv
    <3>2. queue \in Seq(Nat) /\ queue # <<>>
      BY <2>4, <3>1
    <3>3. Feed!Flush(e.n) = queue
      BY <2>4, <3>1 DEF Feed!Flush
    <3>4. \A i \in DOMAIN queue : queue[i] = e.n \/ (i \in DOMAIN feedQueue /\ queue[i] = feedQueue[i])
      <4> DEFINE k == e.n
      <4>1. k \in Nat
        BY <2>4
      <4> HIDE DEF k
      <4>2. \A i \in DOMAIN Append(feedQueue, k) :
              \/ Append(feedQueue, k)[i] = k
              \/ i \in DOMAIN feedQueue /\ Append(feedQueue, k)[i] = feedQueue[i]
        BY <3>1, <4>1
      <4> QED BY <4>2 DEF k
    <3> HIDE DEF queue
    <3>5. Tail(queue) \in Seq(Nat) /\ \A i \in DOMAIN Tail(queue) : i + 1 \in DOMAIN queue /\ Tail(queue)[i] = queue[i + 1]
      BY <3>2
    <3> QED BY <3>2, <3>3, <3>4, <3>5
  <2>6. e.n # 0 => \A i \in DOMAIN queue : queue[i] \in DOMAIN feedSent
    BY <2>4, <2>5
  <2> HIDE DEF queue
  <2>7. CASE UNCHANGED <<feedQueue, feedList, feedPending>>
    BY <2>1, <2>2, <2>3, <2>7
  <2>8. CASE e.n # 0 /\ feedQueue' = Feed!Capped(queue) /\ UNCHANGED <<feedList, feedPending>>
    <3>1. feedQueue' = queue \/ feedQueue' = Tail(queue)
      BY <2>8 DEF Feed!Capped
    <3>2. feedQueue' \in Seq(Nat) /\ \A i \in DOMAIN feedQueue' : feedQueue'[i] \in DOMAIN feedSent
      <4>1. CASE feedQueue' = queue
        BY <2>5, <2>6, <2>8, <4>1
      <4>2. CASE feedQueue' = Tail(queue)
        BY <2>5, <2>6, <2>8, <4>2
      <4> QED BY <3>1, <4>1, <4>2
    <3> QED BY <2>1, <2>2, <2>3, <2>8, <3>2
  <2>9. CASE /\ e.n # 0 /\ feedQueue' = <<>>
             /\ feedList' = Feed!Pushed(queue)[Len(queue)].list
             /\ feedPending' = Feed!Pushed(queue)[Len(queue)].pending
    <3> DEFINE t == Feed!Pushed(queue)[Len(queue)]
    <3>1. t \in Lists /\ Marked(feedSent, t.list, t.pending)
      BY <2>5, <2>6, <2>9, PushedKeeps
    <3>2. feedList' = t.list /\ feedPending' = t.pending
      BY <2>9
    <3> HIDE DEF t
    <3>3. feedList' \in Seq(Records) /\ feedPending' \in [Calls -> Nat]
      BY <3>1, <3>2 DEF Lists
    <3>4. Marked(feedSent', feedList', feedPending')
      BY <2>1, <3>1, <3>2
    <3>5. feedQueue' \in Seq(Nat) /\ DOMAIN feedQueue' = {}
      BY <2>9
    <3> QED BY <2>1, <2>2, <2>3, <3>3, <3>4, <3>5
  <2>10. \/ UNCHANGED <<feedQueue, feedList, feedPending>>
         \/ e.n # 0 /\ feedQueue' = Feed!Capped(queue) /\ UNCHANGED <<feedList, feedPending>>
         \/ /\ e.n # 0 /\ feedQueue' = <<>>
            /\ feedList' = Feed!Pushed(queue)[Len(queue)].list
            /\ feedPending' = Feed!Pushed(queue)[Len(queue)].pending
    BY <1>7, <2>5 DEF Feed!Take, e, queue
  <2> QED BY <2>7, <2>8, <2>9, <2>10
<1>8. CASE Feed!Pause \/ UNCHANGED feedVars
  <2>1. UNCHANGED <<feedSent, feedNext, feedChan, feedQueue, feedList, feedPending>>
    BY <1>8 DEF Feed!Pause, feedVars
  <2> QED BY <2>1
<1> QED BY <1>1, <1>4, <1>5, <1>6, <1>7, <1>8 DEF Feed!FeedNext

\* Whatever is paused, dropped from the list or sent again after a lost
\* connection, and however many frames: a reply marks only a record of the
\* request it answers (monitor/src/main.rs, push_frame).
THEOREM RepliesMarkTheirCalls == EdgesSpec => []ReplyMarksItsCall
<1>1. EdgesInit => FeedInv
  <2> SUFFICES ASSUME Feed!FeedInit PROVE FeedInv
    BY DEF EdgesInit
  <2>1. /\ feedSent = <<>> /\ feedNext = 1 /\ feedChan = <<>> /\ feedQueue = <<>> /\ feedList = <<>>
        /\ feedPending = [c \in Calls |-> 0]
    BY DEF Feed!FeedInit
  <2>2. \A S : <<>> \in Seq(S)
    OBVIOUS
  <2>3. DOMAIN feedChan = {} /\ DOMAIN feedQueue = {} /\ DOMAIN feedList = {}
    BY <2>1
  <2>4. feedPending \in [Calls -> Nat] /\ \A c \in Calls : feedPending[c] = 0
    BY <2>1
  <2>5. Marked(feedSent, feedList, feedPending)
    BY <2>3, <2>4 DEF Marked
  <2>6. feedSent \in Seq(Sent) /\ feedList \in Seq(Records) /\ feedQueue \in Seq(Nat)
    BY <2>1, <2>2
  <2>7. feedChan \in Seq([n : Nat, link : BOOLEAN]) /\ feedNext \in Nat \ {0}
    BY <2>1, <2>2
  <2> QED BY <2>3, <2>4, <2>5, <2>6, <2>7 DEF FeedInv
<1>2. FeedInv /\ [EdgesNext]_edgeVars => FeedInv'
  BY EdgeSteps, FeedStep
<1>3. FeedInv => ReplyMarksItsCall
  BY DEF FeedInv, Marked, RecordOf, ReplyMarksItsCall, Feed!ReplyMarksItsCall
<1> QED BY <1>1, <1>2, <1>3, PTL DEF EdgesSpec
=============================================================================
