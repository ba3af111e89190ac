-------------------------------- MODULE Boot --------------------------------
(***************************************************************************)
(* Starting the daemon: `abbot init`, `use` and `doctor`, `start`, `stop`, *)
(* `restart`, `service install` and `uninstall` (src/cli/src/commands),    *)
(* the service manager that keeps the daemon alive, the daemon's way to    *)
(* serving (run_daemon, src/daemon/src/bin/abbot.rs) and its preflight     *)
(* (src/daemon/src/runtime/preflight.rs), which those commands run too.    *)
(*                                                                         *)
(* The command line learns how a start went from preflight.log alone.      *)
(* Wording of reports, plist and unit files, prompts and the choice of a   *)
(* model are left out; a (base_url, model, api_key) is a member of Keys.   *)
(* The agents have one [llm] section between them, so one of these.        *)
(***************************************************************************)
EXTENDS Naturals, Sequences, FiniteSets

CONSTANTS
  Keys,        (* (base_url, model, api_key) triples                       *)
  Off,         (* no LLM is enabled                                        *)
  MaxPolls,    (* wait_for_preflight's 60 polls                            *)
  MaxWrites,   (* bound: preflights run                                    *)
  MaxChanges   (* bound: changes of the world around, and crashes          *)

Agents == {"head", "hand", "mind"}
Databases == {"store", "frames", "ems"}

VARIABLES
  bootWorld,   (* what the checks look at: config file, keys, databases;   *)
               (* and whether the server's address can be bound            *)
  bootService, (* [os, installed, loaded] of the service manager           *)
  bootDaemon,  (* how far run_daemon is; "down" when no process runs       *)
  bootLoaded,  (* the LLM of the config it has read                        *)
  bootFound,   (* what a preflight found, until it is in the log           *)
  bootLog,     (* preflight.log, with a count of its writes                *)
  bootCli,     (* the command being run                                    *)
  bootChanges  (* history: changes so far                                  *)

bootVars == <<bootWorld, bootService, bootDaemon, bootLoaded, bootFound, bootLog, bootCli, bootChanges>>

Setups == [present : BOOLEAN, llm : Keys \cup {Off}, alive : SUBSET Keys, broken : {{}},
           bindable : BOOLEAN]

\* Where the address cannot be bound at first, nothing else stands in the way.
BootInit ==
  /\ bootWorld \in {w \in Setups : /\ w.present \/ w.llm = Off
                                   /\ w.bindable \/ (w.llm # Off /\ w.alive = Keys)}
  /\ bootService \in {[os |-> o, installed |-> i, loaded |-> FALSE] :
                        o \in {"linux", "macos"}, i \in BOOLEAN}
  /\ bootDaemon = "down" /\ bootLoaded = Off
  /\ bootFound = [w \in {"daemon", "cli"} |-> <<>>]
  /\ bootLog \in {[verdict |-> v, usable |-> v = "pass", writes |-> 0] : v \in {"none", "pass"}}
  /\ bootCli = [pc |-> "idle", seen |-> 0, polls |-> 0, said |-> "nothing"]
  /\ bootChanges = 0

-----------------------------------------------------------------------------
(* The preflight.  What the other endpoints and the statistics say decides *)
(* nothing and is left out.                                                *)

\* Mutant (PassMeansUsable): check_api goes through the agents from the mind on.
AgentOrderFromMind == <<"mind", "head", "hand">>

AgentOrder == <<"head", "hand", "mind">>

\* The answer to a probe, through the fallbacks for completions models and for
\* max_completion_tokens.
probe_api(w, key) == key \in w.alive

check_config(w) == IF w.llm = Off THEN {<<"config", a>> : a \in Agents} ELSE {}

\* What an earlier agent has is not probed again: the other checks are skipped.
check_api(w) ==
  IF w.llm # Off /\ ~probe_api(w, w.llm) THEN {<<"api", AgentOrder[1]>>} ELSE {}

check_databases(w) == {<<"database", d>> : d \in w.broken}

Failures(w) == check_config(w) \cup check_api(w) \cup check_databases(w)

Critical == {<<"config", "head">>, <<"config", "hand">>, <<"api", "head">>,
             <<"api", "hand">>, <<"database", "store">>}

has_critical_failures(failed) == failed \cap Critical # {}

\* The agents can work.
Usable(w) == w.llm \in w.alive /\ "store" \notin w.broken

\* The world as a process sees it that has read the LLM of its config.
Seen(llm) == [bootWorld EXCEPT !.llm = llm]

\* run_preflight of process p: the checks, then fs::write, which empties the
\* file before it fills it.
Check(p, w) ==
  /\ bootLog.writes < MaxWrites
  /\ bootFound' = [bootFound EXCEPT ![p] = <<[failed |-> Failures(w), usable |-> Usable(w)]>>]
  /\ bootLog' = [bootLog EXCEPT !.verdict = "none", !.usable = FALSE]

FillLog(p) ==
  /\ bootFound[p] # <<>>
  /\ bootLog' =
       [verdict |-> IF has_critical_failures(bootFound[p][1].failed) THEN "fail" ELSE "pass",
        usable  |-> bootFound[p][1].usable,
        writes  |-> bootLog.writes + 1]
  /\ bootFound' = [bootFound EXCEPT ![p] = <<>>]

-----------------------------------------------------------------------------
(* The service manager and the daemon.                                     *)

\* After the preflight nothing here looks at the LLM it has read.
Goes(to) == bootDaemon' = to /\ bootLoaded' = Off

\* Mutant (ServiceHeals): the unit restarts the daemon on a clean exit only.
LaunchOnce ==
  /\ bootService.loaded /\ bootDaemon = "down" /\ bootLog.writes = 0
  /\ Goes("loading")
  /\ UNCHANGED <<bootWorld, bootService, bootFound, bootLog, bootCli, bootChanges>>

\* RunAtLoad and KeepAlive; Restart=always.
Launch ==
  /\ bootService.loaded /\ bootDaemon = "down"
  /\ Goes("loading")
  /\ UNCHANGED <<bootWorld, bootService, bootFound, bootLog, bootCli, bootChanges>>

\* Without a config file the daemon exits at once, and no preflight is run.
LoadConfig ==
  /\ bootDaemon = "loading"
  /\ IF bootWorld.present THEN bootDaemon' = "probing" /\ bootLoaded' = bootWorld.llm ELSE Goes("down")
  /\ UNCHANGED <<bootWorld, bootService, bootFound, bootLog, bootCli, bootChanges>>

DaemonCheck ==
  /\ bootDaemon = "probing" /\ Check("daemon", Seen(bootLoaded))
  /\ Goes("writing")
  /\ UNCHANGED <<bootWorld, bootService, bootCli, bootChanges>>

DaemonWrite ==
  /\ bootDaemon = "writing" /\ FillLog("daemon")
  /\ Goes(IF has_critical_failures(bootFound["daemon"][1].failed) THEN "down" ELSE "opening")
  /\ UNCHANGED <<bootWorld, bootService, bootCli, bootChanges>>

\* The message store must open; without frames or entities the daemon goes on.
OpenStores ==
  /\ bootDaemon = "opening"
  /\ Goes(IF "store" \in bootWorld.broken THEN "down" ELSE "spawned")
  /\ UNCHANGED <<bootWorld, bootService, bootFound, bootLog, bootCli, bootChanges>>

\* Server::spawn: an address in use, or one that is not a loopback address, is
\* logged in a task of its own.  The process stays up and serves nobody.
Bind ==
  /\ bootDaemon = "spawned"
  /\ Goes(IF bootWorld.bindable THEN "serving" ELSE "deaf")
  /\ UNCHANGED <<bootWorld, bootService, bootFound, bootLog, bootCli, bootChanges>>

Crash ==
  /\ bootDaemon \in {"serving", "deaf"} /\ bootChanges < MaxChanges
  /\ Goes("down") /\ bootChanges' = bootChanges + 1
  /\ UNCHANGED <<bootWorld, bootService, bootFound, bootLog, bootCli>>

\* Keys expire and are paid, databases are damaged and mended, addresses taken
\* and given back, by others.
Change ==
  /\ bootChanges < MaxChanges /\ bootChanges' = bootChanges + 1
  /\ \/ \E a \in SUBSET Keys : bootWorld' = [bootWorld EXCEPT !.alive = a]
     \/ \E d \in Databases : bootWorld' = [bootWorld EXCEPT
          !.broken = IF d \in @ THEN @ \ {d} ELSE @ \cup {d}]
     \/ bootWorld' = [bootWorld EXCEPT !.present = FALSE, !.llm = Off]
     \/ bootWorld' = [bootWorld EXCEPT !.bindable = ~@]
  /\ UNCHANGED <<bootService, bootDaemon, bootLoaded, bootFound, bootLog, bootCli>>

-----------------------------------------------------------------------------
(* The command line.  What it says is kept where it tells how a start      *)
(* went, and while an `abbot init` goes on.                                *)

Says(pc, said) == bootCli' = [bootCli EXCEPT !.pc = pc, !.said = said]

\* A daemon killed between the two halves of fs::write leaves the log empty.
Kill == Goes("down") /\ bootFound' = [bootFound EXCEPT !["daemon"] = <<>>]

Install ==
  /\ bootCli.pc = "idle" /\ ~bootService.installed
  /\ bootService' = [bootService EXCEPT !.installed = TRUE]
  /\ Says("idle", "nothing")
  /\ UNCHANGED <<bootWorld, bootDaemon, bootLoaded, bootFound, bootLog, bootChanges>>

Uninstall ==
  /\ bootCli.pc = "idle" /\ bootService.installed /\ Kill
  /\ bootService' = [bootService EXCEPT !.installed = FALSE, !.loaded = FALSE]
  /\ Says("idle", "nothing")
  /\ UNCHANGED <<bootWorld, bootLog, bootChanges>>

\* `stop`, and the first half of `restart`; launchd is not asked to unload
\* what is not installed.
Stop ==
  /\ bootCli.pc = "idle"
  /\ \E next \in {"idle", "start"} : Says(next, "nothing")
  /\ IF bootService.os = "macos" /\ ~bootService.installed
     THEN UNCHANGED <<bootService, bootDaemon, bootLoaded, bootFound>>
     ELSE Kill /\ bootService' = [bootService EXCEPT !.loaded = FALSE]
  /\ UNCHANGED <<bootWorld, bootLog, bootChanges>>

\* run_start up to the wait: the refusals, the baseline, the service manager.
Refused ==
  \/ bootService.os = "macos" /\ (~bootWorld.present \/ bootService.loaded)
  \/ ~bootService.installed

Start ==
  /\ bootCli.pc \in {"idle", "start"}
  /\ IF Refused
     THEN Says("idle", "refused") /\ UNCHANGED bootService
     ELSE /\ bootService' = [bootService EXCEPT !.loaded = TRUE]
          /\ bootCli' = [pc |-> "wait", seen |-> bootLog.writes, polls |-> 0, said |-> "nothing"]
  /\ UNCHANGED <<bootWorld, bootDaemon, bootLoaded, bootFound, bootLog, bootChanges>>

Report(verdict) ==
  CASE verdict = "pass" -> "started"
    [] verdict = "fail" -> "preflight_failed"
    [] OTHER -> "timeout"

\* One round of wait_for_preflight: a verdict counts when the file has changed.
Poll ==
  /\ bootCli.pc = "wait" /\ bootCli.polls < MaxPolls
  /\ IF bootLog.writes # bootCli.seen /\ bootLog.verdict # "none"
     THEN Says("idle", Report(bootLog.verdict))
     ELSE bootCli' = [bootCli EXCEPT !.polls = @ + 1]
  /\ UNCHANGED <<bootWorld, bootService, bootDaemon, bootLoaded, bootFound, bootLog, bootChanges>>

\* After the last round it takes whatever verdict the file holds.
GiveUp ==
  /\ bootCli.pc = "wait" /\ bootCli.polls = MaxPolls
  /\ Says("idle", Report(bootLog.verdict))
  /\ UNCHANGED <<bootWorld, bootService, bootDaemon, bootLoaded, bootFound, bootLog, bootChanges>>

\* `abbot init`: --clean removes the directory with the log, the config is
\* written in one rename; unless --accept-defaults, a preflight follows, and
\* an installation and a start when the user wants them.
WriteConfig ==
  /\ bootCli.pc = "idle" /\ bootChanges < MaxChanges /\ bootChanges' = bootChanges + 1
  /\ \E k \in Keys, clean \in BOOLEAN, asks \in BOOLEAN :
       /\ bootWorld' = [bootWorld EXCEPT !.present = TRUE, !.llm = k]
       /\ bootLog' = IF clean THEN [bootLog EXCEPT !.verdict = "none", !.usable = FALSE] ELSE bootLog
       /\ IF asks THEN Says("probe", "initialized") ELSE Says("idle", "nothing")
  /\ UNCHANGED <<bootService, bootDaemon, bootLoaded, bootFound>>

\* `abbot use` changes the model (not where none is set) and runs a preflight;
\* `abbot doctor` runs one.
Use ==
  /\ bootCli.pc = "idle" /\ bootWorld.present
  /\ bootChanges < MaxChanges /\ bootChanges' = bootChanges + 1
  /\ \E k \in Keys \cup {Off} : bootWorld' = [bootWorld EXCEPT !.llm = k]
  /\ Says("probe", "nothing")
  /\ UNCHANGED <<bootService, bootDaemon, bootLoaded, bootFound, bootLog>>

Doctor ==
  /\ bootCli.pc = "idle"
  /\ Says("probe", "nothing")
  /\ UNCHANGED <<bootWorld, bootService, bootDaemon, bootLoaded, bootFound, bootLog, bootChanges>>

CliCheck ==
  /\ bootCli.pc = "probe" /\ Check("cli", bootWorld)
  /\ Says("write", bootCli.said)
  /\ UNCHANGED <<bootWorld, bootService, bootDaemon, bootLoaded, bootChanges>>

\* After init's the daemon may be installed and started.
CliWrite ==
  /\ bootCli.pc = "write" /\ FillLog("cli")
  /\ \E wants \in IF bootCli.said = "initialized" THEN {"nothing", "install", "start"} ELSE {"nothing"} :
       /\ bootService' = IF wants = "nothing" THEN bootService
                         ELSE [bootService EXCEPT !.installed = TRUE]
       /\ Says(IF wants = "start" THEN "start" ELSE "idle", "nothing")
  /\ UNCHANGED <<bootWorld, bootDaemon, bootLoaded, bootChanges>>

-----------------------------------------------------------------------------
BootNext ==
  \/ Launch \/ LoadConfig \/ DaemonCheck \/ DaemonWrite \/ OpenStores \/ Bind \/ Crash \/ Change
  \/ Install \/ Uninstall \/ Stop \/ Start \/ Poll \/ GiveUp
  \/ WriteConfig \/ Use \/ Doctor \/ CliCheck \/ CliWrite

\* The service manager and a process that runs do not stand still; nobody has
\* to give a command.
BootFairness ==
  /\ WF_bootVars(Launch) /\ WF_bootVars(LoadConfig) /\ WF_bootVars(DaemonCheck)
  /\ WF_bootVars(DaemonWrite) /\ WF_bootVars(OpenStores) /\ WF_bootVars(Bind)

BootSpec == BootInit /\ [][BootNext]_bootVars /\ BootFairness

-----------------------------------------------------------------------------
\* A log that says PASS was written when the head and the hand both had an
\* endpoint that answers and the message store opened: what check_api skips
\* (an agent with the key of one before it) never hides a critical failure.
PassMeansUsable == bootLog.verdict = "pass" => bootLog.usable

\* A service left loaded in a world that is and stays usable ends up serving,
\* however its earlier starts went; or it stays up and serves nobody, but only
\* if at some time its address could not be bound: nothing tries again then,
\* and for the service manager it runs.  (A run that spends its preflights
\* bound is not asked for more.)
ServiceHeals ==
  <>[](bootService.loaded /\ bootWorld.present /\ Usable(bootWorld) /\ bootLog.writes < MaxWrites)
    => \/ <>[](bootDaemon = "serving")
       \/ <>[](bootDaemon = "deaf") /\ <>~bootWorld.bindable
=============================================================================
