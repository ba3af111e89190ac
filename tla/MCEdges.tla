------------------------------ MODULE MCEdges ------------------------------
(***************************************************************************)
(* The programs around the daemon and the daemon's own edges, on small     *)
(* instances: the terminal client, the streams of the HTTP adapters, the   *)
(* monitor's feed and its configuration editor, the requests of the HTTP   *)
(* API, the way the daemon is started and checked, and its settings files. *)
(* They share no state, so that each is checked on its own: `which` says   *)
(* which of them takes the steps, and the others stay as they begin.       *)
(***************************************************************************)
EXTENDS HttpApi, Sequences

CONSTANTS
  Clients, Texts, MaxDrops, MaxOther,
  MaxChunks,
  Calls, ChanCap, ListCap, QueueCap, RecentLimit, MaxSent, MaxLost,
  Values, Absent, Bad, NoDialog, MaxRequests, MaxEdits,
  Keys, Off, MaxPolls, MaxWrites, MaxChanges,
  Providers, NoModel, Missing, Empty, Broken, Refuse, Writers, MaxCommands

VARIABLES
  which,
  up, box, locked, thread, cmds, seen, events, fetching, synced, ran, busy, tracked, orphans, turns,
  log, drops,
  adapter, frames, scan, client, wire, finished, cancelSent,
  feedSent, feedLink, feedNext, feedChan, feedShown, feedPaused, feedQueue, feedList, feedPending, feedDrops,
  edServer, edTasks, edView, edShown, edValue, edOriginal, edBase, edCursor, edDialog, edFlags, edKnown,
  edTouched, edCount,
  bootWorld, bootService, bootDaemon, bootLoaded, bootFound, bootLog, bootCli, bootChanges,
  setFile, setTmp, setWriter, setCache, setOverlap, setCommands

Term == INSTANCE Tui WITH pending <- locked
Stream == INSTANCE ApiStream
Feed == INSTANCE MonitorFeed WITH MaxDrops <- MaxLost
Editor == INSTANCE ConfigEditor WITH Fields <- <<"f", "g">>
Start == INSTANCE Boot
Files == INSTANCE Settings

\* What the settings files hold when they can be read: of abbot.toml a
\* configuration, of keys.env the providers it has a key of.
Configs == [model : Providers \cup {NoModel}, trait : BOOLEAN, mount : BOOLEAN]
KeySets == SUBSET (Providers \cup {NoModel})

\* A file that is empty is no file that can be read, does not parse, or is not
\* there; the number of frames a connection starts with is one.
ASSUME EdgesAssumption ==
  /\ Empty \notin {Missing, Broken} /\ \A f \in Configs \cup KeySets : f # Empty
  /\ RecentLimit \in Nat

tuiVars == <<up, box, locked, thread, cmds, seen, events, fetching, synced, ran, busy, tracked, orphans,
             turns, log, drops>>
streamVars == <<adapter, frames, scan, client, wire, finished, cancelSent>>
feedVars == <<feedSent, feedLink, feedNext, feedChan, feedShown, feedPaused, feedQueue, feedList,
              feedPending, feedDrops>>
edVars == <<edServer, edTasks, edView, edShown, edValue, edOriginal, edBase, edCursor, edDialog, edFlags,
            edKnown, edTouched, edCount>>
bootVars == <<bootWorld, bootService, bootDaemon, bootLoaded, bootFound, bootLog, bootCli, bootChanges>>
setVars == <<setFile, setTmp, setWriter, setCache, setOverlap, setCommands>>

edgeVars == <<which, tuiVars, streamVars, feedVars, edVars, httpVars, bootVars, setVars>>

\* A request that names no room and brings no tools.
Plain == [api |-> "openai", marker |-> FALSE, token |-> None, cwd |-> None, tools |-> {},
          prompt |-> CHOOSE p \in Prompts : TRUE, kind |-> "message"]

\* A part that does not run begins in one state only.
EdgesInit ==
  /\ which \in {"tui", "stream", "feed", "editor", "http", "boot", "settings"}
  /\ Term!TuiInit
  /\ Stream!StreamInit /\ (which # "stream" => adapter = "openai-json")
  /\ Feed!FeedInit
  /\ Editor!EditorInit /\ (which # "editor" => edServer = [f \in {"f", "g"} |-> Absent])
  /\ HttpInit
  /\ which # "http" => ~allow_main /\ shape = [q \in Requests |-> Plain]
  /\ Start!BootInit
  /\ which # "boot" =>
       /\ bootWorld = [present |-> FALSE, llm |-> Off, alive |-> {}, broken |-> {}, bindable |-> TRUE]
       /\ bootService = [os |-> "linux", installed |-> FALSE, loaded |-> FALSE]
       /\ bootLog.verdict = "none"
  /\ Files!SetInit /\ (which # "settings" => setFile = [config |-> Missing, keys |-> {}])

EdgesNext ==
  \/ which = "tui" /\ Term!TuiNext
     /\ UNCHANGED <<which, streamVars, feedVars, edVars, httpVars, bootVars, setVars>>
  \/ which = "stream" /\ Stream!StreamNext
     /\ UNCHANGED <<which, tuiVars, feedVars, edVars, httpVars, bootVars, setVars>>
  \/ which = "feed" /\ Feed!FeedNext
     /\ UNCHANGED <<which, tuiVars, streamVars, edVars, httpVars, bootVars, setVars>>
  \/ which = "editor" /\ Editor!EditorNext
     /\ UNCHANGED <<which, tuiVars, streamVars, feedVars, httpVars, bootVars, setVars>>
  \/ which = "http" /\ HttpNext
     /\ UNCHANGED <<which, tuiVars, streamVars, feedVars, edVars, bootVars, setVars>>
  \/ which = "boot" /\ Start!BootNext
     /\ UNCHANGED <<which, tuiVars, streamVars, feedVars, edVars, httpVars, setVars>>
  \/ which = "settings" /\ Files!SetNext
     /\ UNCHANGED <<which, tuiVars, streamVars, feedVars, edVars, httpVars, bootVars>>

\* The fairness of module Tui, of a terminal client that is looked at.
TermFairness ==
  \A c \in Clients :
    /\ WF_tuiVars(which = "tui" /\ Term!Connect(c))
    /\ WF_tuiVars(which = "tui" /\ Term!HandleEvent(c))
    /\ WF_tuiVars(which = "tui" /\ Term!HandleInbound(c))

EdgesSpec == EdgesInit /\ [][EdgesNext]_edgeVars /\ TermFairness /\ Start!BootFairness

-----------------------------------------------------------------------------
\* Each client runs the tool calls of its own turns only (tui/src/tools, is_ours).
OwnCallsOnly == Term!OwnCallsOnly

\* A text box that waits for its acknowledgement is unlocked again, wherever the
\* connection broke (tui/src/ws.rs, tui/src/main.rs).
BoxUnlocks == Term!BoxUnlocks

\* A client puts the answer together as the turn said it (server/openai.rs,
\* server/anthropic.rs, server/handler.rs).
AnswerIsWhole == Stream!AnswerIsWhole

\* A reply marks only a record of its own request (monitor/src/main.rs push_frame).
ReplyMarksItsCall == Feed!ReplyMarksItsCall

\* A field without a mark holds what the daemon last said it has (monitor/src/config.rs).
CleanMeansSaved == Editor!CleanMeansSaved

\* A log that says PASS was written of a usable configuration (runtime/preflight.rs).
PassMeansUsable == Start!PassMeansUsable

\* A service left loaded in a usable world ends up serving, unless it once failed
\* to bind its address (cli service.rs, bin/abbot.rs, server/mod.rs spawn).
ServiceHeals == Start!ServiceHeals

\* A writer that dies leaves no settings file emptied (runtime/app_config.rs).
KilledWriterHarmsNothing == Files!KilledWriterHarmsNothing
=============================================================================
