------------------------------ MODULE MindLoop ------------------------------
(***************************************************************************)
(* The mind (src/daemon/src/runtime/mind/service.rs): a loop that wakes on *)
(* ticks of the kernel's clock (kernel/tick.rs), which reach it through a  *)
(* call of tick:subscribe that never ends (syscalls/tick/subscribe.rs),    *)
(* and shows its model what happened since the last time                   *)
(* (runtime/mind/bundle.rs).                                               *)
(*                                                                         *)
(* The stream of the call is that of any call (module Dispatcher): it      *)
(* holds High frames before its pump pauses and is cancelled when it has   *)
(* been paused for Stall.  Time is counted in ticks.  A frame has the time *)
(* of its making; the frame writer (module FrameLog) records it later, and *)
(* numbers it.  The query of the database does not fail.                   *)
(*                                                                         *)
(* The mind observes the channel "main" and asks for the room "#main".     *)
(* That is another room: the rooms of the clients, and the default one,    *)
(* have no "#" unless a user names a room so.  What happens in "main" is   *)
(* never shown, whatever ActivityIsShown says of "#main".                  *)
(***************************************************************************)
EXTENDS Naturals, Sequences, FiniteSets, SequencesExt, FiniteSetsExt

CONSTANTS MindFrames,  (* frames others make                                *)
          MindKinds,   (* their rooms, and whether a conversation has them  *)
          Cadence,     (* tick_interval (60 s)                              *)
          MaxRounds,   (* LLM calls of a cycle (8)                          *)
          CallTicks,   (* an LLM call and its tools take at most so long    *)
          High,        (* high watermark of a stream (24)                   *)
          Stall,       (* stall timeout (120 s)                             *)
          Items,       (* max_context_items (100)                           *)
          MaxTime      (* bound: the time that is looked at                 *)

VARIABLES
  now,       (* the clock                                                   *)
  ticks,     (* SIGTICK frames of the subscription, oldest first            *)
  paused,    (* ticks for which its pump has waited for the mind            *)
  open,      (* the subscription has not been cancelled                     *)
  mind,      (* "waiting", "thinking" or "gone"                             *)
  calls,     (* LLM calls of the cycle                                      *)
  spent,     (* ticks the current one has taken                             *)
  last_ms,   (* last_wake_ms; 0 before the first cycle                      *)
  last_ts,   (* last_wake_ts; 0 before the first cycle                      *)
  tick,      (* now_ms of the tick that began the cycle                     *)
  made,      (* frames on their way to the writer, with times and kinds     *)
  recorded,  (* the frames database                                         *)
  shown,     (* history: frames shown as new                                *)
  excused    (* history: frames recorded after the cycle they belong to had *)
             (* read the database, or crowded out of it                     *)

clockVars == <<now, ticks, paused, open>>

cycleVars == <<mind, calls, spent, last_ms, last_ts, tick>>

activityVars == <<made, recorded, shown, excused>>

mindVars == <<clockVars, cycleVars, activityVars>>

\* subscribe sends the current tick first.
MindInit ==
  /\ now = 1 /\ ticks = <<1>> /\ paused = 0 /\ open = TRUE
  /\ mind = "waiting" /\ calls = 0 /\ spent = 0
  /\ last_ms = 0 /\ last_ts = 0 /\ tick = 0
  /\ made = {} /\ recorded = {} /\ shown = {} /\ excused = {}

\* The clock of the kernel goes on; the handler sends what the watch channel
\* holds, unless its queue is full (later ticks replace it then).  The mind
\* takes what it is sent at once, when it waits.
Tick ==
  /\ now < MaxTime
  /\ mind = "waiting" => ticks = <<>> /\ open
  /\ mind = "thinking" => spent < CallTicks
  /\ now' = now + 1
  /\ spent' = IF mind = "thinking" THEN spent + 1 ELSE spent
  /\ IF open /\ Len(ticks) < High
     THEN ticks' = Append(ticks, now') /\ UNCHANGED <<paused, open>>
     ELSE /\ paused' = IF open THEN paused + 1 ELSE paused
          /\ open' = (open /\ paused' < Stall)
          /\ UNCHANGED ticks
  /\ UNCHANGED <<mind, calls, last_ms, last_ts, tick, activityVars>>

Emit(f, kind) ==
  /\ \A x \in made \union recorded : x.frame # f
  /\ made' = made \union {[frame |-> f, ts |-> now, kind |-> kind]}
  /\ UNCHANGED <<clockVars, cycleVars, recorded, shown, excused>>

\* The row's number.
NextSeq == Cardinality(recorded) + 1

\* The writer records it; the cycle it belongs to may have read already.
Record ==
  \E x \in made :
    /\ made' = made \ {x}
    /\ recorded' = recorded \union {[frame |-> x.frame, ts |-> x.ts, kind |-> x.kind,
                                      seq |-> NextSeq]}
    /\ excused' = IF x.ts <= (IF mind = "thinking" THEN tick ELSE last_ts)
                  THEN excused \union {x.frame} ELSE excused
    /\ UNCHANGED <<clockVars, cycleVars, shown>>

-----------------------------------------------------------------------------
(* MindLoop::run.                                                          *)

\* A tick that is too close to the end of the last cycle, be it because it
\* is old, is passed over.
TooSoon(t) == last_ms # 0 /\ t < last_ms + Cadence

Received == ticks' = Tail(ticks) /\ paused' = 0

SkipTick ==
  /\ mind = "waiting" /\ ticks # <<>> /\ TooSoon(Head(ticks))
  /\ Received
  /\ UNCHANGED <<now, open, cycleVars, activityVars>>

\* gather_activity: "#" before the name of the channel.
Scope(x) == x.kind.room = "#main"

\* select_frames: the last that were recorded, and of these the ones that are
\* something to show.
Page(rows) == {x \in rows : Cardinality({y \in rows : y.seq > x.seq}) < Items}

\* gather_activity: what is newer than the last wake is shown as new.
Gather ==
  LET new  == {x \in recorded : Scope(x) /\ (last_ts = 0 \/ x.ts > last_ts)}
      page == Page(new)
  IN /\ shown' = shown \union {x.frame : x \in {y \in page : y.kind.item}}
     /\ excused' = excused \union {x.frame : x \in new \ page}

Wake ==
  /\ mind = "waiting" /\ ticks # <<>> /\ ~TooSoon(Head(ticks))
  /\ Received
  /\ mind' = "thinking"
  /\ tick' = Head(ticks)
  /\ calls' = 0
  /\ spent' = 0
  /\ Gather
  /\ UNCHANGED <<now, open, last_ms, last_ts, made, recorded>>

\* Mutant: what counts as reviewed is all there was when the cycle ended.
EndsCycleNow ==
  /\ mind' = "waiting"
  /\ last_ts' = now
  /\ last_ms' = now
  /\ calls' = 0
  /\ spent' = 0

\* The end of a cycle, also of one that failed.
EndsCycle ==
  /\ mind' = "waiting"
  /\ last_ts' = tick
  /\ last_ms' = now
  /\ calls' = 0
  /\ spent' = 0

\* The answer to an LLM call: tools, and another call up to max_rounds; or
\* text, noop_signal or an error, which end the cycle.
Answer ==
  /\ mind = "thinking"
  /\ \/ /\ calls + 1 < MaxRounds
        /\ calls' = calls + 1 /\ spent' = 0
        /\ UNCHANGED <<mind, last_ts, last_ms>>
     \/ EndsCycle
  /\ UNCHANGED <<clockVars, tick, activityVars>>

\* recv() gives None: the mind returns, and nothing starts it again.
Gone ==
  /\ mind = "waiting" /\ ticks = <<>> /\ ~open
  /\ mind' = "gone"
  /\ UNCHANGED <<clockVars, calls, spent, last_ms, last_ts, tick, activityVars>>

MindNext ==
  \/ Tick \/ Record \/ SkipTick \/ Wake \/ Answer \/ Gone
  \/ \E f \in MindFrames, kind \in MindKinds : Emit(f, kind)

MindSpec == MindInit /\ [][MindNext]_mindVars

-----------------------------------------------------------------------------
\* Nothing that happens in "#main" escapes the mind between two wakes: a frame
\* older than what counts as reviewed was shown as new, also when it was made
\* during a cycle or while old ticks were waiting (last_wake_ts,
\* gather_activity).  Excused are frames that the writer recorded late and
\* those past the limit.
ActivityIsShown ==
  \A x \in recorded :
    Scope(x) /\ x.kind.item /\ mind = "waiting" /\ x.ts <= last_ts =>
      x.frame \in shown \union excused
=============================================================================
