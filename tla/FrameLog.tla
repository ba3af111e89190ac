------------------------------ MODULE FrameLog ------------------------------
(***************************************************************************)
(* The frame log and those who read it: FrameStore                         *)
(* (src/daemon/src/kernel/frame_store.rs), the broadcast channel that      *)
(* monitors subscribe to (src/daemon/src/server/websocket.rs and           *)
(* runtime/frames_uds.rs), and pages of frames:select                      *)
(* (src/daemon/src/syscalls/frames/select.rs).                             *)
(*                                                                         *)
(* Whoever emits a frame (a call's exec or pump task, the sigcall hub, the *)
(* mind) appends it to the store's inbox, waiting if that is full, and     *)
(* then broadcasts it.  One writer task moves the inbox into the table.    *)
(* An observer reads the recent rows and then subscribes.  A restart keeps *)
(* the table and nothing else.                                             *)
(*                                                                         *)
(* A frame is its number in order of emission.  The test of read_recent    *)
(* for the name 'tick', which no frame of this commit has, is left out.    *)
(***************************************************************************)
EXTENDS Naturals, SequencesExt

CONSTANTS Emitters,      (* tasks that emit frames                          *)
          Observers,     (* websocket and frames.sock clients               *)
          InboxCap,      (* the writer's channel (4096 in the code)         *)
          BroadcastCap,  (* the broadcast channel (256)                     *)
          RecentLimit,   (* rows an observer starts with (100)              *)
          PageLimit,     (* rows of a page of frames:select (1 .. 2000)     *)
          MaxFrames,     (* bound: frames ever emitted                      *)
          MaxFailures,   (* bound: inserts that fail                        *)
          MaxRestarts    (* bound: restarts of the daemon                   *)

ASSUME FrameLogAssumption ==
  /\ {InboxCap, BroadcastCap, RecentLimit, PageLimit} \subseteq Nat \ {0}
  /\ {MaxFrames, MaxFailures, MaxRestarts} \subseteq Nat

Frames == 1 .. MaxFrames

NoFrame == 0

VARIABLES
  at,       (* per emitter: "idle", "append" or "broadcast"                 *)
  frame,    (* per emitter: the frame it has in hand                        *)
  made,     (* frames emitted so far                                        *)
  ticks,    (* those that are SIGTICK events                                *)
  inbox,    (* the writer's channel                                         *)
  writing,  (* the frame the writer has taken out of it                     *)
  rows,     (* the table: the row with seq i is rows[i]                     *)
  cast,     (* history: what was broadcast since the daemon started         *)
  view,     (* per observer: "off", "recent" or "live"                      *)
  next,     (* per observer: how much of the broadcast it is past           *)
  seen,     (* per observer: the frames it was sent                         *)
  since,    (* a caller of frames:select: the since_seq of its next page    *)
  paged,    (* history: the rows its pages had                              *)
  failed,   (* history: frames whose insert failed                          *)
  restarts  (* restarts so far                                              *)

emitVars == <<at, frame, made, ticks>>

storeVars == <<inbox, writing, rows, failed>>

viewVars == <<view, next, seen>>

pageVars == <<since, paged>>

logVars == <<emitVars, storeVars, cast, viewVars, pageVars, restarts>>

LogInit ==
  /\ at = [e \in Emitters |-> "idle"]
  /\ frame = [e \in Emitters |-> NoFrame]
  /\ made = 0
  /\ ticks = {}
  /\ inbox = <<>>
  /\ writing = NoFrame
  /\ rows = <<>>
  /\ cast = <<>>
  /\ view = [o \in Observers |-> "off"]
  /\ next = [o \in Observers |-> 0]
  /\ seen = [o \in Observers |-> {}]
  /\ since = 0
  /\ paged = {}
  /\ failed = {}
  /\ restarts = 0

-----------------------------------------------------------------------------
(* Emitters: append, then broadcast.                                       *)

Emit(e) ==
  /\ at[e] = "idle" /\ made < MaxFrames
  /\ made' = made + 1
  /\ frame' = [frame EXCEPT ![e] = made']
  /\ ticks' \in {ticks, ticks \union {made'}}
  /\ at' = [at EXCEPT ![e] = "append"]
  /\ UNCHANGED <<storeVars, cast, viewVars, pageVars, restarts>>

\* Mutant: try_send in place of send, so a full inbox loses the frame.
AppendOrDrop(e) ==
  /\ at[e] = "append"
  /\ inbox' = IF Len(inbox) < InboxCap THEN Append(inbox, frame[e]) ELSE inbox
  /\ at' = [at EXCEPT ![e] = "broadcast"]
  /\ UNCHANGED <<frame, made, ticks, writing, rows, failed, cast, viewVars, pageVars,
                 restarts>>

\* FrameStore::append waits for a place in the inbox.
AppendFrame(e) ==
  /\ at[e] = "append"
  /\ Len(inbox) < InboxCap
  /\ inbox' = Append(inbox, frame[e])
  /\ at' = [at EXCEPT ![e] = "broadcast"]
  /\ UNCHANGED <<frame, made, ticks, writing, rows, failed, cast, viewVars, pageVars,
                 restarts>>

\* broadcast::Sender::send never waits.
Broadcast(e) ==
  /\ at[e] = "broadcast"
  /\ cast' = Append(cast, frame[e])
  /\ at' = [at EXCEPT ![e] = "idle"]
  /\ frame' = [frame EXCEPT ![e] = NoFrame]
  /\ UNCHANGED <<made, ticks, storeVars, viewVars, pageVars, restarts>>

-----------------------------------------------------------------------------
(* writer_loop.                                                            *)

\* Mutant: the writer loop ends at the first error.
WriterRecvNoError ==
  /\ writing = NoFrame /\ inbox # <<>> /\ failed = {}
  /\ writing' = Head(inbox)
  /\ inbox' = Tail(inbox)
  /\ UNCHANGED <<emitVars, rows, failed, cast, viewVars, pageVars, restarts>>

WriterRecv ==
  /\ writing = NoFrame /\ inbox # <<>>
  /\ writing' = Head(inbox)
  /\ inbox' = Tail(inbox)
  /\ UNCHANGED <<emitVars, rows, failed, cast, viewVars, pageVars, restarts>>

\* SIGTICK events are not kept.
WriterSkip ==
  /\ writing \in ticks
  /\ writing' = NoFrame
  /\ UNCHANGED <<emitVars, inbox, rows, failed, cast, viewVars, pageVars, restarts>>

WriterInsert ==
  /\ writing # NoFrame /\ writing \notin ticks
  /\ rows' = Append(rows, writing)
  /\ writing' = NoFrame
  /\ UNCHANGED <<emitVars, inbox, failed, cast, viewVars, pageVars, restarts>>

\* The error is logged, the frame is gone, the loop goes on.
WriterInsertFails ==
  /\ writing # NoFrame /\ writing \notin ticks
  /\ Cardinality(failed) < MaxFailures
  /\ failed' = failed \union {writing}
  /\ writing' = NoFrame
  /\ UNCHANGED <<emitVars, inbox, rows, cast, viewVars, pageVars, restarts>>

-----------------------------------------------------------------------------
(* Observers: handle_socket and handle_client.                             *)

\* read_recent, and sending what it returned.
ReadRecent(o) ==
  /\ view[o] = "off"
  /\ seen' = [seen EXCEPT ![o] =
       {rows[i] : i \in {j \in 1 .. Len(rows) : j + RecentLimit > Len(rows)}}]
  /\ view' = [view EXCEPT ![o] = "recent"]
  /\ UNCHANGED <<emitVars, storeVars, cast, next, pageVars, restarts>>

Subscribe(o) ==
  /\ view[o] = "recent"
  /\ view' = [view EXCEPT ![o] = "live"]
  /\ next' = [next EXCEPT ![o] = Len(cast)]
  /\ UNCHANGED <<emitVars, storeVars, cast, seen, pageVars, restarts>>

Lags(o) == next[o] + BroadcastCap < Len(cast)

Observe(o) ==
  /\ view[o] = "live" /\ next[o] < Len(cast) /\ ~Lags(o)
  /\ seen' = [seen EXCEPT ![o] = @ \union {cast[next[o] + 1]}]
  /\ next' = [next EXCEPT ![o] = @ + 1]
  /\ UNCHANGED <<emitVars, storeVars, cast, view, pageVars, restarts>>

\* RecvError::Lagged: the receiver goes on with the oldest frame there is, the
\* client is not told.
ObserveLagged(o) ==
  /\ view[o] = "live" /\ Lags(o)
  /\ next' = [next EXCEPT ![o] = Len(cast) - BroadcastCap]
  /\ UNCHANGED <<emitVars, storeVars, cast, view, seen, pageVars, restarts>>

-----------------------------------------------------------------------------
(* frames:select with since_seq and a limit, ascending, by a caller that   *)
(* hands back next_since_seq.                                              *)

PageEnd(s) == IF s + PageLimit < Len(rows) THEN s + PageLimit ELSE Len(rows)

\* Mutant: the cursor of a page is the log's last seq, not the page's.
NextSinceLast(s) == Len(rows)

\* max_seq over the rows of the page; it starts from 0 for each call.
NextSince(s) == IF PageEnd(s) > s THEN PageEnd(s) ELSE 0

SelectPage ==
  /\ paged' = paged \union {rows[i] : i \in since + 1 .. PageEnd(since)}
  /\ since' = NextSince(since)
  /\ UNCHANGED <<emitVars, storeVars, cast, viewVars, restarts>>

-----------------------------------------------------------------------------
(* The daemon dies and is started again on the same frames.db.  FrameStore *)
(* reads the greatest seq; AUTOINCREMENT goes on from there.               *)

Restart ==
  /\ restarts < MaxRestarts
  /\ restarts' = restarts + 1
  /\ at' = [e \in Emitters |-> "idle"]
  /\ frame' = [e \in Emitters |-> NoFrame]
  /\ inbox' = <<>>
  /\ writing' = NoFrame
  /\ cast' = <<>>
  /\ view' = [o \in Observers |-> "off"]
  /\ next' = [o \in Observers |-> 0]
  /\ seen' = [o \in Observers |-> {}]
  /\ UNCHANGED <<made, ticks, rows, failed, pageVars>>

LogNext ==
  \/ \E e \in Emitters : Emit(e) \/ AppendFrame(e) \/ Broadcast(e)
  \/ WriterRecv \/ WriterSkip \/ WriterInsert \/ WriterInsertFails
  \/ \E o \in Observers : ReadRecent(o) \/ Subscribe(o) \/ Observe(o) \/ ObserveLagged(o)
  \/ SelectPage
  \/ Restart

\* Tokio polls the writer, emitters in the midst of a frame, and observers.
LogFairness ==
  /\ WF_logVars(WriterRecv \/ WriterSkip \/ WriterInsert)
  /\ \A e \in Emitters : WF_logVars(AppendFrame(e)) /\ WF_logVars(Broadcast(e))
  /\ \A o \in Observers : WF_logVars(Subscribe(o) \/ Observe(o) \/ ObserveLagged(o))

LogSpec == LogInit /\ [][LogNext]_logVars /\ LogFairness

-----------------------------------------------------------------------------
(* Properties.                                                             *)

(* Every variable has values of its type; the channels are bounded.        *)
LogTypeOK ==
  /\ at \in [Emitters -> {"idle", "append", "broadcast"}]
  /\ frame \in [Emitters -> Frames \union {NoFrame}]
  /\ made \in 0 .. MaxFrames
  /\ ticks \subseteq Frames
  /\ inbox \in Seq(Frames) /\ Len(inbox) <= InboxCap
  /\ writing \in Frames \union {NoFrame}
  /\ rows \in Seq(Frames)
  /\ cast \in Seq(Frames)
  /\ view \in [Observers -> {"off", "recent", "live"}]
  /\ next \in [Observers -> Nat]
  /\ seen \in [Observers -> SUBSET Frames]
  /\ since \in 0 .. Len(rows)
  /\ paged \subseteq Frames
  /\ failed \subseteq Frames
  /\ restarts \in 0 .. MaxRestarts

\* Frames on their way to the table, in it, or left out for a reason that the
\* code states.
Recorded == ToSet(inbox) \union {writing} \union ToSet(rows) \union ticks \union failed

(* A frame that an observer was never sent, be it emitted between its      *)
(* catch-up and its subscription or overwritten while it lagged, is one    *)
(* that frames:select returns now or as soon as the writer gets to it:     *)
(* every frame is recorded before it is broadcast, and append waits rather *)
(* than lose one ("no lossy logging", frame_store.rs:108).                 *)
BroadcastIsRecorded == \A i \in 1 .. Len(cast) : cast[i] \in Recorded

(* A caller of frames:select who hands back next_since_seq has got every   *)
(* row up to his cursor, whatever is inserted between two pages and        *)
(* however often the daemon restarts.                                      *)
PagesLeaveNoGap == \A i \in 1 .. since : rows[i] \in paged

(* The inbox's back-pressure never holds an emitter for good, though       *)
(* inserts fail: every call's pump and exec task stand behind it.          *)
AppendReturns == \A e \in Emitters : at[e] = "append" ~> at[e] # "append"
=============================================================================
