---------------------------- MODULE MonitorFeed ----------------------------
(***************************************************************************)
(* The monitor's list of frames (src/monitor/src/main.rs): run_uds_client, *)
(* which reads the daemon's frames.sock and connects again when it closes, *)
(* the channel to the terminal loop, the queue kept while paused, and      *)
(* App.push_frame, which matches replies with the requests they belong to. *)
(*                                                                         *)
(* The counters, the timeline and the ticker beside the list are left out, *)
(* and with them SIGTICK frames.  A frame is [id, op, of]: a request of    *)
(* its own, or an "ok", "done" or "item" of one.                           *)
(***************************************************************************)
EXTENDS Naturals, Sequences

CONSTANTS
  Calls,       (* ids of requests                                          *)
  ChanCap,     (* the channel to the loop (100)                            *)
  ListCap,     (* records kept (1000)                                      *)
  QueueCap,    (* frames kept while paused (10000)                         *)
  RecentLimit, (* frames the daemon starts a connection with (100)         *)
  MaxSent,     (* bound: frames the daemon emits                           *)
  MaxDrops     (* bound: connections lost                                  *)

VARIABLES
  feedSent,    (* the frames the daemon has emitted                        *)
  feedLink,    (* "down", "up" when the client is to say so, "reading"     *)
  feedNext,    (* the frame the connection is at                           *)
  feedChan,    (* the channel: numbers of frames, or "up" and "down"       *)
  feedShown,   (* App.connected                                            *)
  feedPaused,  (* App.paused                                               *)
  feedQueue,   (* paused_queue                                             *)
  feedList,    (* App.frames: [n, resolved, by]                            *)
  feedPending, (* App.pending: the record of each open request; 0: none    *)
  feedDrops    (* history: connections lost                                *)

feedVars == <<feedSent, feedLink, feedNext, feedChan, feedShown, feedPaused, feedQueue,
              feedList, feedPending, feedDrops>>

FeedInit ==
  /\ feedSent = <<>> /\ feedLink = "down" /\ feedNext = 1 /\ feedChan = <<>>
  /\ feedShown = FALSE /\ feedPaused = FALSE /\ feedQueue = <<>>
  /\ feedList = <<>> /\ feedPending = [c \in Calls |-> 0]
  /\ feedDrops = 0

-----------------------------------------------------------------------------
(* The daemon, and the client's task.                                      *)

\* A request comes once, and before its items and replies.
Emit ==
  /\ Len(feedSent) < MaxSent
  /\ \E c \in Calls, op \in {"req", "item", "ok", "done"} :
       /\ (op = "req") <=> ~\E i \in DOMAIN feedSent : feedSent[i].id = c
       /\ feedSent' = Append(feedSent, [id |-> c, op |-> op])
  /\ UNCHANGED <<feedLink, feedNext, feedChan, feedShown, feedPaused, feedQueue,
                 feedList, feedPending, feedDrops>>

Tells(event) == Len(feedChan) < ChanCap /\ feedChan' = Append(feedChan, event)

\* The daemon starts with the recent frames, of which some were sent before.
\* The code misses frames that come between those and the subscription, and when
\* the feed is lapped; here all are sent.
Connect ==
  /\ feedLink = "down" /\ Tells([n |-> 0, link |-> TRUE])
  /\ feedLink' = "reading"
  /\ feedNext' = 1 + (IF Len(feedSent) > RecentLimit THEN Len(feedSent) - RecentLimit ELSE 0)
  /\ UNCHANGED <<feedSent, feedShown, feedPaused, feedQueue, feedList, feedPending,
                 feedDrops>>

Line ==
  /\ feedLink = "reading" /\ feedNext <= Len(feedSent)
  /\ Tells([n |-> feedNext, link |-> TRUE])
  /\ feedNext' = feedNext + 1
  /\ UNCHANGED <<feedSent, feedLink, feedShown, feedPaused, feedQueue, feedList, feedPending,
                 feedDrops>>

Lost ==
  /\ feedLink = "reading" /\ feedDrops < MaxDrops
  /\ Tells([n |-> 0, link |-> FALSE])
  /\ feedLink' = "down" /\ feedDrops' = feedDrops + 1
  /\ UNCHANGED <<feedSent, feedNext, feedShown, feedPaused, feedQueue, feedList, feedPending>>

-----------------------------------------------------------------------------
(* The loop.                                                               *)

\* Mutant (ReplyMarksItsCall): pop_front without the shift of what is pending.
EvictedUnshifted(list, pending) ==
  IF Len(list) <= ListCap THEN [list |-> list, pending |-> pending]
  ELSE [list |-> Tail(list), pending |-> [c \in Calls |-> IF pending[c] = 1 THEN 0 ELSE pending[c]]]

\* pop_front: the request in the oldest record is no longer pending, and the
\* indices of the others move down.
Evicted(list, pending) ==
  IF Len(list) <= ListCap THEN [list |-> list, pending |-> pending]
  ELSE [list |-> Tail(list),
        pending |-> [c \in Calls |-> IF pending[c] = 0 THEN 0 ELSE pending[c] - 1]]

\* push_frame: a reply marks the record of its request and closes it, anything
\* else becomes a record, over the pending index of a request shown before.
push_frame(s, n) ==
  LET f == feedSent[n]
      i == s.pending[f.id]
  IN  IF f.op \in {"ok", "done"}
      THEN [list |-> IF i = 0 THEN s.list
                     ELSE [s.list EXCEPT ![i] = [n |-> s.list[i].n, resolved |-> f.op, by |-> n]],
            pending |-> [s.pending EXCEPT ![f.id] = 0]]
      ELSE Evicted(Append(s.list, [n |-> n, resolved |-> "no", by |-> 0]),
                   IF f.op = "req" THEN [s.pending EXCEPT ![f.id] = Len(s.list) + 1] ELSE s.pending)

\* What is pushed when a frame comes and the list is not paused.
Flush(n) == feedQueue \o <<n>>

\* The list and what is pending after each frame that is pushed.
Pushed(queue) ==
  LET s[i \in 0 .. Len(queue)] ==
        IF i = 0 THEN [list |-> feedList, pending |-> feedPending]
        ELSE push_frame(s[i - 1], queue[i])
  IN  s

Capped(queue) == IF Len(queue) > QueueCap THEN Tail(queue) ELSE queue

Take ==
  /\ feedChan # <<>> /\ feedChan' = Tail(feedChan)
  /\ LET e == Head(feedChan)
         flush == Flush(e.n)
         pushed == Pushed(flush)[Len(flush)]
     IN  \/ /\ e.n = 0 /\ feedShown' = e.link
            /\ UNCHANGED <<feedQueue, feedList, feedPending>>
         \/ /\ e.n # 0 /\ feedPaused
            /\ feedQueue' = Capped(Append(feedQueue, e.n))
            /\ UNCHANGED <<feedShown, feedList, feedPending>>
         \/ /\ e.n # 0 /\ ~feedPaused
            /\ feedQueue' = <<>> /\ feedList' = pushed.list /\ feedPending' = pushed.pending
            /\ UNCHANGED feedShown
  /\ UNCHANGED <<feedSent, feedLink, feedNext, feedPaused, feedDrops>>

\* The key 'p'; the queue waits for the next frame.
Pause ==
  /\ feedPaused' = ~feedPaused
  /\ UNCHANGED <<feedSent, feedLink, feedNext, feedChan, feedShown, feedQueue, feedList,
                 feedPending, feedDrops>>

FeedNext == Emit \/ Connect \/ Line \/ Lost \/ Take \/ Pause

FeedSpec == FeedInit /\ [][FeedNext]_feedVars

-----------------------------------------------------------------------------
\* Through pauses, evictions and the frames a new connection repeats, a reply
\* marks only a record of the request it answers.
ReplyMarksItsCall ==
  \A i \in DOMAIN feedList : feedList[i].by # 0 =>
    /\ feedSent[feedList[i].n].op = "req"
    /\ feedSent[feedList[i].n].id = feedSent[feedList[i].by].id
=============================================================================
