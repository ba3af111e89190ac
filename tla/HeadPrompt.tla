---------------------------- MODULE HeadPrompt ----------------------------
(***************************************************************************)
(* What the head remembers: the prompt that HeadBundleBuilder::build       *)
(* (src/daemon/src/runtime/head/bundle.rs) makes for an interactive        *)
(* room's agent when chat:message creates the room, out of the frames log  *)
(* (src/daemon/src/kernel/frame_select.rs).  The room lives until it is    *)
(* idle or the daemon restarts; the next message creates it again.         *)
(*                                                                         *)
(* One room.  A frame gets its timestamp where it is made and its seq when *)
(* the writer inserts it, so that the two orders may differ.  Of a text    *)
(* only its tokens are kept; the system prompt is SystemTokens of them.    *)
(***************************************************************************)
EXTENDS Naturals, FiniteSets, SequencesExt, Sieve

CONSTANTS
  Sizes,         (* tokens of a message                                    *)
  SystemTokens,  (* tokens of the system prompt                            *)
  Budget,        (* context_budget_tokens                                  *)
  Gap,           (* time_gap_marker_minutes, in ticks                      *)
  Limit,         (* max_messages_per_room (100)                            *)
  None,          (* no room                                                *)
  MaxFrames,     (* bound: frames made                                     *)
  MaxTime,       (* bound: ticks                                           *)
  MaxEnds        (* bound: times the room is lost                          *)

Actors == {"user", "human/ann", "head/head-0"}

\* What is recorded under a room: messages, a client's frames:append of a
\* chat:reset, a need the head asks for, and the requests of other calls.
Forms == [name : {"chat:message"}, kind : {""}, actor : Actors]
         \cup {[name |-> "frames:append", kind |-> "chat:reset", actor |-> "user"],
               [name |-> "need:enqueue", kind |-> "", actor |-> "head/head-0"],
               [name |-> "llm:chat", kind |-> "", actor |-> "head/head-0"]}

VARIABLES
  hpNow,      (* the clock                                                 *)
  hpSent,     (* frames made that the writer has not inserted              *)
  hpLog,      (* the rows; the index is seq                                *)
  hpSaying,   (* an interactive chat:message is being handled              *)
  hpRoom,     (* None, or [seen, messages]: the rows there were when the   *)
              (* room was made, and its agent's first messages             *)
  hpMade,     (* history: frames made                                      *)
  hpEnds      (* history: rooms lost                                       *)

hpVars == <<hpNow, hpSent, hpLog, hpSaying, hpRoom, hpMade, hpEnds>>

HeadInit ==
  /\ hpNow = 0 /\ hpSent = {} /\ hpLog = <<>> /\ hpSaying = FALSE
  /\ hpRoom = None /\ hpMade = 0 /\ hpEnds = 0

-----------------------------------------------------------------------------
(* The rows read, and the conversation's items in them.                    *)

\* ORDER BY seq asc LIMIT.
build_frame_select_sql(log, limit) == [s \in DOMAIN log \cap 1 .. limit |-> s]

\* The calls that are told of in the conversation (and task:enqueue and
\* task:complete, which no syscall has).
NeedCalls == {"need:enqueue", "need:fulfill"}

Kind(f) ==
  CASE f.kind # "" -> f.kind
    [] f.name = "chat:message" -> IF f.actor = "head/head-0" THEN "chat:head" ELSE "chat:user"
    [] f.name \in NeedCalls -> "need"
    [] OTHER -> ""

IsItem(f) == Kind(f) # ""

\* The order of the items; an item is named by its seq.
Before(log, a, b) == log[a].ts < log[b].ts \/ (log[a].ts = log[b].ts /\ a < b)

Insert(log, items, s) ==
  LET earlier == {i \in DOMAIN log : Before(log, i, s)}
  IN  Sift(items, earlier) \o <<s>> \o Sift(items, DOMAIN log \ earlier)

\* Sorted as they are read.
Sorted(log, rows) ==
  LET items[n \in 0 .. Len(rows)] ==
        IF n = 0 THEN <<>> ELSE Insert(log, items[n - 1], rows[n])
  IN  items

select_conversation(log, limit) ==
  LET rows == Sift(build_frame_select_sql(log, limit), {s \in DOMAIN log : IsItem(log[s])})
  IN  Sorted(log, rows)[Len(rows)]

-----------------------------------------------------------------------------
(* build.                                                                  *)

fetch_conversation_items(log) == select_conversation(log, Limit)

\* Nothing of before the last reset among them.
SinceReset(log, items) ==
  Sift(items, {s \in DOMAIN log : Kind(log[s]) = "chat:reset" \/
    \A r \in Range(items) : Kind(log[r]) = "chat:reset" => Before(log, r, s)})

IsHuman(f) == f.actor = "human/ann"

Entry(f, s) == [seq |-> s, tokens |-> f.size, human |-> IsHuman(f)]
Marker == [seq |-> 0, tokens |-> 1, human |-> FALSE]

\* A human says something a long time after the last time.
LongAfter(log, chat, i) ==
  LET earlier == {j \in 1 .. i - 1 : IsHuman(log[chat[j]])}
  IN  /\ IsHuman(log[chat[i]]) /\ earlier # {}
      /\ LET j == CHOOSE j \in earlier : \A k \in earlier : k <= j
         IN  log[chat[i]].ts - log[chat[j]].ts >= Gap

\* Of every beginning of the conversation the messages.
Rendered(log, chat) ==
  LET told[n \in 0 .. Len(chat)] ==
        IF n = 0 THEN <<>>
        ELSE LET e == Entry(log[chat[n]], chat[n])
             IN  told[n - 1] \o (IF LongAfter(log, chat, n) THEN <<Marker, e>> ELSE <<e>>)
  IN  told

\* A reset is rendered as nothing.
History(log, items) ==
  LET chat == Sift(items, {s \in DOMAIN log : Kind(log[s]) # "chat:reset"})
  IN  Rendered(log, chat)[Len(chat)]

Tokens(h) == FoldSeq(LAMBDA e, n : n + e.tokens, 0, h)
LastHuman(h) == {i \in DOMAIN h : h[i].human /\ \A j \in DOMAIN h : h[j].human => j <= i}

\* Mutant (PromptIsRecent): last_human_idx is not counted down.
TrimUnshifted(h) ==
  LET stop(k) == \/ SystemTokens + Tokens(SubSeq(h, k, Len(h))) <= Budget
                 \/ k = Len(h) \/ (k = 1 /\ 1 \in LastHuman(h))
  IN  IF h = <<>> THEN h
      ELSE SubSeq(h, CHOOSE k \in DOMAIN h : stop(k) /\ \A j \in 1 .. k - 1 : ~stop(j), Len(h))

\* Drop from the front until it fits, all but the last, and never the last
\* human message.
Trim(h) ==
  LET stop(k) == \/ SystemTokens + Tokens(SubSeq(h, k, Len(h))) <= Budget
                 \/ k = Len(h) \/ k \in LastHuman(h)
  IN  IF h = <<>> THEN h
      ELSE SubSeq(h, CHOOSE k \in DOMAIN h : stop(k) /\ \A j \in 1 .. k - 1 : ~stop(j), Len(h))

build(log) == Trim(History(log, SinceReset(log, fetch_conversation_items(log))))

-----------------------------------------------------------------------------
Make(form, size) ==
  /\ hpMade < MaxFrames /\ hpMade' = hpMade + 1
  /\ hpSent' = hpSent \cup {[name |-> form.name, kind |-> form.kind, actor |-> form.actor,
                             size |-> size, ts |-> hpNow, id |-> hpMade]}

\* The dispatcher hands the request to the writer and runs the handler.
Say ==
  /\ ~hpSaying /\ hpSaying' = TRUE
  /\ \E form \in Forms, size \in Sizes :
       form.name = "chat:message" /\ form.actor # "head/head-0" /\ Make(form, size)
  /\ UNCHANGED <<hpNow, hpLog, hpRoom, hpEnds>>

\* The head's own messages, the resets and the other calls.
Other ==
  /\ \E form \in Forms, size \in Sizes :
       (form.name = "chat:message" => form.actor = "head/head-0") /\ Make(form, size)
  /\ UNCHANGED <<hpNow, hpLog, hpSaying, hpRoom, hpEnds>>

WriterRun ==
  /\ \E f \in hpSent : hpSent' = hpSent \ {f} /\ hpLog' = Append(hpLog, f)
  /\ UNCHANGED <<hpNow, hpSaying, hpRoom, hpMade, hpEnds>>

\* get_or_create: the bundle is built every time and used for a new room.
Open ==
  /\ hpSaying /\ hpSaying' = FALSE
  /\ hpRoom' = IF hpRoom = None THEN [seen |-> Len(hpLog), messages |-> build(hpLog)] ELSE hpRoom
  /\ UNCHANGED <<hpNow, hpSent, hpLog, hpMade, hpEnds>>

\* The room is idle, or the daemon restarts and what the writer has not
\* inserted is lost.
RoomLost ==
  /\ hpEnds < MaxEnds /\ hpEnds' = hpEnds + 1 /\ hpRoom' = None
  /\ \/ hpRoom # None /\ UNCHANGED <<hpSent, hpSaying>>
     \/ hpSent' = {} /\ hpSaying' = FALSE
  /\ UNCHANGED <<hpNow, hpLog, hpMade>>

Tick == hpNow < MaxTime /\ hpNow' = hpNow + 1
        /\ UNCHANGED <<hpSent, hpLog, hpSaying, hpRoom, hpMade, hpEnds>>

HeadNext == Say \/ Other \/ WriterRun \/ Open \/ RoomLost \/ Tick

HeadSpec == HeadInit /\ [][HeadNext]_hpVars

-----------------------------------------------------------------------------
\* What the log had to tell when the room was made, and that since the reset.
Messages == {s \in 1 .. hpRoom.seen : Kind(hpLog[s]) \notin {"", "chat:reset"}}
Current == {s \in Messages : \A r \in 1 .. hpRoom.seen :
                               Kind(hpLog[r]) = "chat:reset" => Before(hpLog, r, s)}
Remembered == {e.seq : e \in Range(hpRoom.messages)} \ {0}

\* While the log is no longer than a page, a room that is made again knows
\* the end of the conversation: nothing of before the last reset, nothing
\* older than what was dropped, the last message of a human whatever the
\* budget, and more than the budget only for that message's sake.
PromptIsRecent ==
  hpRoom # None /\ hpRoom.seen <= Limit =>
    /\ Remembered \subseteq Current
    /\ \A s \in Current \ Remembered : \A k \in Remembered : Before(hpLog, s, k)
    /\ \A s \in Current : IsHuman(hpLog[s]) => \E k \in Remembered : IsHuman(hpLog[k])
    /\ \/ SystemTokens + Tokens(hpRoom.messages) <= Budget
       \/ Len(hpRoom.messages) <= 1 \/ hpRoom.messages[1].human

\* A reset lets a client start a fresh conversation without deleting old logs
\* (bundle.rs:132-133).  (Violated: the rows are read from the oldest on, and a
\* reset after the first Limit of them is not seen.)
ResetForgets == hpRoom # None => Remembered \subseteq Current
=============================================================================
