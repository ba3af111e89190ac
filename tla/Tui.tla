-------------------------------- MODULE Tui --------------------------------
(***************************************************************************)
(* Terminal clients of the daemon: the event loop of abbot-tui             *)
(* (src/tui/src/main.rs), its connection (ws.rs), the replay after a       *)
(* reconnect (replay.rs), and at the other end the session of a WebSocket  *)
(* (src/daemon/src/server/websocket.rs).                                   *)
(*                                                                         *)
(* One room.  A message begins a turn, and the turn makes one call of a    *)
(* tool that the TUI offers; texts and notes, which change nothing but     *)
(* the screen, are left out.  The room takes its turns one after another.  *)
(*                                                                         *)
(* A command stays in cmds until the daemon takes it, and a frame is in    *)
(* events from the moment the daemon sends it, so when a connection breaks *)
(* the first commands and the last frames may be gone.                     *)
(***************************************************************************)
EXTENDS Naturals, Sequences, FiniteSets, SequencesExt, Sieve

CONSTANTS Clients,  (* TUIs that are running                                *)
          Texts,    (* what their users type: no text is blank              *)
          MaxDrops, (* bound: connections that break                        *)
          MaxOther  (* bound: turns of the room that others begin           *)

VARIABLES
  up,       (* clients that are connected                                   *)
  box,      (* the input box: a text, or "" when it is empty                *)
  pending,  (* input_pending: clients whose box waits for the ack           *)
  thread,   (* thread_id of the room at each client; 0 before the first ack *)
  cmds,     (* commands on the way to the daemon                            *)
  seen,     (* seen_ids of the connection                                   *)
  events,   (* events on the way to the main loop; live: from the socket    *)
  fetching, (* history fetches under way: what they were asked to start from *)
  synced,   (* last_replay_ts, as a position in the log                     *)
  ran,      (* turns whose tool call the client has run, as it ran them     *)
  busy,     (* those of them, as positions, that still run                  *)
  tracked,  (* active_turns of each session; 0 for none                     *)
  orphans,  (* turns whose session has ended and has still to cancel them   *)
  turns,    (* the turns in the order the room takes them                   *)
  log,      (* the frame log: the turns whose tool call is in it            *)
  drops     (* connections that broke                                       *)

screenVars == <<box, pending, thread>>

linkVars == <<up, cmds, seen, events, drops>>

replayVars == <<fetching, synced>>

toolVars == <<ran, busy>>

daemonVars == <<tracked, orphans, turns, log>>

tuiVars == <<screenVars, linkVars, replayVars, toolVars, daemonVars>>

Each(x) == [c \in Clients |-> x]

TuiInit ==
  /\ up = {} /\ pending = {} /\ orphans = {} /\ drops = 0 /\ turns = <<>> /\ log = <<>>
  /\ box = Each("")
  /\ thread = Each(0) /\ synced = Each(0) /\ tracked = Each(0)
  /\ cmds = Each(<<>>) /\ events = Each(<<>>)
  /\ ran = Each(<<>>) /\ busy = Each({}) /\ seen = Each({}) /\ fetching = Each({})

-----------------------------------------------------------------------------
(* The user.                                                               *)

Typed == {box[c] : c \in Clients} \union {turns[i].text : i \in DOMAIN turns}

\* Enter.  The text stays in the box, which is locked, until the ack.
Submit(c) ==
  /\ box[c] = ""
  /\ \E t \in Texts \ Typed :
       /\ box' = [box EXCEPT ![c] = t]
       /\ cmds' = [cmds EXCEPT ![c] = Append(@, [op |-> "message", text |-> t])]
  /\ pending' = pending \union {c}
  /\ UNCHANGED <<thread, up, seen, events, drops, replayVars, toolVars, daemonVars>>

\* /cancel; bound: one at a time, and where there is a turn to cancel.
Cancels(q) == \E i \in DOMAIN q : q[i].op = "cancel"

CancelTurn(c) ==
  /\ c \notin pending /\ tracked[c] # 0
  /\ ~Cancels(cmds[c])
  /\ cmds' = [cmds EXCEPT ![c] = Append(@, [op |-> "cancel"])]
  /\ UNCHANGED <<screenVars, up, seen, events, drops, replayVars, toolVars, daemonVars>>

-----------------------------------------------------------------------------
(* The connection: run_ws and handle_socket.                               *)

Live(f) == [op |-> f.op, turn |-> f.turn, live |-> TRUE]

ToolFrame(t) == Live([op |-> "tool", turn |-> t])

Connection == [op |-> "connected", live |-> FALSE]

\* The daemon sends the recent frames; the client begins with no seen_ids.
Connect(c) ==
  /\ c \notin up
  /\ up' = up \union {c}
  /\ seen' = [seen EXCEPT ![c] = ToSet(log)]
  /\ events' = [events EXCEPT ![c] =
                  Append(@, Connection) \o [i \in DOMAIN log |-> ToolFrame(log[i])]]
  /\ UNCHANGED <<screenVars, cmds, drops, replayVars, toolVars, daemonVars>>

\* What does not come over the connection.
Fetched(c) == {e \in ToSet(events[c]) : ~e.live}

\* What is on the way is lost, and the session ends: it will cancel the turn
\* that it tracks.
Drop(c) ==
  /\ c \in up /\ drops < MaxDrops
  /\ drops' = drops + 1
  /\ up' = up \ {c}
  /\ \E k \in 0..Len(cmds[c]) : cmds' = [cmds EXCEPT ![c] = SubSeq(@, k + 1, Len(@))]
  /\ \E k \in 0..Len(events[c]) :
       events' = [events EXCEPT ![c] =
                    SubSeq(@, 1, k) \o Sift(SubSeq(@, k + 1, Len(@)), Fetched(c))]
  /\ orphans' = orphans \union ({tracked[c]} \ {0})
  /\ tracked' = [tracked EXCEPT ![c] = 0]
  /\ UNCHANGED <<screenVars, seen, replayVars, toolVars, turns, log>>

-----------------------------------------------------------------------------
(* The main loop: one event.                                               *)

\* Mutant: a text that was on its way when the connection broke is not sent
\* again.
KeepWaiting(c) == UNCHANGED cmds

\* A pending text is sent again.
Resend(c) ==
  IF c \in pending
  THEN cmds' = [cmds EXCEPT ![c] = Append(@, [op |-> "message", text |-> box[c]])]
  ELSE UNCHANGED cmds

\* The history is fetched anew.
Connected(c) ==
  /\ fetching' = [fetching EXCEPT ![c] = @ \union {synced[c]}]
  /\ Resend(c)
  /\ UNCHANGED <<screenVars, synced, ran, busy>>

\* The thread is the one whose calls are ours; a box that waits is unlocked.
ChatAck(c, t) ==
  /\ thread' = [thread EXCEPT ![c] = t]
  /\ box' = IF c \in pending THEN [box EXCEPT ![c] = ""] ELSE box
  /\ pending' = pending \ {c}
  /\ UNCHANGED <<cmds, replayVars, ran, busy>>

\* Mutant: a client takes every call as its own.
AnyTurn(c, t) == t # 0

is_ours(c, t) == thread[c] = t

\* A call of our turn is run; others are only shown.
ChatTool(c, t) ==
  /\ IF is_ours(c, t)
     THEN /\ ran' = [ran EXCEPT ![c] = Append(@, t)]
          /\ busy' = [busy EXCEPT ![c] = @ \union {Len(ran[c]) + 1}]
     ELSE UNCHANGED <<ran, busy>>
  /\ UNCHANGED <<screenVars, cmds, replayVars>>

ReplaySync(c, upto) ==
  /\ synced' = [synced EXCEPT ![c] = upto]
  /\ UNCHANGED <<screenVars, cmds, fetching, ran, busy>>

HandleEvent(c) ==
  /\ events[c] # <<>>
  /\ LET e == Head(events[c]) IN
       \/ e.op = "connected" /\ Connected(c)
       \/ e.op = "ack"       /\ ChatAck(c, e.turn)
       \/ e.op = "tool"      /\ ChatTool(c, e.turn)
       \/ e.op = "sync"      /\ ReplaySync(c, e.upto)
  /\ events' = [events EXCEPT ![c] = Tail(@)]
  /\ UNCHANGED <<up, seen, drops, daemonVars>>

\* GET /admin/logs, oldest first; its limit of 500 is never reached here.
get_logs(since) == SubSeq(log, since + 1, Len(log))

\* fetch_history: what the log has since then goes to the main loop, and how
\* far that is; frames from the socket may come before or after it.  A fetch
\* that fails brings nothing.
Missed(since) ==
  LET new == get_logs(since) IN [i \in DOMAIN new |-> [op |-> "tool", turn |-> new[i], live |-> FALSE]]

Synced == [op |-> "sync", upto |-> Len(log), live |-> FALSE]

FetchHistory(c) ==
  \E since \in fetching[c] :
    /\ fetching' = [fetching EXCEPT ![c] = @ \ {since}]
    /\ \/ /\ Len(log) > since
          /\ \E k \in 0..Len(events[c]) :
               /\ \A j \in (k + 1)..Len(events[c]) : events[c][j].live
               /\ events' = [events EXCEPT ![c] =
                    SubSeq(@, 1, k) \o Append(Missed(since), Synced) \o SubSeq(@, k + 1, Len(@))]
       \/ Len(log) = since /\ UNCHANGED events
       \/ c \notin up /\ UNCHANGED events
    /\ UNCHANGED <<screenVars, up, cmds, seen, drops, synced, toolVars, daemonVars>>

\* execute_tool has come back: the result is sent.
ToolExecDone(c) ==
  \E i \in busy[c] :
    /\ busy' = [busy EXCEPT ![c] = @ \ {i}]
    /\ cmds' = [cmds EXCEPT ![c] = Append(@, [op |-> "result", turn |-> ran[c][i]])]
    /\ UNCHANGED <<screenVars, up, seen, events, drops, replayVars, ran, daemonVars>>

-----------------------------------------------------------------------------
(* The daemon.                                                             *)

Set(t, s) == [turns EXCEPT ![t].state = s]

Cancelled(t) == IF t = 0 \/ turns[t].state = "done" THEN turns ELSE Set(t, "done")

\* handle_inbound_frame: the room's tracked turn is forgotten for the new one,
\* and the ack goes out before the turn can begin.
HandleMessage(c, text) ==
  LET t == Len(turns) + 1 IN
  /\ turns' = Append(turns, [text |-> text, client |-> c, state |-> "queued"])
  /\ tracked' = [tracked EXCEPT ![c] = t]
  /\ events' = [events EXCEPT ![c] = Append(@, Live([op |-> "ack", turn |-> t]))]

HandleCancel(c) ==
  /\ turns' = Cancelled(tracked[c])
  /\ tracked' = [tracked EXCEPT ![c] = 0]
  /\ UNCHANGED events

\* The result is taken by the turn that waits for it, or refused.
HandleResult(t) ==
  /\ turns' = IF turns[t].state = "waiting" THEN Set(t, "done") ELSE turns
  /\ UNCHANGED <<tracked, events>>

HandleInbound(c) ==
  /\ c \in up /\ cmds[c] # <<>>
  /\ LET m == Head(cmds[c]) IN
       \/ m.op = "message" /\ HandleMessage(c, m.text)
       \/ m.op = "cancel"  /\ HandleCancel(c)
       \/ m.op = "result"  /\ HandleResult(m.turn)
  /\ cmds' = [cmds EXCEPT ![c] = Tail(@)]
  /\ UNCHANGED <<screenVars, up, seen, drops, replayVars, toolVars, orphans, log>>

\* run_ws drops a frame it has seen: of the two that come, by the turn's
\* stream and with the broadcast, it takes one.
Deliver(t) ==
  /\ events' = [c \in Clients |->
       IF c \in up /\ t \notin seen[c] THEN Append(events[c], ToolFrame(t)) ELSE events[c]]
  /\ seen' = [c \in Clients |-> IF c \in up THEN seen[c] \union {t} ELSE seen[c]]

\* The room takes its next turn, which calls the tool.  The frame goes to
\* every client, and once more to the one whose session reads the turn.
EmitTool ==
  \E t \in DOMAIN turns :
    /\ turns[t].state = "queued"
    /\ \A u \in 1..(t - 1) : turns[u].state = "done"
    /\ turns' = Set(t, "waiting")
    /\ log' = Append(log, t)
    /\ Deliver(t)
    /\ UNCHANGED <<screenVars, up, cmds, drops, replayVars, toolVars, tracked, orphans>>

\* A turn of another client: its call comes here too, and is answered there.
\* Bound: such turns come before the room's others.
OtherTurn ==
  /\ Len(turns) < MaxOther
  /\ \A u \in DOMAIN turns : turns[u].state = "done"
  /\ LET t == Len(turns) + 1 IN
       /\ turns' = Append(turns, [text |-> "", client |-> "other", state |-> "done"])
       /\ log' = Append(log, t)
       /\ Deliver(t)
  /\ UNCHANGED <<screenVars, up, cmds, drops, replayVars, toolVars, tracked, orphans>>

\* The end of a session whose client has gone.
Cleanup ==
  \E t \in orphans :
    /\ orphans' = orphans \ {t}
    /\ turns' = Cancelled(t)
    /\ UNCHANGED <<screenVars, linkVars, replayVars, toolVars, tracked, log>>

ClientNext(c) ==
  \/ Submit(c) \/ CancelTurn(c)
  \/ Connect(c) \/ Drop(c)
  \/ HandleEvent(c) \/ FetchHistory(c) \/ ToolExecDone(c) \/ HandleInbound(c)

TuiNext == EmitTool \/ OtherTurn \/ Cleanup \/ \E c \in Clients : ClientNext(c)

\* run_ws connects again for ever; its task, the main loop and the session
\* do not sleep on work that is there.
TuiFairness ==
  \A c \in Clients :
    /\ WF_tuiVars(Connect(c)) /\ WF_tuiVars(HandleEvent(c)) /\ WF_tuiVars(HandleInbound(c))

TuiSpec == TuiInit /\ [][TuiNext]_tuiVars /\ TuiFairness

-----------------------------------------------------------------------------
\* Every client sees the tool calls of every turn, live, among the recent
\* frames and in the history; it runs those of its own turns only.
OwnCallsOnly ==
  \A c \in Clients : \A i \in DOMAIN ran[c] : turns[ran[c][i]].client = c

\* A box that is locked by a text is unlocked, wherever the connection broke.
BoxUnlocks == \A c \in Clients : c \in pending ~> c \notin pending
=============================================================================
