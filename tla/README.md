# Abbot: TLA+ models, checks and proofs

Abbot is a daemon (`src/daemon`) in which language-model agents talk to users
and to each other. Everything an agent or a client does is a *syscall*: a
request frame that the kernel's dispatcher routes to a handler and that is
answered by a stream of frames. On top of it are rooms (where agents take
turns), turns (what a user sees as one answer, possibly over several HTTP
requests), a queue of needs that background services work off, and the tools
agents use: files, processes, an entity store, language models. Around the
daemon are a command line, a terminal client and a monitor.

The project models the concurrent core of the daemon in most detail, then its
services, its edges, and the programs around it as far as they keep state. TLC
checks each model on a small instance; TLAPS proves all its safety properties for
all sizes.

    tlc -workers 2 -config MCKernel.cfg MCKernel.tla
    tlapm KernelProofs.tla

## 1. Inventory

Paths are under `src/daemon/src/` unless they say otherwise. "Hard" says what a
test would hardly reach; the hazards of `PROJECT.json` give the lines.

| Component | State | Operations | Hard |
|---|---|---|---|
| Dispatcher, `kernel/dispatcher.rs` | per call: two bounded channels, a relaxed counter of unacknowledged frames, a one-slot ping, a cancellation token; the audit log | `dispatch`, the exec task, the pump task, `KernelReceiver::{recv, ack, drop}` | four tasks meet in the counter; stall, deadline and cancel race with delivery |
| Frame log, `kernel/frame_store.rs`, `runtime/frames_uds.rs`, `syscalls/frames/` | an inbox, a writer, the table, a broadcast channel, observers | append, insert, broadcast, catch-up, pages, restart | failed inserts, lag, what falls between catch-up and subscription |
| Lanes, `kernel/router.rs` and `dispatcher.rs`, `syscalls/dispatch.rs` | a mutex per serial lane | acquire, nested dispatch, release, being dropped by the `select!` | deadlock through nesting; a lost guard |
| Turn runtime, `kernel/turns.rs` | per (room, reply_to): cancelled flag, pending external calls with result and Notify | register, deliver, take, cancel, finish | `take` reads, waits and removes in separate critical sections |
| Chat turn: `kernel/sigcall_hub.rs`, `syscalls/chat/`, `server/{handler, ingress_hub}.rs`, `runtime/room/{door, runner}.rs` | the turn stream, the requests (segments) of the turn, the head's loop | see `ChatTurn` below | a head, several HTTP requests, a timer and late cancels share one turn |
| Room registry, `kernel/room_registry.rs`, `runtime/kernel.rs` | a RwLock over the map of rooms; per room a mutex, a door, whether its agent is active, a Notify, last activity | `get_or_create`, `attach_door`, `inject_message`, the persistent runner, `gc_idle` | two kinds of locks held for long; eviction under a running turn |
| Room runner, `runtime/room/runner.rs` | members and their histories, transcript, round, a cursor into the log | `run`: rounds of concurrent agents, deliveries, leaving, worktree | agents fail, panic or leave while others speak; the log is late |
| Need queue, `syscalls/need/`, `kernel/needs.rs`, `runtime/need/` | a table in EMS; a Notify; per service a semaphore | enqueue, lease, fulfill, the service loop | wakeups, permits, restarts |
| Want promotion, `syscalls/want/promote.rs` | a table in EMS | promote | read, mark and enqueue are three steps |
| Safe mode, `runtime/safe_mode.rs` | a flag, a failure tracker, an override, parked callers | report, spawn recovery, scan, publish, reset, notify | five separate atomics and locks change one after the other |
| Model calls, `syscalls/llm/`, `runtime/llm_harness.rs`, `hal/llm/` | attempts, endpoint, frames to the caller | attempt, retry, send, cancel | retries at two levels; a late note from a task of its own |
| Mind, `runtime/mind/`, `kernel/tick.rs` | tick subscription, last wake | wake, cycle, gather | time passes during a cycle; the stream stalls |
| EMS, `ems/`, `syscalls/ems/`, `syscalls/want/` | one table of columns and a JSON column; a schema version | create, update, select, delete, claim, migrate | two copies of a field; SQL NULL against JSON null; a crash in a migration |
| Head prompt, `runtime/head/bundle.rs` | none; reads the log | build | two orders of frames, indices that move, limits |
| Files, `vfs/`, `syscalls/{fs, patch}`, `runtime/hand/`, `runtime/session_locks.rs` | mounts, memory files, host files, working directory, write locks | read, write, mkdir, cd, list, grep, patch; the hand's loop | one place under several names; non-atomic host writes |
| Processes, `syscalls/exec/run.rs`, `hal/process.rs` | pipes, child, capture tasks, a monitor task | spawn, feed, capture, wait, kill | who waits for whom; grandchildren |
| HTTP API, `server/{openai, anthropic}.rs`, `syscalls/tool/`, `runtime/snapshot.rs` | tool registry, snapshot, prompt cache, active threads | the steps of a request; two stream protocols | requests interleave at each await |
| WebSocket and TUI, `server/websocket.rs`, `src/tui/src/` | connection, input box, turns, tool calls that ran | send, acknowledge, replay, run a call | broken connections with something under way |
| Monitor, `src/monitor/src/` | list of frames, pending requests, configuration fields | receive, pause, evict; load, edit, save | indices over evictions; answers that cross edits |
| Start-up, `bin/abbot.rs`, `runtime/preflight.rs`, `src/cli/src/commands/` | configuration, service, process, `preflight.log` | init, use, doctor, start, stop, install; the daemon's way to serving | command line and daemon talk through a file |
| Settings, `runtime/app_config.rs`, `server/admin.rs`, `syscalls/traits/`, `src/cli/src/config.rs` | `abbot.toml`, `keys.env`, their temporary files, a cache | read, edit, replace | several processes write; one is killed |

What makes each correct:

- **Dispatcher**: the caller gets a gapless prefix of what the handler emitted,
  and all of it unless somebody gave up; the log has each frame before the
  caller; backpressure is bounded and never blocks where no timeout guards it;
  a cancelled call ends.
- **Frame log**: what anybody saw is recorded; pages leave no gap; no emitter
  waits for good.
- **Lanes**: at most one handler of a serial lane; a lane is never lost; no
  wait closes a circle.
- **Turns** and **chat turn**: a result reaches the head that asked for it, and
  wakes it; what is accepted is kept, every request ends, a cancelled turn stops
  spending.
- **Rooms**: each message is read without another one's help and answered to
  the one who sent it; nobody's last words are lost; every run ends.
- **Need queue**: a need in one pair of hands at a time, none forgotten, no
  wakeup lost, by urgency and age; a want becomes one need at
  most.
- **Safe mode**: one recovery at a time, callers come back to a better model.
- **Services**: the mind sees what happened where it looks; a model's answer, a
  child's output and a written file arrive whole and once; the store answers as
  documents do.
- **Edges**: a client puts together what was said, runs its own calls only and
  is never stuck; what is displayed, cached or reported is what is.

### How they interact

Every call passes the dispatcher, which takes a lane before the handler runs;
a handler may dispatch further calls and await them, keeping its lane. Exec and
pump task append every frame to the log, from which room runner, mind, head
prompt and all observers read. An HTTP request or a WebSocket message opens a
turn stream in the hub and dispatches `chat:message`, which attaches a door to a
room and injects the message; the room's runner wakes, runs a round per agent,
and a head speaks through its door with `chat:tool`, `chat:done` and `chat:error`,
waiting in the turn runtime for the results that the client's next request brings
with `chat:tool_result`. A dropped response spawns `chat:cancel`. Agents call
models through `chat:llm`, behind which are safe mode, the harness and the
clients, and tools through `dispatch_tool`. Clients and agents put needs in the
queue, the mind promotes wants to needs, and need services lease them and
dispatch `room:run`.

### Not modelled

`PROJECT.json` lists every component with its status. Left out, and why:

- prompts, bundles of hand and mind, trait texts, drawing, wording of reports,
  the macOS app: text and presentation;
- `net:*`, `docs:*`, `noop`, HTTP routes, read-only admin views, the cache of
  model lists: one operation without state of its own;
- room schedules (no coordinator claims them at this commit) and
  `session:model_set` (nobody reads the model it stores): rows that are written
  and not used;
- the proxy mode of the OpenAI adapter, `/part` in the TUI, the log view of the
  monitor, the interactive dialogue of `abbot init`;
- the summary of a room and the planner of a need: their `chat:llm` is always
  refused, as their actors are none of those `cfg_for_actor` knows, so that the
  transcript and the default composition stand in for both;
- dead code: `ensure_turn`, `wait_for_seq`, `claim_due_room_schedule`,
  `register_pending` of the external tool manager, the registry's `detach_door`,
  `wait_for_done`, `len` and `is_empty` have no callers outside tests.

LLM providers, the host's file system and the processes that are run are
external: what they do is a nondeterministic choice.

## 2. Modules

| Module | Models | Built on |
|---|---|---|
| `FrameStream` | abstract: what a call promises its caller | |
| `Dispatcher` | one call: exec, pump, caller, log | implements `FrameStream` |
| `FrameLog` | emitters, writer, table, observers, pages, restart | |
| `MCKernel` | runs `Dispatcher` and `FrameLog` | both |
| `Lanes` | many calls, nested, and their lanes | |
| `KernelProofs` | theorems | `MCKernel`, `Lanes` |
| `Turns` | TurnRuntime, for any client of it | |
| `TurnsProofs` | theorems | `Turns` |
| `ChatTurn` | a turn with its head, requests, stream, cancels | composes `Turns`, shown to use it as it allows |
| `ChatTurnProofs` | theorems | `ChatTurn`; those of `Turns` by instance |
| `RoomRegistry` | registry, room runner, collector, `chat:message` | |
| `RoomRunner` | the rounds of one room | |
| `MCRooms` | runs `RoomRegistry` and `RoomRunner` | both |
| `RoomsProofs` | theorems | `MCRooms` |
| `WorkQueue` | abstract: what the need queue promises | |
| `NeedQueue`, `MCNeedQueue` | need and want syscalls, services, restarts | implements `WorkQueue` |
| `NeedQueueProofs` | theorems | `NeedQueue` |
| `SafeMode` | circuit breaker and the callers behind it | |
| `LlmCall` | one model call from attempt to caller | |
| `MindLoop` | ticks, cycles, what is shown of the log | |
| `Exec` | one child process | |
| `Entities` | the entity store and its migration | |
| `HeadPrompt` | the log and what a head is given of it | |
| `Files` | file tools over mounts, memory and host | |
| `MCServices` | runs the seven components above | `SafeMode` and instances |
| `ServicesProofs` | theorems | `MCServices` |
| `Tui` | terminal clients and their sockets | |
| `ApiStream` | the two stream protocols and a reader | |
| `HttpApi` | what requests do before their answer streams | |
| `MonitorFeed` | the monitor's list of frames | |
| `ConfigEditor` | the monitor's editor of the configuration | |
| `Boot` | daemon, preflight, service manager, command line | |
| `Settings` | the two settings files and their writers | |
| `MCEdges` | runs the seven components above | `HttpApi` and instances |
| `EdgesProofs` | theorems | `MCEdges` |
| `Sieve` | what of a sequence is in a set, as a recursive function | |
| `SieveProofs` | lemmas: induction, recursion, `Sieve` | |

An operator whose comment starts with "Mutant" is no part of a specification:
it is a plausible bug in place of the definition after it, and `PROJECT.json`
names the property that finds it.

`MCKernel`, `MCRooms`, `MCServices` and `MCEdges` put components side by side
that share no variable in the models. A variable `which`, chosen at the start,
says which component takes the steps; the others stay in one initial state. So
such a run is as many checks as it has components, each of the size it would
have by itself, and not a composition: what one component needs of another is
in its module as an action or a premise (the writer that is late in `MindLoop`,
`RoomRunner` and `HeadPrompt`, the stall in `MindLoop`, the dispatcher's drop in
`Exec`). Real compositions are `ChatTurn` with `Turns`, `NeedQueue` with its
services, wants and restarts, `Tui` with the socket's server end, and `Boot`
with daemon, service manager and command line.

### Dispatcher

One action per point at which one of the tasks can be preempted. The exec task
audits the request (`AuditRequest`) and runs the handler, which emits frames
into the inner channel (`HandlerEmit`) and returns (`HandlerOk`), fails or runs
into its deadline (`HandlerErr`), or is cancelled (`CancelObserved`); the last
three end with an error frame (`EmitError`). The pump's loop is cut where it
awaits: the test of the watermark (`PumpCheck`), the wait for the ping or the
stall timeout (`PumpPaused`, `PumpPinged`, `PumpAbandon`, `PumpStall`), the
receive with its audit (`PumpRecv`, `PumpDrained`), the send (`PumpSend`), and
the increment of the counter after the send (`PumpCount`). The caller takes a
frame (`CallerRecv`) and acknowledges it later (`CallerAck`: saturating
decrement, and the ping at the low watermark), or drops the receiver or cancels.
Frames are numbers in order of emission.

### FrameLog

Whoever emits a frame appends it to the writer's inbox, waiting if it is full
(`AppendFrame`), and then broadcasts it (`Broadcast`). The writer takes one
(`WriterRecv`), leaves out what it always does (`WriterSkip`), inserts it or
fails (`WriterInsert`, `WriterInsertFails`). An observer reads the recent rows
and then subscribes (`ReadRecent`, `Subscribe`), follows, and may be lapped
(`ObserveLagged`). `SelectPage` is a caller of `frames:select` who hands back
`next_since_seq`. `Restart` keeps the table only.

### Lanes

A call is spawned by a client or by a running handler (`Spawn`), takes or queues
for the mutex of its lane (`LaneExec`), runs, returns (`Return`) and hands the
FIFO mutex to the next, or is dropped by the `select!` wherever it is
(`Interrupt`). `lane_for` is the code's table. A handler returns only when the
calls it awaits have ended; `need:lease` returns only when there is a need.

### Turns

The map entry of one turn, and heads inside `take_external_tool_result`, one
step per critical section and one between the unlock and the creation of the
Notified future. Notify objects have identities, so that an entry registered
anew is another one.

### ChatTurn

The head's loop as `run_agent_round` has it: the test of the cancel flag once per
iteration, the LLM call, the batch of external calls (each registered by
`chat:tool`, shown, followed by `chat:done awaiting_tools`, then taken), the final
text, `done`, `finish`. Segments are requests: dispatch or submission of results
(`Submit`, then `ToolResultCheck`, `ToolResultDeliver`, `ToolResultAnswer` per
result), then reading until the end of the stream, the 120 s timer, or a
disconnect, which spawns `ChatCancel`. All of these interleave.

### RoomRegistry

Tokio's RwLock and Mutex are FIFO lines of tasks; a task at the front goes on.
`attach_door` and `inject_message` keep the map's lock while they stand in the
line of the room's mutex, which is what makes the lock order a question. The
runner is `run_persistent_room`: wait for the Notify, lock, a turn, unlock.
`present` is `RoomAgent::active`: `noop_done` in a turn clears it
(`RoundsOver`), only `attach_door` sets it again, and the turn of a room whose
agent is gone reads nothing. A panic in a turn (`TurnPanics`) ends the runner
for good. `gc_idle` removes what `stale` says, in the map's write lock, whatever
the runner does.

### RoomRunner

`Run` is `RoomRunner::run` cut at its awaits: the worktree (`provision`), the
head of a round, which delivers others' words and the user messages it reads
from the log, the agents, each with its own steps (`AgentStep`: a model call
that ends in words, tools, done or an error, in a bounded inner loop;
`AgentTools`: the tools of a call have answered, which those of a client need
not do, or were cancelled with the turn; `AgentPanics`), the end of the round,
the test whether the room `Stops`, the summary and `cleanup`. The log's writer,
users, and the drop of the whole call are the other actors. A room with a door
has one agent and a run per turn; `InjectMessage` puts a message in the history
of every agent, active or not, `AttachDoor` makes all active.

### NeedQueue

Each critical section on EMS is a step: the insert, `claim_one`, the update of
fulfill, and the select and the update of `want:promote`. The Notify keeps one
permit and a FIFO of waiters; the Notified future counts from its first poll
(`Listen`), which is after the look at the table. A service that leased a need
waits for a permit of its own semaphore (`Spawn`) and leaves planning, room and
fulfilment to a task. A call may be dropped where it waits: a `need:enqueue`
between its insert and its notification (`EnqueueDropped`), a `want:promote` at
any of its awaits (`PromoteDropped`). Heads and minds may put rows into the
table with `ems:insert` (`EmsInsert`), which tells nobody and takes a need
without a text: one that is claimed and then not handed out (`Take`), so that it
stays running. `untold` has the needs nobody was notified of; `Quiet` bounds
which needs may come that way. `Crash` forgets everything but EMS. The number of
milliseconds `created_at` has is taken as enough to order the inserts, and I/O
errors of lease and fulfill are left out. No service leases needs with a
`reply_to` at this commit, so they stay in the table; they matter as they
consume notifications. `runtime/need/mod.rs` runs rooms under a semaphore, but
as `room:run` is in the Room lane only one of them runs at a time; here that is
just a room that takes longer.

### Services

- **SafeMode.** The flag, the tracker (count, `recovery_spawned`, epoch) and the
  override are changed in separate steps, as they are separate atomics and
  locks. A recovery is `Rescan` and scan, `Publish`, the flag off, `ResetTracker`,
  `NotifyWaiters`. A scan asks the models of each provider in turn, those that did
  not fail before; an error or a timeout that counts as the provider's ends the
  scan of that provider, so a model behind it is not asked (`Before`). A caller
  takes its configuration, tries, reports, parks if safe mode is on, and tries
  again, `ATTEMPTS` times at most. `Outage` changes which models answer.
- **LlmCall.** `Begin`, `Attempt`, `Response` or an error with `Backoff` or
  `Failed`; a switch of the endpoint (`Redirect`) where the client does one; the
  frames of the answer (`Send`), the retry note of a detached task (`NoteRetry`),
  and the caller who collects them (`Hear`).
- **MindLoop.** Ticks fill the subscription, whose pump pauses and stalls; `Wake`
  starts a cycle when the cadence is over, `Answer` is one model call of it. The
  writer records frames late (`Record`). What a cycle shows is what `Page` selects
  of the room the mind asks for, which is "#main" (`Scope`); a frame has a kind:
  its room, and whether it is part of a conversation.
- **Exec.** Refusal by policy, `Spawn`, `WriteStdin`, `Capture`, `Wait`, `Answer`;
  the child reads, writes, forks and exits when it likes; signals are raised at
  any time and the dispatcher may drop the call.
- **Entities.** A row is columns beside a JSON document; each statement is a
  step. `entDoc` is the reference: what a store of whole JSON objects would hold
  after the same calls.
- **HeadPrompt.** A frame has a timestamp where it is made and a seq where it is
  inserted. `Trim` and the selection before it are those of the bundle builder.
- **Files.** A path resolves to memory, to the sandbox or to a mount as
  `vfs/mount.rs` does it, name for name. `can_mutate` lets heads and minds change
  files and refuses hands and all others (`E_FORBIDDEN`), who still read and list.
  A host write is two steps, as it truncates and then fills. Heads in a room with
  a door take the room's write lock, others do not.

### Edges

- **Tui.** A client with its box, its connection and the turns it sent; the
  daemon's session of that socket; the room's turns; a replay after each
  reconnect, from the recent frames and the history.
- **ApiStream.** `Poll` is one frame of the turn through `response_stream`, the
  adapter and into the reader, who knows only the protocol.
- **HttpApi.** The awaits of a request, in order: room, tools (registry,
  `tools_by_room`, `refresh_lock`, snapshot), prompt, turn. The listing of tools a
  snapshot is built from may fail, and then the snapshot has none (`Build`,
  `blind`).
- **MonitorFeed** and **ConfigEditor.** The terminal loop takes one message or key
  at a time; tasks answer over a channel. The code misses frames that
  come between history and subscription, and when a slow monitor is lapped; here
  the daemon sends all of them, as a reply whose call is missing marks nothing.
- **Boot.** The commands wait for `preflight.log` to change; the service manager
  launches what is loaded and down. With the stores open the server is spawned,
  and its task binds the address (`Bind`); if it cannot, the process stays up and
  serves nobody ("deaf").
- **Settings.** A writer reads, edits, creates the shared temporary file, fills
  it, renames it over, and may be killed at each of these points.

## 3. What is checked

| Run | Bounds | Result |
|---|---|---|
| `kernel` | capacity 4, watermarks 1 and 3, 7 frames; log: 2 emitters, 1 observer, channels and pages of 1, 3 frames, 1 failed insert, 1 restart | all seven properties hold |
| `lanes` | 4 calls; roots `room:run`, `need:lease`, `need:enqueue`, `need:fulfill`, `room:list` | both hold |
| `lanes_deadlock` | 2 calls | `NoLaneDeadlock` is violated |
| `turns_wake` | 1 head, 1 call, 1 result, 2 Notify objects | `ResultWakesHead` is violated |
| `chat_turn` | 2 tool ids, 1 result, 2 segments, batches of 2, 2 iterations | all four hold |
| `chat_listener` | the same with 1 tool id | `OutputHasListener` is violated |
| `rooms` | registry: 2 requests, 2 names, 2 rooms ever made, the collector; rounds: 2 agents, 2 messages, 2 rounds, 2 inner loops, 1 message at a time | all four hold |
| `room_door` | the registry's | `AnswersThroughOwnDoor` is violated |
| `needs` | 3 needs with ranks 2, 0, 2, the second of which may come without a notification; 1 want, promoted by one call at a time; 2 services with 1 permit; 1 restart | all four hold |
| `services` | see below | all ten hold |
| `head_reset` | 3 frames, pages of 2 | `ResetForgets` is violated |
| `edges` | see below | all nine hold |

No run takes four minutes; the largest have 720,000 (`edges`), 480,000
(`services`), 340,000 (`lanes`) and 270,000 (`needs`) distinct states.

What they show:

- **kernel.** The pump's unguarded send never blocks (`OuterNeverFull`), although
  an acknowledgement that overtakes the count is lost; the caller's view is
  `FrameStream` (`ImplementsStream`): gapless, and complete unless given up. A
  cancelled call ends (`CancelEndsCall`), a pump whose call is over does too
  (`PumpTaskEnds`). What an observer was sent is recorded (`BroadcastIsRecorded`),
  so that what it was not sent can be read; pages have every row
  (`PagesLeaveNoGap`); failing inserts hold nobody up (`AppendReturns`).
- **lanes.** `LaneNeverLost` over interruption at any point, and
  `ProgressDespiteRooms`: enqueueing, fulfilling and listing never wait for rooms
  or leases.
- **chat_turn.** `AcceptedResultKept` relates what the client was told to what
  the kernel keeps; `CancelStopsLlm` bounds what a cancelled turn costs;
  `SegmentEnds`: no request hangs. `UsesTurnRuntime` is the refinement that
  makes the theorems of `TurnsProofs` hold of the turn (`ChatTurnSound`).
- **rooms.** `MessageNotLost` (what a racing eviction may and may not take away);
  `MessagesAreRead`: a message comes into a turn, unless its room was removed on
  its way or its turn finds the agent gone; `NothingUnheard` (a room that stops by
  itself has delivered all words, also the last of those who left); `RoomEnds`, if
  the tools the agents ask for answer.
- **needs.** `NoWakeupLost`: with a need to lease that was told of, not everybody
  sleeps, also when the next call is dropped before its notification;
  `NoSecondPromotion`: a want whose promotion is repeated, after a cancel, a
  deadline or a crash, becomes one need at most; `ImplementsWorkQueue` (no need
  twice, by rank and age, also over restarts); `NeedsAreFulfilled`, but for needs
  nobody was told of, those without text and those of a crash.
- **services.** `OneRecovery` (flag, tracker and task agree in every state in
  between), `ResumedUsesFallback`, `RecoveryEnds`; `ActivityIsShown` (a frame
  made during a cycle in the room the mind asks for is shown in a later one);
  `OutputIsWhole`; `AnswerIsHeard`; `AnswersAreOfDocuments` (the store against
  whole JSON objects, for every condition), `MigratesOnce`; `PromptIsRecent` (a
  suffix of the conversation since the last reset, within budget, with the last
  human message); `WrittenIsKept`, until a head or a mind names that file again,
  whatever hands ask for.
- **edges.** `OwnCallsOnly`, `BoxUnlocks`; `AnswerIsWhole` (both protocols,
  streamed or not, against what the turn said); `ReplyMarksItsCall`;
  `CleanMeansSaved`; `SnapshotIsCurrent`, or empty after a listing that failed;
  `PassMeansUsable`; `ServiceHeals`, unless the address could not be bound at
  some time; `KilledWriterHarmsNothing`.

`kernel` checks for deadlock. The others do not as their systems may stop: a
turn ends, all calls of the bound have been made, no one enqueues.

### Why the bounds are enough

The code's channels hold 32 frames with watermarks 8 and 24; what matters is
that full, paused, low and empty are different, that a stall leaves frames in
both channels, and that a call is longer than both together: 4, 1, 3 and 7. The
log needs an inbox that is full with one emitter waiting and one broadcasting,
a lapped observer, and an insert between two pages: channels and pages of one,
two emitters, three frames. The theorems cover the other values. Four calls are
a room, a call nested in it and two more that queue behind, or a chain of three
and a bystander; the theorems cover any number. Two tool ids and batches of two
allow the same id twice in a batch and again in the next iteration; two segments
are a request whose turn another takes over; the limit of two iterations stands
for 20 and lets the loop end by exhaustion. Two requests, two names and two
rooms let a name be requested twice at once, two names meet at the map's lock,
and a name be made anew after its eviction. Two agents with two rounds and two
inner loops let one leave or fail while the other speaks, and a message arrive
before, during and after the last round it can be heard in. Three needs are one
that waits, one that overtakes it and one of the same rank behind it; two
services with one permit each let one hold a leased need it cannot start while
the other sleeps, and the second need, the urgent one, is the one whose call may
be dropped or that `ems:insert` brings; one crash is enough to make orphans, and
what follows it is a fresh daemon.

Services: 2 callers, 3 models of 2 providers (one behind another), a threshold of
2 failures, 3 tries, 2 recoveries and 1 outage let a caller fail before, during
and after a recovery and a second recovery begin while the first wakes callers
(any number by the theorems); 4 ticks with cycles of up to 3 calls of 2 ticks
each, a watermark of 1 and a stall of 2 let the stream of the mind pause, stall
and be cancelled, and 2 frames of three kinds lie in either room, late or past
the limit of 1; pipes of 1 with 2 units of input and 3 of output,
of which 2 are kept, fill on both sides and are truncated; 2 attempts in each of
2 tries; 2 entities, 2 writes, 1 crash; 3 frames with a budget of 2 leave one out;
two heads, one of them in a room with a door, with two calls and one, beside a
hand with one call, on paths that meet in memory, in a mount and in a read-only
mount inside it. Edges: one client and a foreign turn, one break;
4 chunks; 3 frames over a list of 2, with one break; 2 requests and 2 edits of
two fields; two requests with one tool and one token; two keys, 3 preflights and
one change of the world or crash; two writers, two commands.

### Fairness

Weak fairness, always of a task that is ready: tokio polls it. Nobody is assumed
to do anything the code does not force him to: handlers need not return
(`Dispatcher`), clients need not submit results or go away (`ChatTurn`), time
need not pass and needs and messages need not come. Premises instead of fairness
where the code relies on something: `MessagesAreRead` assumes that turns end and
none of them by a panic, `RoomEnds` that tools answer (the wait for a client's
tool has no timeout), `NeedsAreFulfilled` that rooms end, `RecoveryEnds` that
from some time on the first model asked of some provider answers, `ServiceHeals`
that the world is usable and the service stays loaded. In `Dispatcher` the
caller that took a frame acknowledges it, as `KernelReceiver::recv` does both;
in `ChatTurn` and `RoomRunner` the model answers (its requests have timeouts),
and in `ChatTurn` timers fire; in `Lanes` a handler that awaits nothing returns;
in `NeedQueue` the planner answers (its LLM call has a timeout of 120 s; safe
mode, in which it would be parked, is in module `SafeMode`); in `Tui` a client
that is not connected connects again, as its loop does; in `Boot` the service
manager launches what is loaded, which is what `KeepAlive` and `Restart=always`
say.

### Findings

The violations are disagreements between the code and its own documentation.

1. `lanes_deadlock`: `room:context` is in the Room lane, which `room:run` holds
   while the tool calls of its agents are awaited. `dispatcher.rs:6-7` says the
   lanes prevent deadlocks.
2. `turns_wake`: `take_external_tool_result` unlocks and then creates the
   Notified future; a result in between wakes nobody. `turns.rs:13-14`.
3. `chat_listener`: `chat:done awaiting_tools` closes whatever stream the turn
   has by then, also the next request's. `ingress_hub.rs:47-49`.
4. `room_door`: two messages in quick succession are both answered through the
   second one's door. `chat/message.rs:208-209`.
5. `head_reset`: the head's conversation is the first hundred rows of the room,
   so a `chat:reset` after them is not seen. `head/bundle.rs:132-133`.

### What the code does otherwise than one might expect

Met while modelling. The models have these behaviours, and the properties leave
them room, each where its comment says so.

- **Turns.** `cancel` makes an entry for a turn that `finish` has removed, and it
  stays (`turns.rs:141`). A cancelled external call leaves a call without a
  result in the head's history; internal tools still run after a cancellation.
- **Wants.** Two promotions at once make two needs of one want, and a want that
  is removed between the select and the update is promoted (`promote.rs:64-111`).
  A promotion that is dropped after its update leaves a want that is marked as
  promoted and of which there is no need.
- **Needs.** A need whose text is blank is claimed and then passed over; it
  stays `running` and nobody has it (`need/mod.rs:143`). `ems:insert` into the
  table and a `need:enqueue` dropped after its insert tell no service, so that
  the need waits for the next one.
- **Rooms.** A head that said `noop_done` stays away until the next door is
  attached, and a message that was injected behind that door but read in a later
  turn waits for the door after it (`runner.rs:196`, `room_registry.rs:137`). A
  panic in a turn ends the room's loop, and the room stays in the map. Messages
  of users in the last round, or from before the run's cursor, are not heard;
  agents do not remember their own words; agents of one name never hear each
  other; a cancelled `room:run` leaves its worktree.
- **Safe mode.** A caller can park just after the notification and then waits
  for the next recovery (`safe_mode.rs:221`); a cancelled call is reported as a
  failure; a model that failed once is never a candidate of later recoveries. A
  probe's error that counts as the provider's, or its timeout, ends the scan of
  that provider, so a healthy model behind it is never probed and the recovery
  need not end (`safe_mode.rs:481-494`).
- **Mind.** It observes "main" and asks the log for the room "#main"
  (`mind/bundle.rs:307`), which is another one: what happens in "main" is never
  shown to it, although `mind/config.rs:15` names that channel. A cycle longer
  than watermark and stall together ends the loop for good. Frames recorded
  after the cycle's query and past its limit are not shown.
- **Exec.** stdin is written before capture and timeout begin, so a child that
  writes much before it reads stops both (`process.rs:462`); the capture waits
  for grandchildren that hold stdout; a dropped call does not kill its child.
- **EMS.** A `data` key of the caller replaces the document (`schema.rs:97`);
  texts that look like JSON come back parsed.
- **Head prompt.** The head's own messages are not recognised as its own
  (`bundle.rs:179`), nor are those of the actor `user` as a human's.
- **Files.** Two agents without a write lock can tear one host file; `fs:write`
  over a directory of the memory file system replaces it (`memory.rs:92`); hands
  are offered `fs:write`, `fs:mkdir` and `patch:apply` (`dispatch.rs:167`) and
  always refused; a mount's prefix matches names that only begin with it
  (`mount.rs:161`); `fs:mkdir` ignores `ro`; a cancelled hand's tool call goes
  on.
- **HTTP API.** A listing of the tools that fails leaves a snapshot without any
  client tools, and is not reported (`snapshot.rs:77`). Every room's door has
  the external tools of the main room (`snapshot.rs:77`); late tool results go
  to whatever turn is active (`ingress_hub.rs:115`); the JSON form of chat
  completions drops the text of an answer with calls (`openai.rs:939`).
- **TUI.** A text of blanks gets an error and no acknowledgement, and locks the
  box (`websocket.rs:282`); tool calls may run again after a reconnect.
- **Monitor.** A save marks fields edited meanwhile as saved (`main.rs:1012`).
- **Start-up.** A command may report the verdict of an older preflight
  (`service.rs:203`), and `use` and `doctor` write the daemon's log. A server that
  cannot bind its address is only logged (`server/mod.rs:182`): the process lives
  on, serves nobody, and is not started again.
- **Settings.** All writers share one temporary file (`app_config.rs:110`); a
  configuration that does not parse counts as empty and is then overwritten.

## 4. What is proved

Every safety property that a run checks, invariants, action properties and
refinements alike, for every value of the constants, from these assumptions on
them only. TLC evaluates each of them on the instance it checks.

- `WatermarkAssumption`: Low < High < Capacity, what `set_backpressure` lets
  through. `FrameLogAssumption`: sizes are positive.
- `LanesAssumption`: `NoCall` is no call, roots have names.
- `NeedsAssumption`: ranks and bounds are numbers, a service has at least one
  permit, `NoWant` is no want, promotions at once are finitely many.
- `ChatTurnAssumption`: bounds and requests are numbers, `NoResult` is no result.
- `RegistryAssumption`, `RoomsAssumption`: `NoDoor` and `Gc` are no requests,
  bounds and the page are numbers.
- `SafeModeAssumption`: the candidates are a sequence of sequences of models, the
  configured model is a model, thresholds are positive.
  `ServicesAssumption`: `max_stdout` and the page of a prompt are numbers, `None`
  is no row and no document, the calls of the file tools have paths of names and
  texts of lines, an answer of a model is a sequence of text and call blocks.
- `HttpApiAssumption`: `None` is no request. `EdgesAssumption`: an emptied file
  differs from a missing, a broken and any whole one, the recent frames are
  counted by a number.

The theorems about `Turns` assume nothing. Budgets, token counts, gaps, mounts,
names, documents, conditions, values of fields and capacities are arbitrary.

| Theorem | Says |
|---|---|
| `DispatcherTypeCorrect` | types; the counter is never below zero |
| `CounterAccuracy` | `QueuedTracksOutstanding` |
| `PumpNeverBlocksOnSend` | `OuterNeverFull` |
| `StallOnlyWhenBehind` | `StallMeansBehind`, if Low >= 1 (the default is 8) |
| `NothingLostSilently` | `NoSilentLoss` |
| `LoggedBeforeDelivery` | `AuditedBeforeDelivery` |
| `DispatcherImplementsStream` | `ImplementsStream`: the refinement to `FrameStream` |
| `FrameLogTypeCorrect` | types; the inbox within its capacity |
| `BroadcastsAreRecorded` | `BroadcastIsRecorded` |
| `PagesAreComplete` | `PagesLeaveNoGap` for any page size |
| `LanesTypeCorrect` | types |
| `LanesExclusive` | `LaneExclusive` for any number of calls at any depth |
| `LanesNeverLost` | `LaneNeverLost` |
| `TurnsTypeCorrect` | types |
| `TurnsCorrectHead` | a head takes what was delivered for its call |
| `TurnsShape` | `EntryWhole` and `NotifyUnshared` |
| `ChatUsesTurns` | `UsesTurnRuntime`: the refinement to `Turns` |
| `ChatTurnSound` | the three theorems above, of a turn as it is served |
| `ChatCancelStopsLlm` | `CancelStopsLlm` for any number of requests and iterations |
| `ChatKeepsAccepted` | `AcceptedResultKept` |
| `NeedQueueTypeCorrect` | types; never more permits than `max_concurrent_rooms` |
| `LeasesAreExclusive` | `LeaseExclusive` for any number of services and restarts |
| `NoneForgotten` | `NoNeedForgotten`: a running need is in somebody's hands, was orphaned by a crash or has no text |
| `WakeupsSuffice` | `NoWakeupLost`, for needs that were told of, if there is a service |
| `WantsArePromotedOnce` | `NoSecondPromotion` for any number of wants, promotions at once and restarts |
| `NeedQueueImplementsWorkQueue` | `ImplementsWorkQueue`: the refinement to `WorkQueue` |
| `RoomsLoseNoMessage` | `MessageNotLost` for any number of requests, rooms and collections |
| `RoundsAreHeard` | `NothingUnheard` for any number of agents, messages and rounds |
| `SafeModeTypeCorrect` | types |
| `SafeModeHasOneRecovery` | `OneRecovery` for any number of callers and outages |
| `WokenCallersUseFallback` | `ResumedUsesFallback` |
| `MindSeesActivity` | `ActivityIsShown`, of the room the mind asks for |
| `ExecOutputIsWhole` | `OutputIsWhole` for any amount of output and any `max_stdout` |
| `StoreAnswersOfDocuments` | `AnswersAreOfDocuments` for any documents and conditions |
| `StoreMigratesOnce` | `MigratesOnce`, an action property |
| `CallerHearsTheAnswer` | `AnswerIsHeard` for answers of any length and any number of attempts |
| `WritesAreKept` | `WrittenIsKept` for any mounts, names, roles and calls |
| `PromptsAreRecent` | `PromptIsRecent` for logs of any length and any budget |
| `HttpSnapshotIsCurrent` | `SnapshotIsCurrent` for any number of requests and rooms, listings that fail among them |
| `PassedPreflightIsUsable` | `PassMeansUsable` |
| `WritersEmptyNothing` | `KilledWriterHarmsNothing` for any number of writers |
| `UnmarkedIsSaved` | `CleanMeansSaved` for any fields and values |
| `ClientsRunTheirOwn` | `OwnCallsOnly` for any number of clients and turns |
| `AnswersArriveWhole` | `AnswerIsWhole` for answers of any length |
| `RepliesMarkTheirCalls` | `ReplyMarksItsCall` for any capacities and calls |

The invariants `QueuedTracksOutstanding`, `StallMeansBehind`, `NoSilentLoss`,
`AuditedBeforeDelivery`, `LaneExclusive`, `LeaseExclusive`, `NoNeedForgotten` and
the types are proved and no longer in a run: the runs check what is not proved
or follows from it (`NoSilentLoss` from `ImplementsStream`, `LeaseExclusive` from
`ImplementsWorkQueue`).

**Dispatcher.** `QueuedTracksOutstanding` is inductive once it is known what the
pump knows: between its check and its send the counter is below the high
watermark, since only the pump increments it, and while it waits with no ping
in the channel the counter is above the low watermark, since the
acknowledgement that brings it there leaves a ping. `BackpressureInv` is the
conjunction. `OuterNeverFull` follows by arithmetic: what is in the channel is at
most what the counter stands for. For `StallMeansBehind` the counter is above Low
at a stall, so with Low >= 1 it is at least 2 and one frame is outstanding at
least; with Low = 0 the drift of one frame could be all there is, hence the
assumption.

Order and loss rest on `OrderInv`: what the caller has taken, its channel, the
frame in the pump's hands and the inner channel are one run of consecutive
numbers, which ends with the last frame emitted until the pump returns. A
dropped receiver empties the outer channel and breaks the run, so from there on
only what was taken counts. `NothingLostSilently` is the case that nothing is
between the two ends. The refinement needs two facts more of `OrderInv`: the
pump drains only after the exec task is done, so nothing is produced after
"complete", and a stream ends only after the pump. `AuditInv` puts the log beside
that run: it is the request and the frames up to the pump's hands.

**Frame log.** `LogInv` adds `HandIsRecorded` to what is to be shown: a frame that
an emitter is about to broadcast is in the inbox, with the writer, in the table
or known to have failed. `RecordedStays` says that no step but a restart takes a
frame out of these, and a restart forgets the hands and the broadcasts as well.
Pages rest on two facts: rows are only appended (`RowsGrow`) and
`next_since_seq` is the last row handed out.

**Lanes.** Exclusion follows from ownership, `RunnersHold`: a running call of a
serial lane is the lane's holder. It is not inductive alone, as a hand-over must
go to a call that waits in that lane and nowhere else; `LanesInv` adds
`LaneNeverLost` (holder running, waiters waiting, each queued once, no queue
without a holder) and that only calls of serial lanes wait. Removing an
interrupted waiter from the middle of a queue is `DropAtShape`.

**Turns.** `Correlated`: a result kept under a pending call was delivered for that
call, and what a head has cloned too; `cancel`, `finish` and new registrations
only remove entries or make empty ones. `Shaped`: Notify objects of pending
calls are distinct since each registration takes a new one.

**Chat turn.** Most steps leave the turn's state alone (`TalkStep`,
`RequestStep`); the others are calls of TurnRuntime, once it is known that there
is a call to name: a head that calls, shows or waits has one at hand, and so has
a request that submits or whose `chat:tool_result` is still on its way after its
client left (`AtHand`). That is the refinement, and through it the inductive
steps of `TurnsProofs`, instantiated with this turn's one head, hold here
(`SameTurns`, `TurnInvStep`). `LateOnce` strengthens `CancelStopsLlm`: after one
late answer the turn is still cancelled and the head not at the model, or the
turn has ended, since a head goes to the model only from a test that found no
cancel and only `finish`, its last act, clears the mark. `AcceptedResultKept` is
inductive with the types: a result goes with its entry only, an entry only by
the head that takes it (`taken`) or at the end (`OverStays`), and a call
registered anew keeps its entry.

**Needs.** `NeedsInv` has three parts. Permits: the permits of a service and its
tasks together are `max_concurrent_rooms` (`PermitsAccounted`), which is why a
permit that comes back never exceeds the type. Hands: a service that waits for
a permit has a need and no other service has one (`Bound`, `ServiceInv`), so a
lease always lands on empty hands. Exclusion itself is inductive with one fact
about restarts, that needs of dead workers stay `running` (`Stranded`), as `Lease`
takes pending ones only and nothing else touches them. `WakeupInv` strengthens
`NoWakeupLost`: a service that looked at the table and has not gone to sleep yet
is no help, as it may have looked before the insert; what helps is a stored
permit, an insert that has not notified yet, or a service about to look. A need
counts from its notification on (`Told`), which is why a dropped call harms no
need before it. A crash has no such trace to lose as fresh services look first.
`PromotionInv` counts per want the needs born of it and the promotions that carry
it: together no more than there are promotions at once. A want that is pending
has no need yet, as the mark comes before the insert, so that a call which selects
it now is only one of those carriers. In the refinement a restart is a
stutter: a dead worker's need stays in `working`, and so does one without text.

**Safe mode.** `AtWork` ties the flag to the recoveries between their spawn and
the step that turns it off, the tracker to those that have not re-armed it yet,
and both to the last epoch: a recovery is spawned by a disarmed tracker only
(`LastAtWork`), so that the reset of one never hits the next. `OverrideInv`: the
override belongs to the last recovery that published, which is why a caller that
was woken (`Woken`) finds one at least as new as its waker's.

**Snapshot.** `SnapshotFollows`: the snapshot has the registry's tools, or none if
the last listing failed (`blind`), or some request has yet to read the registry,
or the one that holds the lock has read and yet to swap; and what it read, if it
could (`Listed`), is the registry's, or someone will read again.
It is not inductive without `LockHeld`: two requests between their read and
their swap could swap in the wrong order.

**Rooms.** `Delivery`: between `get_or_create` and `inject_message` a request has
a room under its name, in the map or among those gc took out (`Had`), as nothing
else removes a room (`MapIsNamed`); what is "sent" was injected but for that.

**Rounds.** `HeardUpToLast` is what holds at the head of a round: everyone still
in the room has heard, once, all that others said but in the last round, and
of the last round nothing; that the last round has an entry is why a room that
goes on has something to deliver. In the round all is heard (`AllHeard`), since
the head delivers before any agent speaks. It takes `ResultsOnce` (an agent's
result comes once, from a task that makes no more calls) and `OnlyWhatWasSaid` (no
entry twice and none heard before it is said) to get "exactly once" from
"delivered".

**Mind.** `MindInv` says of a running cycle what `ActivityIsShown` says between
two: `Reviewed` is the tick the cycle was woken by, up to which it will count.

**Processes.** `OutputAccounted`: while nothing was dropped, captured and in the
pipe are together what was written; afterwards the capture is full. An answer
finds the pipe empty and all writers gone (`AnsweredAtEnd`).

**Entity store.** `RowStandsFor`: a key read through `col_ref`, from its column or
from the document, is the reference's value, absent and null alike; each
statement keeps it for the keys it names and for those it does not. `Migration`:
one of the two generations of tables is empty, by the recorded version.

**Model calls.** `Whole`: what the caller has, what is in the stream and what is
still to be sent are, sifted to texts and to answerable calls, the answer of the
attempt that succeeded; until then there are only notices (`NothingYet`), and
after the end too (`EndIsLast`), which is why a late note does no harm.

**Files.** `FsApart` and `FsKept`: a call that met no other has nothing in common
with what another one under way touches, and no call under way touches what
counts as kept. This needs that a path has one place at most, whatever the
mounts (`NormalIsOne`, `ResolvedIsOne`, `PlaceIsOne`), and which step belongs to
which tool (`FsTools`).

**Prompt.** `PromptInv` only remembers which rows a room was made of; the rest is
about the pipeline of `build`, for any log. `SortedIs`: inserting each item behind
those before it gives the items, all of them, in order. `RenderedIs`: the messages
are those of the rows in that order, with markers between. `TrimIs`: what is left
is a suffix that begins no later than the last human message. `PromptOf` puts them
together: what was dropped was older than what is left.

**Preflight.** `BootInv` needs one lemma about `check_api`,
`NothingCriticalIsUsable`: the agent whose endpoint stands for those of the same
key is the head, whose failure is critical.

**Settings.** `OneByOne`: as long as no two writers were in one file, what a
writer is about to write is not empty, and what it is about to rename is written.

**Editor.** `EditorInv`: a save that is on its way carries the fields as they are
(`TasksOf`), unless something was typed or loaded, and hidden fields are as they
were loaded.

**Terminal.** `TuiInv`: an acknowledgement on the way to a client names a turn of
that client (`EventsOf`), so the thread it follows is its own, and turns are never
given to another (`TurnsGrow`).

**Streams.** `Along` says, for each of the four adapters, where it is after the
frames so far: its index is the number of blocks begun, less one while a text is
open, and the reader has the blocks said, with that text open.

**Monitor.** `Marked`: what is pending for a call is the list's record of its
request. `EvictedKeeps` is the case to get right: all indices move down with the
list, and what pointed to the evicted record is forgotten.

Two things the proofs needed from the models. What a selection, a sort or a
fold over a sequence yields is written as a recursive function (`Sift`, `Sorted`,
`Rendered`, `normalize_path`, `Pushed`, `Said`), as the provers look into neither
`SelectSeq` nor the folds. And induction is stated in `SieveProofs` about sets of
numbers (`Induction`, `InductionTo`), from the well-foundedness of finite sets
under inclusion, as a theorem about an operator cannot be instantiated; the same
gives that a recursive function on `0..m` exists (`Recursion`), which is what
makes its definition an equation. What a fold of the library computes stays
closed: the theorem about prompts says nothing of `Tokens` but that the sum of
what is left was compared with the budget.

### Model-checked only

Liveness, which is out of the prover's reach: `CancelEndsCall`, `PumpTaskEnds`,
`AppendReturns`, `ProgressDespiteRooms`, `SegmentEnds`, `MessagesAreRead`,
`RoomEnds`, `NeedsAreFulfilled`, `RecoveryEnds`, `BoxUnlocks` and `ServiceHeals`.

## 5. Plan

Done: the kernel (dispatcher, frame log, lanes, turns), chat turns, rooms with
their registry and rounds, the need queue, the services and the edges, and
theorems for every safety property of the passing runs.

1. `RoomRunner` with the real turn of an agent with a door, from `ChatTurn`, in
   place of its one step per model call.
2. A full turn stream in `ChatTurn`: the 256 frames of the hub's channels, which
   a client that does not read fills (`sigcall_hub.rs:141`).
3. `Files` with two calls at once and with the write locks of two rooms on one
   host file, where what is kept has to be stated for each file's last writer.
4. The proxy mode of the OpenAI adapter, and the filters of `frames:select`.
5. Invariants that liveness rests on, as theorems: that a waiting task has
   somebody who will wake it, for the registry's locks and the hub's streams.
