# A TLA+ development for Beavoguix

Beavoguix is a coding agent (a fork of Codex). This directory holds TLA+ models
of the parts of it whose correctness depends on how concurrent steps interleave,
TLC configurations that check them on small instances, and TLAPS proofs that
hold for every instance. `PROJECT.json` lists the components, the runs, the
source lines each definition models, the hazards and the theorems.

## The system and its parts

All code is under `codex-rs/`.

| Part | State | Operations | Talks to | What makes it hard |
|---|---|---|---|---|
| Readiness flag (`utils/readiness`) | flag, token set, watch channel | subscribe, mark_ready, is_ready, wait_ready | tool calls wait for it | lock-free fast paths, lost wake-ups, wrapping ids |
| Exec-server sessions (`exec-server/src/server`) | registry of sessions, attachment, expiry | initialize, resume, detach, expire, requests | connections, process table | reconnects racing expiry; requests dropped half way |
| Exec-server process table (`local_process.rs`) | processes by id, sequence numbers, retained output | start, read, terminate, shutdown; output, exit and close events | child processes, the connection's queue | three tasks per process that find it by an id that is reused |
| Exec-server client stream (`client.rs`, `process.rs`, `executor_process_transport.rs`) | reordering buffer, bounded event log, consumer's cursor | notifications, subscribe, lag recovery, failure | server, MCP transport | reordering, overflow, reads overtaking events, disconnects |
| Turn lifecycle (`core/src/tasks`, `session`, `state/turn.rs`) | active turn, its tasks and pending input, mailbox, queue for the next turn | user input, steer, interrupt, mail, approval, injection; start, finish, abort of tasks | clients, other agents, guardian, model | several threads start, steer and end turns; the lock is dropped between the steps of each |
| Agent registry (`core/src/agent`) | slots, agent tree, nicknames | reserve, commit, release | tool calls that spawn agents | limit reached concurrently, failed spawns |
| Memory pipeline (`memories/write`, `state/src/runtime/memories.rs`) | rows with leases and retries, a shared workspace with a git baseline | scan, claim, extract, consolidate, heartbeat, succeed, fail, pollute, reset | several processes over SQLite and one directory | expired leases, late results, crashes between two stores |
| App server listener (`app-server`) | subscriptions, listener tasks, request callbacks, pending unloads | resume, unsubscribe, archive, answer, replay, unload | user interfaces, conversations | several connections answer one request; a thread unloads while it is resumed |
| Unified exec (`core/src/unified_exec`) | table of interactive processes | open, write, poll, prune | exec server, tools | full table, processes that exit while being polled |
| Rollout recorder (`rollout`, `thread-store/src/local`) | live recorders, command channel, buffered items, file | create, resume, record, persist, flush, shutdown, metadata updates | session, state database | partial writes and retries, crashes, commands behind a shutdown |
| Authentication (`login`) | cached and stored tokens | reload, refresh | token authority, other processes | single-use refresh tokens |
| Conversation history, apply-patch | lists | pure functions | session, tools | boundaries |
| Everything else | | | | see "Not modelled" |

For each part, what correctness means:

- *Readiness*: the flag goes up once, with no token left; at most one caller is
  told it raised it; waiters return.
- *Sessions*: one connection at a time uses a session; an attached session is
  never removed; a detached one is resumed or removed; events go to the client
  that is attached.
- *Processes*: output is credited to the process that wrote it, numbered without
  gaps; a reader that follows the cursor misses nothing; a terminated process
  leaves the table.
- *Client stream*: events are published in order; a consumer that lags recovers
  without a gap or a repetition; end of stream means end of output; streams end.
- *Turns*: every running task can be interrupted; an empty active turn is
  somebody's responsibility; accepted input is recorded or deliberately dropped;
  a started turn ends; mail that asks for a turn gets one.
- *Memory pipeline*: a live lease is not taken, the cap of running jobs holds, a
  late worker changes nothing that is not its own, progress is not undone, a reset
  leaves nothing old behind; stale threads are extracted again, and what the user
  polluted leaves the consolidated memory.
- *Listener*: a connection that follows a thread sees the requests that wait for
  it and never one that was settled; a thread with followers is not unloaded under
  them and keeps its listener; while a turn waits for a decision nobody gives its
  request up; followers are told that a request is resolved before the turn goes on.
- *Recorder*: items reach the file in order, none lost or repeated; what a barrier
  acknowledged stays readable; barriers are answered.
- *Agent registry*: slots in use equal agents reserved or alive, never above the
  limit. *Authentication*: a losing refresher adopts the winner's token.

## Modules

| Module | Models | Notes |
|---|---|---|
| `Readiness` | `utils/readiness/src/lib.rs` | one step per atomic access, lock acquisition or send |
| `SessionRegistry` | `server/session_registry.rs`, `handler.rs`, `processor.rs` | one step per critical section; a request may be dropped at each await |
| `EventFeed` | `ExecProcessEvent` (`process.rs`) | abstract specification of one process's events |
| `LocalProcess` | `local_process.rs` | implements `EventFeed` for each process |
| `OrderedEvents` | `OrderedSessionEvents` (`client.rs`) | operators only |
| `ExecStream` | `client.rs`, `process.rs`, `executor_process_transport.rs` | composes `LocalProcess`, the connection, the client and its consumer; implements `EventFeed` |
| `TurnLifecycle` | `tasks/mod.rs`, `tasks/regular.rs`, `state/turn.rs`, `session/*.rs` | submission loop, guardian, clients and tasks as threads |
| `MemoryJobs` | `state/src/runtime/memories.rs`, `memories/write/src/*.rs` | one action per transaction; processes crash and stall |
| `ThreadListener` | `codex_message_processor.rs`, `thread_state.rs`, `outgoing_message.rs`, `bespoke_event_handling.rs`, `thread_status.rs`, `request_serialization.rs` | one thread; the conversation is external |
| `RolloutRecorder` | `rollout/src/recorder.rs`, `thread-store/src/local/*.rs`, `live_thread.rs` | one thread and its file; writes tear, the process crashes |
| `ReadinessProofs`, `SessionRegistryProofs`, `LocalProcessProofs`, `MemoryJobsProofs`, `TurnLifecycleProofs`, `ThreadListenerProofs`, `RolloutRecorderProofs`, `ExecStreamProofs` | the module each is named after | theorems and proofs |
| `MC_*` | | instances for TLC, symmetry, and statements TLC refutes |

Definitions whose comment begins with "Mutant" or "A mutant" are wrong variants of the
definition that follows them; nothing uses them, and each is there to show that
the properties notice it.

### Readiness

`ready`, `next_id`, `tokens` and `sent` are the fields of `ReadinessFlag`; `pc`,
`op`, `arg` say where each thread is in its call. The watch channel is tokio's
and therefore external: a send without a receiver fails and stores nothing.
`Modulus` stands for the 2^32 token ids, so a small one makes them wrap;
`subscribe` skips 0 and ids still in use, as the code does.

### SessionRegistry

`sessions`, `current`, `detached`, `expires` are the registry entry and its
`AttachmentState`; `sender` is whose notification sender the process table
holds; `timers` the spawned `expire_if_detached` tasks. A connection is in its
loop, in a request, awaiting the shutdown of an expired session, or in one of
the two halves of `detach`. Time is abstract: a deadline is ahead or passed.

### LocalProcess, EventFeed

`entry` is the table, `run` the fields of `RunningProcess`, `task` the position
of the two output tasks and the exit task, `note` the notification a task holds
while it waits for room in the outgoing queue. Process objects (`Gens`) are
distinct from ids (`Pids`), which the client may reuse: tasks look up their
process by id, so what a late task finds may be another process. A chunk is one
unit of output. `reader` is a client that follows `next_seq` with `process/read`.

### ExecStream

Server steps are those of `LocalProcess`, whose outgoing queue becomes the
connection. `last` and `pending` are the reordering buffer, `replay` and `live`
what the event log holds for the consumer, `lagged` that the broadcast channel
has overwritten something. `consumer` is the MCP stdio transport with its cursor
and its recovery read, which is two steps: the server answers, then the answer
is applied. `SubscribeInTime` says that the consumer subscribes before the log
has evicted anything.

### TurnLifecycle

`active` is `Session.active_turn`; `turns` the turn objects, which outlive their
time as active turn because threads keep references to them. `thread` gives each
thread its position and locals. A step is what a thread does while it holds the
`active_turn` mutex, or between two awaits; only `has_pending_input`, which reads
the turn and then the mailbox and changes neither, is one look at both. `cancelled` and `doomed` tell a fired
cancellation token from an aborted handle: a task continues after either until
it reaches a check or an await. `history` and `dropped` say what became of an
item. The model's answers (a follow-up, visible final text, a tool call, an
error) are nondeterministic. Two things are left out of an abort because they
change nothing modelled here: the interruption marker in the history and the
flush of the rollout.

### MemoryJobs

`thread`, `jobs`, `outputs` and `global` are the rows of the state database that
the pipeline uses; `ws` is the memory workspace (its inputs, the agent's notes and
the git baseline); `proc` says where each process is in phase 1 and phase 2 and
`flights` which extractions it is working on. Every method of the runtime is one
transaction, hence one action. Times are kept as the time left, which `Tick`
lowers, so that the state space is finite without a horizon; a method reads the
clock before it gets the write lock and may act on a reading up to `MaxLag` old.
Ownership tokens are fresh, not counted: a new one is any token nobody holds. The
model's answers and the consolidating agent are nondeterministic; a process may
crash at any step. With `Punctual` a process takes its next step within its lease
and an agent it has given up on stops before another one completes; without it,
processes stall for any time.

### ThreadListener

`entry`, `subs` and `tstate` are `ThreadStateManager`; `lis` the listener tasks
with their commands and generation; `req` the one client request that the
serialization queue lets through; `unloads` and `unloader` the pending unload and
its task; `cb` and `ask` the callbacks and the tasks that wait for their answers;
`view` what each connection was told of each request; `watch` the counters of
`ThreadWatchManager`. Handlers are split at every await where another actor can
get in. Conversations are numbered, so that a resumed thread is another one. Left
out: sub-agent threads that are attached without a replay, goals, rollback.

### RolloutRecorder

`file` is the sequence of lines; `rec` the recorders that were ever opened, each
with its channel and the state of its writer task (`RolloutWriterState` and the
position inside `write_pending_once`); `live` the entry of the thread in the local
store; `session` whether the guard of a starting session may still discard it. A
line is one write, and every write may fail with nothing or a part of the line on
the file. `Loaded` is what the reader makes of it: a line behind a part of another
one does not parse. The writer's last `flush` of the handle cannot fail here, since
each line is flushed when written. The state database is the set of items it was
told of; the row it gets from the session metadata is left out, as is which items
are persisted at all.

## Runs

| Run | Instance | Shows |
|---|---|---|
| `readiness` | 2 threads, 4 ids | flag, tokens and marks agree; waiters that had a receiver before the flip return |
| `registry` | 2 connections, 2 sessions | survival of attached sessions, expiry of detached ones, inductive invariant |
| `process_reuse` | 1 id, 2 processes | attribution of output and exit although the id is reused |
| `process_reader` | 1 process, 3 chunks, 2 retained | numbering and the inductive invariant; a reader that asks for one chunk or for all that is retained misses nothing; feeds are well formed; terminated processes leave the table |
| `stream` | 2 chunks, queue of 1, log of 2 | order, no silent gap, completeness at end of stream, streams end |
| `turn_user` | 2 user messages, 2 interrupts, 2 tasks, 1 follow-up, hooks let input through | user input is in good hands and settled, tasks start in empty turns, started turns end |
| `turn_mail` | 1 user message, 1 trigger mail, 2 interrupts, 4 tasks, runs fail, hooks block | no task out of reach, no token fired twice, no orphaned turn, when finishing tasks and the guardian also start tasks |
| `turn_pending` | 2 trigger mails, plain mail, steer, approval note, injection, 5 tasks | without interrupts trigger mail always gets a turn |
| `memory_stage1` | 2 threads, 2 processes, cap 1, lease 2, clock lag 1, 2 acts of the user, stalls | live leases, the cap, ownership of results, progress and resets in phase 1 |
| `memory_phase2` | 1 thread, 2 processes, both phases, 2 faults, 2 acts | the baseline is what an agent consolidated; stale threads are extracted, polluted ones forgotten |
| `listener` | 2 connections, 3 requests, 1 approval and 1 turn per conversation, waits time out | replay, resolution order, unloading and replacement of listeners |
| `rollout` | 2 tasks, channel of 2, 2 recorders, 2 items, 2 barriers, 2 faults, 1 crash, 1 metadata update | items accounted for at every step, promises kept but for one line per tear, metadata first, barriers answered |

The inductive invariants `TokenInv`, `RegInv` and `ProcInv` contain the type
invariants and imply the other safety properties of their modules, which is
proved; the runs list them instead of their parts.

### Bounds

Each bound is a constant, and each is large enough for the case it limits.
Two threads are enough for the races of the readiness flag, all of which are
between a reader and a writer; four ids make them wrap. Two connections are a
client and its successor; two sessions let one expire while the other lives. Two
process objects under one id are a process and the one that takes its id. Three
chunks with two retained give eviction before and after a read; a queue of one
makes every notification wait; a log of two overflows with two chunks, an exit
and a close. A task is only ever started for a user message or for pending
work, so the bounds on tasks and turn objects leave room for every task the
instance's input can cause and for a reservation that is lost: larger bounds give
the same number of states. The theorems have
no bounds.

A lease of two ticks lets a claim be renewed and also expire under its owner; two
processes are the owner and the one that takes over; two threads under a cap of
one make the cap bind; one thread is enough for phase 2, whose lock is global; two
acts of the user are an act and the one that follows it. Three requests of two
connections are a resume, what takes the thread away, and the resume that races
with it; the listener, the unloader and the answers come on top of them. A fourth
request is where the stronger statements about listeners fail (below); what the
run checks is proved for any number. Two items
and two barriers are one of each on either side of a fault; two faults make both
attempts of one command fail, or one attempt of each of two; two recorders are the
one that crashed or ended and the one that resumed, or two concurrent resumes.

`CHECK_DEADLOCK FALSE` appears where the modelled clients may simply have
nothing more to submit, or all threads may wait for a flag nobody raises.

### Fairness

- *Readiness*: a thread inside a call continues (`WF` of its steps). Nobody is
  obliged to start a call.
- *SessionRegistry*: timers fire, spawned expiry tasks run, and a connection
  loop whose transport is down notices it.
- *LocalProcess*, *ExecStream*: tasks are polled until they end. A process exits
  and closes its pipes only if it was terminated: a live one may run for ever.
  `Notify` gets strong fairness because senders to a bounded tokio channel are
  served in turn. The connection transmits, or is lost.
- *TurnLifecycle* (`LiveSpec`): every spawned thread continues, and an aborted
  task dies at its next await. This includes that a model request ends, with an
  answer or an error, which its timeouts provide, and that a model does not ask
  for follow-ups for ever (`MaxFollowUps`). Runs that check liveness exclude
  failing compactions (`RunMayFail = FALSE`): those are retried without end as
  long as input is pending, a hazard listed in `PROJECT.json`. Hooks may block
  input in `turn_mail`, and what they block counts as dropped; in `turn_user` they
  do not, for the reason in "Statements TLC refutes".
- *MemoryJobs* (`FairSpec`): time passes, sessions keep being started, and a
  pipeline that was not killed proceeds. Faults are bounded; a thread whose
  retries are used up is excepted, as in the code.
- *RolloutRecorder*: the writer task and callers whose send has room or whose
  answer has come proceed. Nobody is obliged to call a barrier.
- *ThreadListener*: its properties are safety only; no fairness.

## Proofs

All proofs are of safety, for any values of the constants that satisfy the
assumptions named in the modules: at least two token ids; `None` is not an
element of the other sets; retention and queue limits are positive; threads and
processes of the memory pipeline are finitely many and there is always a token that
nobody holds, as for the code's random ones; user input is not also mail, an
approval note or an injected item. Some theorems assume more, in their statement,
because TLC refutes them otherwise: `Punctual` and no reset by the user for
`BaselineIsConsolidated`, and for the two about user input and the two about the
consumer of a stream those named below.

- `ReadinessProofs`: `TokenInv` is inductive. `ReadyDrainsTokens` alone is not:
  it needs that the lock excludes, and `AtMostOneMark` and `UniqueTokens` need
  that until the flag is raised every token handed out is still subscribed. From
  it: `ReadyDrainsTokensAlways`, `AtMostOneMarkAlways`, `UniqueTokensAlways`.
- `SessionRegistryProofs`: `RegInv` adds to the properties that sessions
  connections refer to were handed out, that a removed entry is never registered
  again, and that an unused id is untouched. The last is what makes a fresh
  attachment start without a deadline. From it: `RequestsExclusiveAlways`,
  `AttachedSessionSurvivesAlways`, `LoopKeepsItsSessionAlways`.
- `LocalProcessProofs`: `ProcInv` relates the table (`TableInv`: a process with
  an active task still owns its id, unless the table was drained), the record
  (`RecordInv`: `open` counts the streams not yet finished, `exited` says where
  the exit task is) and the log (`LogInv`). The first is why reuse of an id is
  harmless for output: retention starts only when all three tasks have reported.
  From it: `OutputBelongsAlways`, `SeqsContiguousAlways` and
  `FeedsWellFormedAlways`, the refinement of `EventFeed` by each process's log.
  `ReaderMissesNothing` alone is not inductive. `ReaderInv` adds that the retained
  chunks are numbers of output events in increasing order (`OutputInv`), so that
  "after the cursor" is a suffix of them; that the cursor lies before the next
  number; and that a reader told of the end follows a closed process, which writes
  nothing more. Lemmas about increasing sequences (`CursorSplits`, `AfterKeeps`,
  `PrefixKeeps`, `ConcatKeeps`, `RetainKeeps`) carry it, `ChunksContinue` says what
  one answer of `exec_read` covers, and every other step only lets the log grow
  (`LogsGrow`). From it: `ReaderMissesNothingAlways`.
- `ExecStreamProofs`: the server's part is taken over from `LocalProcessProofs`,
  since a server step is a step of the process table (`ServerKeeps`). `ClientInv`
  adds that only numbers of logged events travel (`NumberInv`) and that what the
  reordering buffer has released is published, or ready to be, in order
  (`OrderInv`); `RunEnds` is the fact about `publish_ordered_event` behind it. From
  it, with no hypothesis: `PublishedInOrderAlways` and `DeliveredFeedAlways`, the
  refinement of `EventFeed` by what the client publishes. `StreamInv` adds where
  the events are that the consumer lacks. The log is a sequence of positions, with
  `Failed` at the one behind the last number; the channel holds the newest ones and
  a replay continues at the cursor (`ChannelInv`, `PositionInv`); a retained chunk
  is behind the cursor, or not `Gone`, or the consumer is about to be told that it
  lagged (`CursorInv`); an answer in hand covers everything below its next number,
  whatever is written or dropped before it is applied (`AnswerInv`). `PositionInv`
  is claimed only while the stream has not ended: a recovery that fails ends it and
  logs `Failed` although numbered events may follow (`FailedIsTerminal` below).
  From it: `NoSilentGapAlways`, which assumes `SubscribeInTime`, and
  `ClosedMeansCompleteAlways`, which also assumes that the process writes no more
  than is retained (`MaxChunks <= RetainedChunks`): `CompleteInv` then says that
  nothing was evicted, and what the consumer has and what was written correspond
  one to one. Without these hypotheses both fail: a late subscriber is told
  nothing, and evicted output cannot be read again.

- `MemoryJobsProofs`: `JobsInv` says that a job row with a live lease is running,
  that the token of a row is held by the flight that claimed it and by nobody who
  claimed another, and that an output was made by the job it is filed under. The
  last needs the second: a late worker whose lease was taken over no longer has the
  row's token. `RunningCapHolds` follows from the claim's transaction, since
  nothing else makes a row running. For phase 2, `WorkspaceInv` follows the
  workspace through the steps of the one owner of the global lock; that there is
  one is where `Punctual` is used. From these: `RunningCapHoldsAlways`,
  `OutputMatchesJobAlways`, `NothingSurvivesResetAlways`,
  `BaselineIsConsolidatedAlways`, and the action properties `LiveLeaseIsKeptAlways`
  and `ProgressIsKeptAlways`.
- `TurnLifecycleProofs`: `TurnsInv`. Of every task it says which thread has the
  duty to end it: it is in the active turn, or an abort took its turn and lists it
  among its victims, or it is past the point where it can still be cancelled. Of
  every turn object it says who may still push into it or clear it. With it a step
  of one thread leaves the claims about every other thread alone, which is what the
  "quiet step" lemmas say once for all actions. From it: `TokensFireOnceAlways`,
  `WorkingTasksAreReachableAlways`, `EmptyTurnHasAnOwnerAlways`.
- `TurnLifecycleProofs`, second part: the two properties that hold only when nothing
  but the submission loop starts tasks (`LoopOnly`: no trigger mail, no approval notes).
  `LoopInv` adds that every starter is the loop and that it starts alone: the turn
  it filled is still the active one and has no task. That is
  `StartsInEmptyTurnAlways`. `InputInv` adds where an accepted item is at every
  position of every thread (`InputIsPassedOn`): in the turn's pending input, in
  the hands of one thread, recorded, or dropped. `UserInputInGoodHandsAlways`
  follows when hooks do not block, and only then. Frame lemmas (`LoopFrame`,
  `InputFrame`) state which changes disturb nothing; each action then has one lemma
  for the item it moves.

- `ThreadListenerProofs`: `ListenInv`. The thread's current state has at most one
  listener that goes on (`OneListener`), by the generations and the cancellation;
  an approval has one event, which is the last of its turn while the turn waits
  (`EventsAreOnce`, `TurnsWait`), one sender and one command to resolve it
  (`HandsAreOnce`, `CommandsAreOnce`). From the event being last follows that a
  listener of the same conversation cannot abort a request whose turn waits. What a
  listener has still to replay is not resolved yet, or will be by the same listener
  behind the replay (`ReplaysAreFresh`): the commands of one task are in order, and
  only a listener that lost its state escapes that. `RequestsReach` covers the time
  between the insertion of a callback and the last message, `SenderResolves` says
  that the state a request was sent for has its listener as long as the
  conversation runs. Each action has a lemma; the frame lemmas (`QuietStep`,
  `ListenerMove`, `StatesFallKept`, `EntryEnsuredKeeps`) do the conjuncts it leaves
  alone. From it: `PendingReachesSubscribersAlways`,
  `UnloadSparesSubscribersAlways`, and the action properties
  `ApprovalIsKeptAlways`, `ListenerIsKeptAlways`, `NoRequestAfterResolvedAlways`
  and `NoticeBeforeDecisionAlways`.

- `RolloutRecorderProofs`: `RecorderInv`. `ItemsAccountedFor` is nearly inductive
  by itself, since it already says where an accepted item is; it lacks that what a
  write in progress has counted as written is on the file (`OwnInv`) and that a
  number is given once (`NumbersInv`), so that lines of another recorder are
  nobody's. `PromisesAreKept` needs to know why a barrier may be answered: an item
  accepted before a barrier is not behind it in the channel (`Behind`), so that a
  writer with the barrier in hand and an empty buffer has them all on the file
  (`Covered`). The promised lines that do not parse are then mapped, one to one, to
  the tears in front of them. `MetaComesFirst` needs that only the recorder that
  created the thread has the metadata to write, and has it only while nothing
  complete is on the file (`MetaInv`). These are formulas of the file and of one
  writer's record, so most lemmas are about those two and not about steps:
  `OthersWrite` (a line of somebody else), `ItemSent`, `BarrierSent`,
  `CommandTaken`, `ItemWritten`, `MetaWritten`, `WriterDrains`, `WriterCrashes`.
  From it: `MetaComesFirstAlways`, `ItemsAccountedForAlways`,
  `PromisesAreKeptAlways`.

Only model-checked: liveness (`EarlyWaitersReturn`, `DetachedSessionsEnd`,
`TerminatedIsEvicted`, `StreamEnds`, `StartedTurnEnds`, `UserInputIsSettled`,
`TriggerMailIsTaken`, `StaleThreadIsExtracted`, `PollutedIsForgotten`,
`BarriersAreAnswered`), which TLAPS does not reach. Every other property that a
run checks, invariants, action properties and refinements, is also a theorem.

## Statements TLC refutes

These were found to fail. Their definitions are in the modules or their `MC_`
modules; each is reproduced by listing it in a configuration with the constants
given (liveness under the module's fair specification).

| Statement | Constants | What happens |
|---|---|---|
| `WaitersReturn` | as `readiness` | `wait_ready` (`readiness/src/lib.rs:173`) checks the flag, then subscribes; a `mark_ready` in between sends while no receiver exists ("ignore error if there are no receivers", line 164) and the waiter sleeps although the flag is up. Line 39: "Asynchronously wait until the flag becomes ready." |
| `SenderFollowsAttachment` | 2 connections, 1 session | `detach` clears the attachment, then the sender, without the registry lock; a client that resumes in between loses its notifications, which `exec-server/README.md:116` promises |
| `UserInputInGoodHands` | 2 user messages, 1 steer, 1 trigger mail, 4 tasks, 5 turns | two `start_task` calls share a turn; the later one carries a steered message from the running turn into one that is being cleared, against the comment on `steer_input` |
| `UserInputInGoodHands` | 2 user messages, 2 steers, 1 interrupt, 2 tasks, 3 turns, hooks block | an aborted task still holds input it drained; its hook blocks one item and the rest is pushed back (`prepend_pending_input`, `session/mod.rs:3120`) into the turn that is active by then, whose own task has already collected its leftovers and clears it |
| `TriggerMailIsTaken` | 1 user message, 1 trigger mail, 1 interrupt, 4 tasks, 5 turns | an interrupt takes the turn of a task that is just finishing; neither looks for pending work, which `maybe_start_turn_for_pending_work` is documented to start when the session is idle |
| `ProcessesHaveAnOwner` | 2 connections, 1 session | a client that resumes an expired session awaits its shutdown inside `initialize` (`session_registry.rs:107`); if that client disconnects, the future is dropped with the entry already removed, and the processes go on. `exec-server/README.md:42` says they are terminated |
| `NoSilentGap` | `SubscribeInTime = FALSE`, 3 chunks, queue 2, log 2 | a consumer that subscribes late replays a history whose head was evicted (`process.rs:104`) and is not told that it lags |
| `FailedIsTerminal` | 3 chunks, queue 2, log 2 | a call that fails publishes `Failed` (`client.rs:684`) while the reader task still publishes queued events, against the comment at `client.rs:789` |
| `StartsInEmptyTurn` | 2 user messages, 1 trigger mail, 4 tasks, 5 turns | two `start_task` calls overlap and the `debug_assert!` at `tasks/mod.rs:347` fails |
| `DrainedMailInGoodHands` | the same | mail drained for a turn is pushed into a turn that is cleared before its task is added (`tasks/mod.rs:362`) |
| `InjectedItemsInGoodHands` | 1 user message, 1 injection | `inject_response_items` (`session/mod.rs:3045`) accepts items for a turn whose last task has left; the comment at line 3034 says they are returned |
| `OneTerminalEvent` | 1 user message, 1 interrupt | a task past its cancellation check (`tasks/mod.rs:408`) completes its turn while it is being aborted: the client gets both events |
| `CancelledTaskLeavesMail` | 1 user message, 1 trigger mail, 1 interrupt | an aborted task asks the session for input (`session/mod.rs:3147`) and takes mail meant for a later turn (`state/turn.rs:51`) |
| `BaselineIsConsolidated` | as `memory_phase2` with `Punctual = FALSE`, acts update and pollute, no faults | a process that stalls after it confirmed its ownership resets the baseline under the next owner; `memories/README.md` says that only one consolidation inspects or mutates the workspace at a time. The same with a reset during a consolidation: the agent writes old notes back |
| `ResumeMeansSubscribed` | as `listener` | `thread/resume` tests the pending unloads before it reads the thread; the unload completes in between, the cold resume attaches while the thread is still marked, the refusal is only logged and success is reported |
| `ResumedIsLoaded` | as `listener` | a resume that was queued for the listener is handled after an archive or an unload has removed the conversation |
| `FollowedHasListener` | as `listener` with 4 requests | the teardown of a closed connection, or a listener about to unload whose mark an archive has cleared, removes the state of a thread that was resumed meanwhile; a resume that was queued then subscribes to a new state that no listener serves |
| `ApprovalNotLost` | the same | such a late unload removes the conversation of the resumed thread by its id; the listener that outlives it takes a `TurnStarted` and aborts, by thread, the request the next conversation waits for |
| `PendingIsFlagged` | as `listener` with 2 approvals and 2 turns | the guard of a finished turn's request is released late and subtracts the pending permission of the next turn from the status |
| `CallbacksEndWithTheThread` | as `listener` | an archive cancels the callbacks before it removes the listener, which may insert one in between; it is replayed to the next conversation's followers |
| `PromisedIsLoaded` | as `rollout` | the line written behind a torn one does not parse. The first to suffer is the retry of the torn line itself: `flush` answers Ok, and the item is not there when the thread is resumed |
| `EndedSessionFreesThread` | as `rollout` | a `shutdown` that fails ends the session (`session/handlers.rs:907`) and leaves its recorder in the store; `resume_thread` refuses the thread until the process ends |
| `AcceptedIsWritten` | as `rollout` | after two failed writes an item waits for the next command, which may never come ("Codex will continue retrying", `session/handlers.rs:758`); one queued behind a shutdown is dropped |

One document differs from the code without a run to show it:
`memories/README.md` lets memories that were never used fall back to their
`generated_at`, while the selection uses `source_updated_at`.

## Not modelled

- Inside modelled components: `exec_write`, which forwards bytes; the file-system
  and HTTP requests of a connection; the client's route table with several
  sessions; review, compaction and shell tasks, goal continuation turns and
  pending approvals of a turn; the inside of a model request; sub-agent threads,
  goals and rollback in the app server; listing and archiving of rollout files.
- Protocols that are worth a model and have none: the agent registry (slots,
  paths and nicknames under concurrent spawns and failures), the pruning of
  interactive processes, the refresh of single-use tokens by several processes,
  goal continuation turns, and the search of apply-patch with its end-of-file mode.
- Components without a protocol of their own: rendering, configuration,
  telemetry, wire types, packaging, SDKs, skills, sandboxes and other wrappers of
  the operating system or of libraries. `PROJECT.json` gives the reason for each.

## Plan

1. `AgentRegistry`, abstractly a counting semaphore; goal continuation as one more
   spawner of `TurnLifecycle`; `UnifiedExec`; the refresh of tokens.
2. Several sessions of one client, with its route table, on top of `ExecStream`.

New properties of a component join its existing instance, and statements that fail
are kept in the table above.
