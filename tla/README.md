# nanobot: TLA+ models of the gateway

This directory models nanobot (a chat-bot gateway in Go): how an inbound chat
message reaches the goroutine of its session, what a turn does to the session in
memory and on disk, how conversations are consolidated into long-term memory,
how the process shuts down; the channels, timers and subagents that put messages
on the bus and take them from it; and what a turn works with: the prompt, the
wrappers of the model, the file tools and the files laid out at start.  TLC checks
the models on small instances; TLAPS proves the results listed under *Proofs*
for every value of the constants.

Source references are to `src/` of the repository; `internal/agent/loop.go:56`
means `src/internal/agent/loop.go`, line 56.

## 1. The system

### 1.1 How a message travels

```
 chat service          bus.inbound(100)        q.ch(32), one per session
 Feishu.onMessage ───► PublishInbound ───► RunInboundLoop ───► worker(session)
 heartbeat, cron ┘                         (dispatcher)          │ processMessage
                                                                 ▼
                                                            Agent.ChatStream
                                             session.SessionManager │ memory.go
 chat service          bus.outbound(100)                            ▼
 Feishu.Send ◄── consumeOutbound ◄── PublishOutbound ◄── text, error or "empty"

 SIGTERM ─► StartGracefulShutdown: cancel root context, close inbound, close
            outbound, wait for the workers (with a timeout), stop components
```

Everything runs in one process.  Goroutines meet at the two bounded channels of
the bus, at the queue of each session, at a `WaitGroup`, at the mutex of the
session manager, at the consolidator's lock per session, and, without any lock,
at the fields of a session object and of the memory store.

### 1.2 Components

| Component | State | Operations | Hard behaviour | What makes it correct |
|---|---|---|---|---|
| message bus (`internal/bus`) | two buffered channels | publish, receive, close | full channel, send on a closed channel, cancelled context | nothing accepted is lost or reordered |
| inbound loop (`agent/loop.go`) | queue and worker per session, WaitGroup | receive, enqueue, `processMessage` with one retry, exit | dispatcher blocks on a full queue; wg.Add races with Wait | per session: bus order, one at a time, one reply per message |
| graceful shutdown (`app/shutdown.go`, `cmd/nanobot/gateway.go`) | phase, timeout | cancel, close bus, wait, stop | phases overlap with running turns | it ends; it does not cut off running turns silently |
| session manager (`session/manager.go`) | cache, JSONL files, mutex | GetOrCreate, Save, Invalidate, AddMessage, Clear, GetHistory | Save in place, line by line; crash between lines; unlocked fields | what was recorded is never forgotten or duplicated |
| agent turns (`agent/agent.go`) | `activeTasks`, pipe, session object | ChatStream, /new, /stop | the turn's goroutine outlives the worker's interest in it | turns serial, saved before the reply completes, /stop reaches the turn |
| memory (`agent/memory.go`) | MEMORY.md, HISTORY.md, failure counter, lock per session | MaybeConsolidateByTokens, ArchiveUnconsolidated, raw archive | state read before the model call and used after it | each message archived once, in order; the mark inside the session |
| prompt governance (`agent.go:646-742`) | the session's messages | drop orphans, backfill, microcompact, truncate | broken turns and consolidation leave calls without results; it writes to the session | every call has its results, and only those |
| Feishu channel (`channel/feishu.go`) | seen events, cancel function, done channel | onMessage, Start, Stop, Send, fallback, splitting | redelivered events, two Stops, a request that fails in the middle of a reply | at most once per event, text complete and in order |
| channel manager, websocket (`channel/`) | channel map, connections | start, stop, broadcast | clients come and go while sending; one outbound channel for all channels | connected clients miss nothing; Stop returns |
| subagents (`subagent/manager.go`) | two `sync.Map`s of tasks and sessions | Spawn, completion, CancelBySession, CancelAll | cancel races with spawn and with other cancels | what was registered is cancelled |
| heartbeat (`heartbeat/service.go`) | ticker, stop channel, shared chat model | Start, Stop, Tick | Stop of a disabled service, the tools of the model, a full bus | it ends with the process; it does not take the tools of turns |
| cron (`cron/service.go`) | job list, next-run times | AddJob, RemoveJob, fireDue, Save, Load | firing from a snapshot, a late ticker, restart | no bursts, a removed job is gone |
| model providers (`provider/`, `errors/`) | breaker shared by requests | fallback, retry, error classes | concurrent requests and probes | the breaker opens for a reason; a refusal is final |
| tool registry, wrappers (`tool/`) | tool map, file state | register, execute, read-before-write | none: filled once at start | not modelled |
| file tools (`tool/tools/filesystem.go`, `apply_patch.go`) | files | read, write, edit, patch | calls of one answer run at once; failure in the middle of a patch | calls apart are serial; pages of a file are complete |
| shell, web, message, mcp tools, ssrf | external | execute | I/O | not modelled |
| configuration and workspace (`config/loader.go`, `workspace/sync.go`) | config file, templates, memory files | onboard, load, sync | crash or power failure between two steps | the configuration is none or whole |
| prompt files, skills, command router, tracing, CLI | files | load | none concurrent | not modelled |

Some code is complete but not wired into the gateway: the model fallback and
retry wrappers, the runner, the file state, the tool wrappers, subagents and
the cron service of `runGateway` (both are passed as nil), the HTTP API, the
`Dream` job and the websocket channel (`gateway.go:136` is a comment).  Models
of those that are modelled say so in their headers: `Subagents`, `Cron`,
`ModelFallback` and `WebSocketChannel` are models of the packages.

## 2. Modules

| Module | Models | Lines of the code |
|---|---|---|
| `InboundLoop` | bus, dispatcher, workers, consumer, shutdown | `bus.go`, `loop.go`, `shutdown.go`, `feishu.go:437-462`, `gateway.go:95-177` |
| `SessionMailbox` | abstract: one serial mailbox per session | comment on `RunInboundLoop` |
| `MCInboundLoop` | TLC instance of `InboundLoop`, symmetry, weaker schedulers | |
| `InboundLoopProofs` | proofs about `InboundLoop` | |
| `SessionStore` | session objects, cache, file, mutex, Save by lines | `session/manager.go` |
| `ChatTurns` | `EXTENDS SessionStore`: turns of one session, commands, consolidation, crash | `agent/agent.go`, `memory.go:287-373` |
| `Conversation` | abstract: one conversation per session | `session/manager.go:19-31`, `agent.go:430-475` |
| `ChatTurnsProofs` | proofs about `ChatTurns`: its types, serial turns, /new | |
| `ChatTurnsKept` | more of them: what is stored where, that nothing is lost, and that a session is a `Conversation` | |
| `Consolidation` | consolidator and memory store of all sessions, with sizes | `agent/memory.go`, `GetHistory` |
| `MCConsolidation` | message shapes for TLC, symmetry | |
| `ConsolidationProofs` | proofs about `Consolidation` | |
| `Heartbeat` | ticker, decision, shared chat model, shutdown | `heartbeat/service.go`, `memory.go:174-215`, `shutdown.go:50-127` |
| `Cron` | jobs, ticker, file, restart | `cron/service.go`, `tools/cron.go` |
| `FeishuChannel` | intake, Start and Stop, cards, chunks, replies | `channel/feishu.go`, `channel/manager.go` |
| `WebSocketChannel` | handlers, connection map, broadcast, Stop | `channel/websocket.go`, `channel/manager.go` |
| `MCSources` | TLC instance of the four above | |
| `SourcesProofs` | proofs about `Cron`, `FeishuChannel` and `WebSocketChannel` | |
| `PromptGovernance` | the prompt of each model call of a turn | `agent.go:646-742`, `GetHistory` |
| `ModelFallback` | retry around fallback around the primary model | `provider/retry.go`, `fallback.go`, `errors/errors.go` |
| `FileTools` | `read_file`, `write_file`, `edit_file`, `apply_patch` | `tools/filesystem.go`, `tools/apply_patch.go` |
| `Subagents` | tasks, sessions and cancellation | `subagent/manager.go`, `tools/spawn.go` |
| `Onboarding` | configuration, templates, memory files | `config/loader.go`, `workspace/sync.go`, `cmd/nanobot/onboard.go` |
| `PromptProofs` | proofs about `PromptGovernance` | |
| `FileToolsProofs` | proofs about `FileTools` | |
| `ToolsProofs` | proofs about `ModelFallback`, `Subagents` and `Onboarding` | |
| `MCTools` | TLC instance of `PromptGovernance`, `ModelFallback`, `FileTools`, `Subagents`, `Onboarding` | |

### 2.1 InboundLoop

A message is its session and its number in the session, counted when the bus
accepts it; what a turn does is left to `ChatTurns`.  State and code:

| Variable | Code |
|---|---|
| `inbound`, `outbound`, `inboundClosed`, `outboundClosed` | `MessageBus` |
| `held` | the `msg` of the dispatcher between the receive (`loop.go:38`) and the send (57) |
| `queue[s]`, `queueClosed[s]` | `q.ch` |
| `worker[s]`, `cur[s]` | the goroutine at `loop.go:47-53` and the message it processes |
| `wg` | the counter of the `WaitGroup` |
| `phase`, `waited`, `ctxDone` | `StartGracefulShutdown`, root context |
| `published`, `started`, `delivered` | history variables: last number accepted, begun, handed over |

Each handler is one action, or several where another goroutine can come in
between: `Publish`, `Receive` (creates queue and worker, `wg.Add`), `Enqueue`
or `Abandon` (the `select` at 56-60), `CloseQueues`; `Take`, `TurnRetries`,
`TurnEnds`, `Reply` or `DropReply`, `WorkerExits`; `Deliver`, `ConsumerStops`;
`Signal`, `CloseInbound`, `CloseOutbound`, `WaitReturns`, `WaitTimesOut`,
`StopComponents`.  A blocking send is an action that is disabled while the
channel is full.  Left out: progress messages (the only consumer skips them),
the text of replies, hooks, and the branch that suppresses a reply
(`loop.go:132`), since nothing in the repository calls `SetMessageSent`.

### 2.2 SessionStore and ChatTurns

One session key.  A thread is the worker (0) or the goroutine of a turn; `pc`
says where it is.  `heap` holds the session objects ever made, because a
goroutine may keep a pointer to one that is no longer cached.  `Save` is four
steps and one more per line, since it truncates the file with `os.Create`,
and the process may die (`Restart`), or the disk refuse a write (`SaveFails`),
between any two; one line is one write.  `AddMessage` is a read and a write
because it is an unlocked `append`.  `Clear` and the assignments of
`LastConsolidated` are one step.

`BeginTurn` stores the cancel function, `FetchSession` is `GetOrCreate`, then
the consolidation, the prompt, the stream.  `StreamOpens` starts the turn's
goroutine and leaves the worker reading its pipe.  `StreamBreaks` is the receive
error that goes down the pipe at once while the goroutine has its turn still to
record: from here on two threads work on the session.  `Finish` is the deferred
function that removes the entry of `activeTasks` and closes the pipe.  /new is
`BeginNew .. NewSucceeds`, /stop is `SendStop` and `HandleStop`.

The consolidation inside `ChatTurns` leaves open what depends on sizes: whether
the prompt is over budget (constant `OverBudget` permits it) and which of the
positions the boundary search can return is taken (`Boundaries`); the number of
rounds is not limited.  `Consolidation` has the sizes.

All that the model answers in a turn, tool calls and their results included, is
one message of the role assistant here, and the input of a turn is a user message,
also that of a subagent's announcement, which the code adds as an assistant's
(`agent.go:426`).

`Conversation` says what all this is for: `Ask`, `Answer`, `Summarise` and
`Clear` on a log, a mark and a memory.  `ChatTurns` implements it
(`ImplementsConversation`) with the session that `GetOrCreate` would return as the
log and its mark, cached or on file; a question is only asked when the one before
is answered, and a batch is only taken then.

### 2.3 Consolidation

All sessions, each with at most one consolidation at a time; turns are serial.
Messages have a role and the sizes of text and tool calls; `Estimate`,
`PickBoundary`, `NextBoundary` and `History` are the pure functions of the code
on these sizes.  `Base` stands for the constant base and MEMORY.md.  A call of
the model is the interval between `Check`/`BeginNew`, which read the memory,
and `Summarised`/`ModelFails`, so other sessions run in between.  A success is an
entry of HISTORY.md (`Summarised`, one write of one entry) and, if the model changed
the memory, the write of MEMORY.md, which truncates the file first: `Summarised`
empties it, `FillsMemory` writes it, whole or in part.  With `DiskFaults` a read of
MEMORY.md may come back empty, an append may fail (`ModelFails`, or `lost` in a raw
archive), MEMORY.md may not open or may be cut; the code only logs these.  A
message without content is in no entry and no fact (`wordless`; `memory.go:105`).
The counter `consecutiveFailures++` is a read and a write.  The counter saturates
at the threshold, above which the code does not distinguish values.  The memory is
a set of facts and the model is obedient: it returns what it was shown and one fact
per message whose text it was given, so a lost fact is the program's doing and not
the model's.

### 2.4 Sources and channels

`MCSources` puts four modules side by side.  They meet only at the bus, which
`InboundLoop` models, so a behaviour moves one of them (`focus`) and leaves the
others as they began; each module names what it sees of the bus.

* `Heartbeat`.  `hb` is where the goroutine of `Start` is, `tickPending` the one
  tick that `ticker.C` keeps, `bound` the tools that the last `BindTools` on the
  shared chat model left.  `TickReads`, `DecideBinds`, `DecideAsks`,
  `TickPublishes` are `Tick`; `TurnAsks` is a model call of a turn, `MemoryBinds`
  and `MemoryAsks` are a consolidation; `CancelRoot`, `CloseBus`, `WaitWorkers`,
  `StopHeartbeat`, `StopChannels` and `CloseDone` the shutdown, of which the last is
  its deferred close and runs after a panic, too.  A configuration without heartbeat
  (`HbEnabled = FALSE`) has the typed nil in the interface.
* `Cron`.  The clock is a variable; `CollectDue` is the part of `fireDue` under
  the lock and `Fire` the loop after it.  `Save`, `Dies` (in the middle of
  `Save`, too) and `Load` are there although the gateway saves nothing
  (`CronSaves`) and has no callback (`CronWired`).
* `FeishuChannel`.  `Receive` is `onMessage` up to marking the event as seen,
  `PublishEvent` the rest, so deliveries overlap.  `SocketBegins`, `SocketEnds`,
  `StopBegins`, `StopEnds` separate where Start, Stop and the websocket goroutine
  let go of the lock.  A reply is `TakeOutbound`, then one action per request; a
  request that fails may have been carried out.  `Convert`, `SplitByRunes` and
  `BuildCardChunks` are pure functions on lines; every content of up to four
  lines of `SomeLines` is checked to keep its words (`KeepsText`, an assumption
  of `MCSources` that TLC evaluates in the run).
* `WebSocketChannel`.  One handler per client, from the request to the deferred
  delete; `SendLocks`, `WriteOne`, `SendUnlocks` are a broadcast under the read
  lock.  `OtherTakes` is the consumer of another channel.

### 2.5 What a turn works with

`MCTools` is built the same way.

* `PromptGovernance`.  A message has a role, the ids of its calls, and for
  results whether `microcompact` may omit it and a size.  `Ask` builds the prompt
  from history and turn; it also writes the shortened results back to the
  session, since the slices share their messages.  `Consolidate` moves the mark
  anywhere a boundary may lie.
* `ModelFallback`.  A request is its phase, try and next fallback; the breaker is
  `consecutiveFails` and `cooling`.  The return of the primary (`PrimaryAnswers`,
  `PrimaryFails`) and the record of it under the lock (`RecordSuccess`,
  `RecordFailure`) are two steps, so concurrent requests record in any order.  Errors
  are the classes that the code tells apart.
* `FileTools`.  Texts are sequences of lines.  Reading a file is one step, writing
  it two, because `os.WriteFile` truncates first.  A patch has a `pending` edit
  and goes on after one that fails; a read and either half of a write may fail.
* `Subagents`.  `LoadOrStore`, `Store`, `Delete` are a step each, `Range` one per
  key.  Each call of a canceller carries `owed`, the tasks it must reach.
* `Onboarding`.  What a file holds is absent, torn, the program's or the user's;
  `durable` says which contents a power failure leaves alone, `replaced` what a
  rename that did not reach the disk brings back.

## 3. Runs

| Run | Bounds | What it shows |
|---|---|---|
| `loop_safety` | 2 sessions × 3 messages, capacities 2/1/1, symmetric | types; `GaplessBacklog`; `OneReplyInOrder`; `RepliesNeverOvertake`; `WaitGroupCountsWorkers`; `ExitedWorkerLeftNothing`; `TurnsFollowBusOrder`, with a shutdown at every point |
| `loop_liveness` | 2 × 2, capacities 1/1/1, fair | `EveryMessageAnswered`, `ShutdownCompletes`, and the loop implements `SessionMailbox` |
| `turns_quiet` | 3 turns, 2 /new, 1 /stop, consolidation, no faults | `ConversationKept`, `AnswersOnDisk`, `OneTurnAtATime`, `StreamingTurnIsListed`, and the turns implement `Conversation` |
| `turns_crash` | 2 turns, 1 /new, 2 crashes, failing writes | types; `ClearedStaysCleared`: no crash undoes a successful /new |
| `turns_overlap` | 2 turns, broken streams, consolidation, fair | `NoDuplicateLines`, `ListedTurnRuns` although turns overlap; `TurnsEnd`: no lock is left behind, the worker comes back |
| `memory_deep` | 1 session × 6 messages, 2 rounds, the code's threshold 3, failing reads and writes, fair | `ArchivedOnceInOrder`, `SlicesInRange`, `LastMessageStays`, `RawNeedsStreak`, `NewWorksInTheEnd`, `FactsHaveHistory` |
| `sources` | heartbeat with room for one message; 2 jobs to clock 5; 2 events × 2 deliveries, 3 replies, 2 Stops of one Start; 2 websocket clients, 3 replies; fair heartbeat | `HeartbeatShutsDown`; `RunsAreSpaced`, `RemovedFiresAtMostOnce`; `PublishedOnce`, `ChunksAreContiguous`, `StopWaits`; `ClientsMissNothing` |
| `tools` | prompts of sessions of 8 messages with 2 calls per answer; 2 callers, 2 fallbacks, 2 tries, threshold 2; a patch, an edit, a write and a read at once; 2 subagents, 2 cancellers; 2 onboards, 1 gateway, 1 power failure | `PromptWellFormed`, `OmittedStaysOmitted`; `BreakerNeedsStreak`, `PermanentIsFinal`; `SerialIfApart`; `CancelReaches`; `ConfigWhole` |
| `memory_big` | 1 session, base over the target | *fails*: `SlicesInRange` |
| `heartbeat_stop` | no heartbeat configured, fair | *fails*: `ShutdownIsComplete` |
| `shared_model_tools` | one turn, one consolidation | *fails*: `TurnsHaveTheirTools` |
| `feishu_chunks` | as `sources` | *fails*: `SentIsComplete` |

**Why the bounds suffice.**  With capacity one, every channel and queue is full
and empty in turn, so each blocking send is met blocked and unblocked; capacity
two of the inbound channel lets messages of two sessions wait in both orders.
Three messages of a session occupy a worker, a queue and the dispatcher at once.
In `ChatTurns` two turns are enough for two overlapping goroutines and three for
a turn that starts after both; two crashes include a crash during the first
`Save` after a restart.  In `Consolidation` a session of four messages has a
batch with a boundary at a user message, one at the fallback position and a
single-message rest; six messages give two rounds and raw archives at the code's
threshold of three (of its five rounds the later ones repeat the second: a round
depends on the mark and the counter only).  Two sessions at once, with types and
symmetry, are in `Consolidation_safety.cfg`, which passes (7.0 million states).

In `Cron` the clock passes the intervals (zero, which the tool lets pass, and two),
the "minute" and the "day" of the constants several times.  Two Stops, two deliveries and two clients are the
fewest that race; the three replies of `FeishuChannel` have one chunk more than
fits and one for another channel between them.  In `PromptGovernance` two calls
per answer give a result that is missing, first or last; `KeepRecent = 1` omits
at the second large result.  Two callers race for the breaker at threshold two.
The four calls of `FileTools` share a file, edit one twice, fail one edit and
touch one alone.  Two onboards follow each other over one directory, with a
gateway that lays out the same templates.

**Deadlock.**  `CHECK_DEADLOCK FALSE` is in the configurations because the
modelled behaviours stop: the bounds on messages, turns and commands run out,
and the process of `InboundLoop` exits.  That nobody waits for ever when there
is work is what the liveness properties say.

**Fairness.**  Weak fairness of the dispatcher, of each worker, of the turn
goroutines, of the consumer and of the shutdown goroutine: the Go scheduler runs
every goroutine that can run, and calls of the model end (with an answer or an
error).  Strong fairness of `Reply`: a Go channel serves its blocked senders in
the order they came, so a worker that can send over and over does send.  Strong fairness of `WakeOnStop`:
a `select` takes a ready case at random, so a closed stop channel is not passed
over for ever by ticks.  Strong fairness of `WsStopLocks`: a waiting writer of a
`RWMutex` keeps new readers out.  Strong
fairness of /new in `memory_deep`: the user repeats it.  Nothing is assumed of
publishers, signals or crashes.  `MCInboundLoop` also has schedulers in which a
turn may hang (`FairSpecHung`) and in which the caller waits without a timeout
(`FairSpecPatient`); `ChatTurns` has one where the model may never answer
(`SlowModelSpec`).

### 3.1 Where code and documentation disagree

The four runs marked *fails* show:

1. `memory_big`: with nothing left to consolidate and a prompt that is still over
   the target (a large MEMORY.md), `pickConsolidationBoundary` returns an index
   beyond the session and the slice at `memory.go:337` panics.
2. `heartbeat_stop`: `StartWithBus` returns a nil `*HeartbeatService` when the
   heartbeat is disabled, the default (`heartbeat/service.go:178-180`); in an
   interface it is not nil (`shutdown.go:116`), `Stop` dereferences it and the
   shutdown panics before it stops the channels.  While the panic unwinds, the
   deferred close (`shutdown.go:53`) closes the channel that "closes when shutdown is
   complete" (`shutdown.go:49`): what waits for it may go on (`gateway.go:163`),
   unless the panic ends the process first.
3. `shared_model_tools`: consolidation and heartbeat bind their tool to the chat
   model object of the agent (`memory.go:177`, `heartbeat/service.go:116`);
   `BindTools` replaces the tools of every later call, so the next call of a turn
   has lost its own.
4. `feishu_chunks`: when the threaded reply fails, `replyWithFallback` sends the
   first chunk as a new message and returns (`feishu.go:512-515`); the rest of a
   long answer is lost and Send reports success.

More counterexamples were found on the way.  They have configurations here,
which are not part of the standing runs; `tlc -config <cfg> <module>` shows each
(where a configuration serves several properties, it names the others in a
comment):

| Configuration | Property | What happens |
|---|---|---|
| `InboundLoop_close.cfg` (MCInboundLoop) | `OutboundOutlivesWorkers` | `gateway.go:160` closes the outbound channel before the workers are waited for, so replies of running turns are dropped; `docs/message-bus-and-channels.md:93` has the other order |
| | `WaitCoversWorkers` | Wait returns at a zero counter, then the dispatcher starts a worker for a late session (`loop.go:29,46`) |
| `InboundLoop_wait_stuck.cfg` (MCInboundLoop) | `WorkersFinish` | the return at `<-ctx.Done()` leaves queues open, the shutdown always waits for its timeout (`loop.go:58`) |
| `InboundLoop_blocking.cfg` (MCInboundLoop) | `SessionsDoNotBlock` | one hung session fills its queue and stops the dispatcher for all (`docs/message-bus-and-channels.md:126`) |
| `ChatTurns_broken.cfg` (ChatTurns) | `OneTurnAtATime` | after a broken stream the worker starts the next turn while the goroutine of the first still appends and saves (`agent.go:413`; `docs/message-bus-and-channels.md:124` says serial) |
| | `StreamingTurnIsListed` | the goroutine of the broken turn removes the entry that the next turn has stored in `activeTasks` (`agent.go:381`) |
| | `ConversationKept` | the two goroutines append to the same slice and one message overwrites the other (`manager.go:29`) |
| | `SaveIsAtomic` | Save truncates the file in place, so during a save the turns before are not on disk (`manager.go:126` says "tmp write + rename") |
| `ChatTurns_new.cfg` (ChatTurns) | `ConversationKept` | /new clears messages a broken turn recorded while it archived (`memory.go:363`) |
| | `ClearedStaysCleared` | a broken turn saves after /new and brings the old conversation back (`agent.go:444`) |
| `ChatTurns_saved.cfg` (ChatTurns) | `ConsolidationIsSaved` | the mark moved after a turn is not written (`memory.go:297`) |
| `ChatTurns_truncated.cfg` (ChatTurns) | `ArchivedPrefix` | a crash inside Save leaves a mark beyond the messages (`manager.go:24`) |
| `ChatTurns_stop.cfg` (ChatTurns) | `StopCancels` | /stop waits in the queue behind the turn it should stop (`docs/agent-core.md:107`) |
| `Consolidation_two.cfg` (MCConsolidation) | `RawNeedsStreak` | with two sessions a stale `++` undoes a reset (`memory.go:236`) |
| | `MemoryKeepsFacts` | with two sessions the later write of MEMORY.md drops the facts of the earlier (`memory.go:220`); HISTORY.md still has them (`FactsHaveHistory`) |
| `Consolidation_cuts.cfg` (MCConsolidation) | `BatchEndsCleanly` | the fallback boundary cuts inside a turn (`memory.go:395-397`) |
| | `PromptStartsWithUser` | a history without a user message is kept whole (`docs/memory-and-session.md:45`) |
| `Consolidation_raw.cfg` (MCConsolidation) | `RawArchiveLosesNothing` | a failed raw archive reports success (`memory.go:252`) |
| `Feishu_two_starts.cfg` (MCSources) | `StopWaits` | a second Start replaces the channel that the first goroutine closes; Stop returns early (`feishu.go:100,118`) |
| | `NoPanic` | Stop sets the done channel to nil before the goroutine has evaluated it for its deferred close, which panics (`feishu.go:100`); with a second Start one channel is closed twice |
| `Websocket_one.cfg` (MCSources) | `RepliesAreBroadcast` | the consumer of Feishu takes a reply meant for websocket and skips it (`feishu.go:447`) |
| | `StoppedHasNone` | a handler between upgrade and lock registers after Stop (`websocket.go:94-103`) |
| | `StopIsServed` | a client that does not read holds the read lock for ever, there is no write deadline (`websocket.go:82-86`) |
| `Websocket_address.cfg` (MCSources) | `ClientsMissNothing` | with a repeated address the deferred delete of the earlier handler removes the later connection (`websocket.go:107`) |
| `Tools_serial.cfg` (MCTools) | `CallsAreSerial` | two edits of one answer overlap and one is lost; nothing looks at `ConcurrencySafe` (`plan.md:461`) |
| `Tools_more.cfg` (MCTools) | `LaidOutWhole` | a crash inside `os.WriteFile` leaves a torn template, which exists and so is never repaired (`sync.go:32`) |
| | `CustomisationStays` | onboard and gateway at once: one finds a file missing, the other creates it, the user edits it, the first overwrites it (`sync.go:23,32-42`) |
| | `CancelBySessionReaches` | a Spawn that overlaps a CancelBySession adds to a set that was deleted and is missed by the next one, too (`manager.go:91,134`) |
| | `PagesMeet` | the hint of a shortened page names offset + limit, so the lines that did not fit are skipped (`filesystem.go:117`) |
| | `ResultsAreShort` | long results are cut only when another result is omitted (`agent.go:720-738`) |
| | `RecordStays` | governance shortens the session's own messages, and Save writes them (`agent.go:733-738`) |

Three configurations that pass are kept there as well: `Consolidation_safety.cfg`
(two sessions, with types and `FactsHaveHistory`), and `Sources_types.cfg` and `Tools_types.cfg` with the type invariants of the
composed modules and `PagesAdvance` (following the hints of read_file ends).

Met while modelling, and stated by no property: a job of kind "at" fires again
every day (`cron/service.go:17` says once), and one with `every_seconds` of zero
or less at every tick; jobs are never saved by the gateway; an event whose publish
fails stays marked as seen (`feishu.go:160`); an empty cell of a table moves later
cells under the wrong header (`feishu.go:634`); an edit that matches only apart
from white space takes the first of several places; while the breaker is open the
fallbacks are not asked, either (`fallback.go:66`), and a cancelled context falls
back; the delay of the persistent retry mode overflows at the 34th try
(`retry.go:80`); two onboards at once would share one temporary file.

So several properties of the passing runs hold under a condition that the run's
constants state: `OneTurnAtATime`, `ConversationKept` and `ImplementsConversation`
while streams do not break, `StreamingTurnIsListed` and `ClearedStaysCleared` too,
`ArchivedPrefix` without crashes, `RawNeedsStreak` for one session, `SlicesInRange`
while `Base < Target`,
`StopWaits` and `ChunksAreContiguous` for one Start, `ClientsMissNothing` for
distinct addresses, `SerialIfApart` for files that no two calls share at once,
`CancelReaches` for a Spawn that no cancellation overlaps, `ConfigWhole` while
onboards do not overlap.

## 4. Proofs

The theorems about the loop hold for any finite set of sessions and any positive
capacities, from the named assumptions of `InboundLoop` only.  Those about the
turns hold for any number of turns, /new and /stop commands, and crashes; those
about the sources and channels for any jobs, events, messages, clients and
number of them, and any clock.  Those about the
consolidation hold for any set of sessions, any shapes of turns and any limits
of rounds and failures, those about the wrappers for any callers, fallbacks, tries
and threshold, those about the subagents for any tasks, sessions, cancellers and number
of their calls, those about the layout for any processes, files and power failures,
those about the prompt for any results, session and number of calls, those about the
files for any files, calls and edits,
under the conditions of the last column:

| Theorem | Module | States | Condition |
|---|---|---|---|
| `TypeCorrect` | `InboundLoopProofs` | `[]TypeOK`, with the capacities of all channels | |
| `BacklogIsGapless` | `InboundLoopProofs` | `[]GaplessBacklog` | |
| `TurnsInOrder` | `InboundLoopProofs` | `TurnsFollowBusOrder` | |
| `WaitGroupCounts` | `InboundLoopProofs` | `[]WaitGroupCountsWorkers` | |
| `ExitedLeftNothing` | `InboundLoopProofs` | `[]ExitedWorkerLeftNothing` | |
| `RepliesComplete` | `InboundLoopProofs` | `[]OneReplyInOrder` | |
| `RepliesInOrder` | `InboundLoopProofs` | `[]RepliesNeverOvertake` | |
| `LoopIsMailboxes` | `InboundLoopProofs` | `Spec => Mailbox!Spec` | |
| `TurnTypesCorrect` | `ChatTurnsProofs` | `[]TypeOK` | |
| `ListedIsRunning` | `ChatTurnsProofs` | `[]ListedTurnRuns` | |
| `TurnsAreSerial` | `ChatTurnsProofs` | `[]OneTurnAtATime` | no `StreamsBreak` |
| `StreamingIsListed` | `ChatTurnsProofs` | `[]StreamingTurnIsListed` | no `StreamsBreak` |
| `NewClearsForGood` | `ChatTurnsProofs` | `[]ClearedStaysCleared` | no `StreamsBreak` |
| `NoMessageTwice` | `ChatTurnsKept` | `[]NoDuplicateLines` | |
| `NothingIsLost` | `ChatTurnsKept` | `[]ConversationKept` | no `StreamsBreak`, no `DiskFaults`, `MaxCrashes = 0` |
| `PrefixIsArchived` | `ChatTurnsKept` | `[]ArchivedPrefix` | the same |
| `AnswersAreOnDisk` | `ChatTurnsKept` | `[]AnswersOnDisk` | the same |
| `SessionIsConversation` | `ChatTurnsKept` | `Spec => ImplementsConversation` | the same |
| `ConsolidationTypes` | `ConsolidationProofs` | `[]TypeOK` | `Base < Target` |
| `BatchesInside` | `ConsolidationProofs` | `[]SlicesInRange` | `Base < Target` |
| `LastMessageKept` | `ConsolidationProofs` | `[]LastMessageStays` | `Base < Target` |
| `ArchivedOnce` | `ConsolidationProofs` | `[]ArchivedOnceInOrder` | `Base < Target` |
| `FactsAreArchived` | `ConsolidationProofs` | `[]FactsHaveHistory` | `Base < Target` |
| `RawAfterStreak` | `ConsolidationProofs` | `[]RawNeedsStreak` | one session |
| `JobsDoNotBurst` | `SourcesProofs` | `[]RunsAreSpaced` | |
| `RemovedIsGone` | `SourcesProofs` | `[]RemovedFiresAtMostOnce` | |
| `EventsPublishedOnce` | `SourcesProofs` | `[]PublishedOnce` | |
| `StopWaitsForSocket` | `SourcesProofs` | `[]StopWaits` | one Start |
| `ChunksFollow` | `SourcesProofs` | `[]ChunksAreContiguous` | one Start |
| `BroadcastsReachAll` | `SourcesProofs` | `[]ClientsMissNothing` | distinct addresses |
| `FallbackTypeCorrect` | `ToolsProofs` | `[]FallbackTypeOK` | |
| `BreakerSafe` | `ToolsProofs` | `[]BreakerNeedsStreak` | |
| `RefusedStaysRefused` | `ToolsProofs` | `PermanentIsFinal` | |
| `AttemptsSafe` | `ToolsProofs` | `[]AttemptsBounded` | |
| `SubagentTypes` | `ToolsProofs` | `[]SubTypeOK` | |
| `CancelReachesAll` | `ToolsProofs` | `[]CancelReaches` | |
| `OnboardingTypes` | `ToolsProofs` | `[]OnboardTypeOK` | |
| `ConfigStaysWhole` | `ToolsProofs` | `[]ConfigWhole` | `ASSUME` of `Onboarding`: the names differ |
| `PromptsAreWellFormed` | `PromptProofs` | `[]PromptWellFormed` | `PromptAssumption` |
| `OmittedStaysOut` | `PromptProofs` | `OmittedStaysOmitted` | `PromptAssumption` |
| `FilesAreSerial` | `FileToolsProofs` | `[]SerialIfApart` | `FileToolsAssumption` |

`PromptAssumption` says that a tool returns what it has (what is cut or omitted is
made so by the modifier); `FileToolsAssumption` that the calls name files of the
instance, that only a patch has several edits and that no edit makes a file absent.
With these three every safety invariant and every action property of a passing run
is a theorem.

The first eight are all safety properties of `loop_safety`, and the safety part
of `ImplementsMailbox`.

Every condition is one that the code does not meet by itself, and a run or a
configuration of section 3 shows what happens without it: `ChatTurns_broken.cfg`
and `ChatTurns_new.cfg` for `StreamsBreak`, `ChatTurns_truncated.cfg` for crashes
(a disk that refuses a write truncates the file in the same way), `memory_big`
for `Base < Target`, `Consolidation_two.cfg` for more than one session, `Feishu_two_starts.cfg` and
`Websocket_address.cfg`.

**Argument for the loop.**  The invariants build on one another.

* `GaplessBacklog` says where the messages of a session are: `started+1 ..` in
  its queue, the next in the dispatcher's hand, the rest in the inbound channel
  up to `published`.  Together with `TypeOK` it is inductive.  The part about the
  channel is stated by `Run`, which compares neighbours instead of filtering the
  sequence, because filtering is recursive and out of the provers' reach.
  `RunAppendSame`, `RunTailSame` and their `Other` forms say what `Append` and
  `Tail` do to a `Run`, for the session of the message and for the others.
* With it, `Take` always begins number `started + 1` (`TakeNext`); `CurMatches`
  (a busy worker's message is the one it began last) follows, and with both
  `TurnsFollowBusOrder`.
* `OneReplyInOrder` is a `Run` again, along the outbound channel, from
  `delivered` to `Finished`.  It needs `CurMatches` for the number that is sent
  and `CtxFirst` (the channel closes only after the context is done) to exclude
  `DropReply`.  `RepliesNeverOvertake` also covers the shutdown, where replies
  may be dropped: it is inductive with `DeliveredIsOver`.
* `WaitGroupCountsWorkers` is inductive with `TypeOK` over finite sets.
  `ExitedWorkerLeftNothing` follows from `Drained` (queues are closed only when
  the inbound channel is empty and closed and the dispatcher holds nothing).
* For the refinement, `done` is `Finished` and `open` is `~ctxDone`.  `Publish`,
  `Take`, `Reply`/`DropReply` and `Signal` map to `Accept`, `Begin`, `Finish` and
  `Close`, everything else to a stutter; `Begin` needs `WasAccepted`.

**Argument for the turns.**  `Places` is inductive with `TypeOK` and needs no
condition: it says, per control state, that a thread at work has an object
(`ObjOK`), that the thread inside `Save` and no other holds the manager's mutex
(`MuOK`), that the consolidator's lock is held inside a consolidation only
(`LockOK`), that turns begin in order (`TurnOK`) and that a slice is read only
between two steps of one operation (`BufOK`).  `ListedInv` strengthens
`ListedTurnRuns` and follows under all faults, since whoever ends a turn removes the entry.

* While streams do not break, `SerialInv` is inductive: a turn that runs is the
  last one that the worker began, and the worker is reading its pipe (`OneRuns`);
  its entry is listed from the moment it is prepared until it is cancelled
  (`IsListed`).
* `FreshInv` adds that all threads at work share the cached object (`Cached`),
  that the turn at hand is later than the last successful /new (`FreshTurn`), that
  while /new saves the cleared session the cached object is empty and the file has
  only what this `Save` wrote of it (`Clearing`), and that every message in the
  cached object, in a slice or in the file is later than that /new (`AllLater`), so
  that neither a crash nor `Invalidate` brings one back.
* `NoDuplicateLines` holds with two threads on one session, too, where an append
  may overwrite another.  It needs that what a turn has still to add is nowhere
  yet (`Unwritten`), that no turn goes back to before its input or its reply
  (`NeverBack`), that every object and slice has each message once (`Singles`), and
  that the lines `Save` has still to write are not in the file (`Halves`); only
  `AddMessage` stores what was not stored (`NextStored`).
* `KeptInv` proves `ConversationKept`, `AnswersOnDisk` and `ArchivedPrefix`
  together (the last is what `ImplementsConversation` implies of the mark, so no run
  checks it by itself).  Nothing is out of the cache but a session that no file has
  (`NothingForgotten`); what waits for its summary is exactly the part of the
  session past the mark, and /new clears with the mark at the end (`Pending`); the
  slice that `AddMessage` read is still the session's when it writes, with the
  question before its reply (`Adding`); during `Save` the file and the lines still
  to be written are the session (`Writing`); and while nobody saves, a recorded
  turn is on file, archived or about to be saved (`OnDisk`).
* For the refinement, `AddWrites` maps to `Ask` and `Answer`, `Summarised` and
  `NewArchived` to `Summarise` (`SummarisedIsSummary`, `NewArchivedIsSummary`),
  `NewClears` to `Clear`, and every other step leaves the session that
  `GetOrCreate` would return as it is (`NextCurrent`), also when it comes from
  another object or from the file.  `TalkInv` adds what the guards of the
  conversation need: an open question is the last message (`Asked`), the last
  message is a reply unless a turn is between the two (`Settled`), what was said is
  of turns before the one that asks next, in the archive too (`Past`), and a batch
  is never empty (`Batches`).

**Argument for the consolidation.**  `SlicesInRange` alone is not inductive: that
the mark stays inside the session when `Advance` moves it needs the batch to end
inside, that `/new` takes all that is left needs the batch to stay what it was
while the model works, and `TypeOK` needs a round to be left while a batch is
under way.  `JobOK` states these per control state; `IInv` is `JobOK` with
`TypeOK`, `SlicesInRange` and `LastMessageStays`.  The two facts about the pure
part are `EstimateEmpty` (with nothing left to consolidate the estimate is the
base, so that no batch is picked) and `BoundaryInside` (what
`pickConsolidationBoundary` returns otherwise).  The sums of the estimate are
never evaluated in a proof; only the empty one matters.  `HistoryOK` adds to
`ArchivedOnceInOrder` which numbers have no content (`Marked`) and that what a failed
raw archive lost is before the mark (`LostBefore`).  It is inductive relative to
`IInv`: `EntryTells` says that an appended batch continues the numbers, a raw archive
that fails adds its batch to what is missing as the mark passes it, and `Clear` moves
`cleared` by exactly what `lc` loses, because a /new reaches it only with the mark at
the end.  `FactsOK` is about the facts a session is about to write as well as those in
the file: what the model was shown was in the file, so it has its entries, entries are
never removed, and while MEMORY.md is being filled the entry of the batch is there.
With one session the counter is the streak except between the read and the write of
its increment (`CounterOK`).

**Argument for the sources and channels.**  A cron job's next run is its interval
after every run that it had (`NextIsLater`), which for "at" needs that it is never
due before its time (`GoodJob`); a restart begins with no runs and ids are never
given out twice (`IdsOK`).  `LateOK` says that a job that is removed and still to
be fired has not fired since, because `CollectDue` takes jobs of the map only.
An event that was not seen is nowhere (`IntakeOK`).  With one Start the fields
`stopWS` and `wsDone` are set and cleared together and the one channel is closed
when its goroutine ends (`LifeOK`); with a second Start both fail.  In the middle
of a reply the chat ends with the chunk before the one the consumer sends
(`Continues`).  For the websocket an open client is under its address
(`MapOK`, which the deferred delete keeps only if the addresses differ), those a
broadcast has still to write to are in the map, and a client has nothing before it
enters (`WritesOK`).

**Argument for the wrappers.**  `FallbackInv` is inductive.  That a refused request
makes no more calls needs `RefusedIsOver` (it is idle, so every action that calls a
model is disabled for it until the next request), which needs `InProgress`: a
request asks a fallback only with an error that permits it.  `AttemptsBounded`
needs the calls of earlier tries apart from those of this one (`CallsCounted`).
`BreakerNeedsStreak` is inductive by itself: every record that adds to the counter
adds to the streak, and a recorded success or a probe never leaves it larger.

**Argument for the subagents.**  `SubInv` is inductive.  `CallOK` says, per phase of a
call, that what it visited is cancelled or over and that what it owes is still to be
visited, or settled, or overlapped a call.  That needs `Findable`: as long as a task is
neither cancelled nor overlapped, the session's entry leads to the set that lists it, so
a `CancelBySession` finds it.  `Findable` in turn needs `CallOK` of the other
callers: a `Delete` of the session's entry loses no such task, because every live task of
the session is owed by the call that deletes, cancelled, or overlapped.  `Forgotten`
makes a task that is missing from `runningTasks` a cancelled one.

**Argument for the layout.**  Of the program's steps only
`RenameTmp` changes the configuration, so it is whole if the temporary file is (`TmpReady`), and stays so through a power
failure if what was renamed had been flushed; the failure may bring back what the
rename replaced, which is whole, too (`ConfigSafe`).  `TmpReady` needs that no
other process works on the temporary file (`OneOnboard`) and that the files
created in place are others (`LaysOut`, with `FilesOfLayout` about the
concatenation of the two lists).

**Argument for the prompt.**  `Log`, the session's messages followed by those of the
turn, is in order (`Paired`): the result of the k-th call of an answer is the k-th
message after it, with only results between, and no id is given out twice; so what an
interrupted answer lacks are the results of its last calls.  A prompt begins anywhere
in the log.  Then the results without their call are the first messages of it, and
dropping them leaves an end of the log that is in order again (`OrphansFirst`).  A call
has the results of its first calls and lacks those of the rest (`MissingLast`); these
are filled in between the call and the results it has, so together they are one for
each of its calls (`RowAfterCall`, `CallIsFilledIn`), and none is beyond the reach of
its call (`ResultIsFilledIn`).  Compaction changes sizes only (`Compacted`,
`AlikeFollowed`).  `PromptInv` is `TurnOK`, about the log, with the well-formed prompt.

For `OmittedStaysOmitted`, a result that was omitted is `Old` in the log: it may be
omitted and at least `KeepRecent` that may be omitted come after it
(`OmittedIsOld`).  What is old stays old while the log grows, is cut in place or is
recorded (`LogKeeps`), since cutting leaves a large result large; and whatever part of
the log a later prompt takes, what follows there is the same, so what is old is
omitted again (`ModifiedOmitsTheOld`).  `Consolidate` moves the beginning only.

The operators on sequences are folds and `FlattenSeq` of the community modules.  The
induction theorems of the library cannot be instantiated, but a least counterexample
can be taken from `WFMin` (`Induction`, over a set of numbers instead of an operator);
with it `Blocks` says once for all that the flattened sequence consists of its parts in
order.

**Argument for the files.**  `CallsEffect` and `EditsEffect` are the folds of the
property; `FoldAppend` says that one more element is one more step, by the same
induction.  Edits are local: what a call makes of a file depends on that file only
(`EditIsLocal`, `UptoIsLocal`).  `FileOK` says of a file that stands apart that one
call changes it at a time, that it holds what the calls that returned made of it and
what the edits before the current one of the call underway made of that, and that
what this call is about to write is its next edit (`pending`).  A file that clashed or
could not be read or written says nothing, and does not disturb the others: that is why the
property is stated file by file.

Only model-checked:

* all liveness properties (fairness and ENABLED are outside the prover), so also
  the fairness of `SessionMailbox`;
* the pure functions on text, sizes and lines, which the assumptions and runs of
  the MC modules compute on bounded inputs.

## 5. Plan

Written so far: the core path, the turns and their store, the consolidation; the
sources and channels; what a turn works with.  Next, in this order:

1. The persistent mode of the retry wrapper, and the connection states of mcp.
2. What is left of `Conversation` when streams break: the two threads of a session
   lose the order of question and answer, but not more than one append each.

## 6. Not modelled

Texts, prompts and their wording; the JSON encoding of sessions beyond its lines;
the 1 MiB limit of the scanner in `load`; listing of sessions; media, reactions
and text normalisation of Feishu; the wording of tool results, matches inside a
line, `list_dir`; provider matching and the registry of providers; the schema and
defaults of the configuration; HTTP, shell, web and MCP calls; skills and prompt
files (sequential file I/O); `file_state.go`, the tool wrappers, the runner, the
`Dream` job and the HTTP API, which the gateway does not use; logging and tracing;
the terminal commands apart from `onboard`.  The memory model of Go is
interleaving of the steps named above: torn reads of a slice header are not
modelled.
