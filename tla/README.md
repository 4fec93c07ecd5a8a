# LittleBaby: TLA+ specification

This directory models the production program of the repository, the Feishu
service in `src/src/feishu-service.ts` (one file, one process, one JavaScript
event loop), and three concurrent cores of the legacy gateway it was cut out
of: the outbound delivery queue, the follow-up queue and the command lanes. The
models are checked with TLC, and every safety property the passing runs check
is proved with TLAPS for all values of the constants. Line numbers
below are lines of `feishu-service.ts` unless another file is named.

## 1. The system

`scripts/build-feishu-service.mjs` bundles `feishu-service.ts` and nothing else
of `src/src`; the other directories there are the runtime the service was cut
out of. The production entry point does not reach them, but they are still in
the repository and tested, and their queues are where its hardest concurrency is.

| Component | State | Operations | Interacts with |
| --- | --- | --- | --- |
| Message path: `handleMessage` (2561), `MessageAggregator` (1564), `SessionManager` (1656), `processAggregatedMessage` (2377) | `processingMessages`, `processedMessages`, one buffer and timer per sender, one session object per sender, `inFlightRequests` | take a message in, append it to a session, push, flush, route, generate, validate and retry, send, time out, apologize | called by the WebSocket callback; calls the store, the agents, the delivery |
| Process life: `main` (2914), `runFeishuService` (2788), `createAbortSignal` (2897) | abort signal, `shutdownRequested`, force-exit timer | start, receive a signal, close, exit | flushes the aggregator, waits for pipelines, closes MCP and MySQL, saves |
| Protection against repetition (447, 561, 603, 2570) | the two sets of ids, `dedupeTimestamps`, `lite-dedupe.json` | refuse, mark, expire, save, restore | shares the save with the history |
| Delivery: `chunkReply` (2705), `sendFeishuReply` (2750) | none of its own; the chat is its state | cut, reply, send plainly, excuse | called by pipelines; several can share a chat |
| Tools: `McpHub` (2140), `generateReply` (1944) | `clients`, `bindings`, `initPromise`, the dialogue with the model | connect, offer, call, retry, record | called by pipelines; writes `lb_tool_calls` |
| Memory: `MysqlMemoryStore` (713), `addHistory` (1540) | `conversations`, `lite-history.json`, `sessionIds`, four MySQL tables, the context documents | record a message, open and close a turn, restore | called by handlers and pipelines at every await |
| Event parsing and policy (1263-1562) | image files | parse, filter, derive keys | verdicts used by `handleMessage` |
| Agents D and A, model calls (1792-2122) | none | decide, write small talk | outcomes used by pipelines |
| Configuration (489-551, 645-675) | read once | load | before anything runs |
| Outbound delivery queue (`src/src/infra/outbound/deliver.ts`, `delivery-queue-storage.ts`, `delivery-queue-recovery.ts`) | one JSON file per delivery, `.delivered` markers, `failed/`, `entriesInProgress` | enqueue, send, acknowledge in two phases, count a failure, give up, recover at startup, drain on reconnect, defer | live deliveries, the startup scan and the drain of a channel share the files |
| Follow-up queue (`src/src/auto-reply/reply/queue/`, `src/src/utils/queue-helpers.ts`, ends of `runReplyAgent`) | `FOLLOWUP_QUEUES`, `RECENT_QUEUE_MESSAGE_IDS`, the reply operation of the session | queue a message, drop at the cap, drain by item or by group, clear | filled while a run is active, drained when one ends |
| Command lanes (`src/src/process/command-queue.ts`, `src/src/cli/gateway-cli/run-loop.ts`) | queue, active ids and limit of each lane, `gatewayDraining`, waiters | enqueue, drain a lane, complete, clear, change the limit, wait for active tasks, reset | agent runs nest lanes, cron jobs nest agent runs, the restart drains and resets |

What makes this code hard: every `await` lets other handlers, timers and
pipelines run; a timeout stops the waiting but not the work; sessions are found
again by sender after each await; calls to Feishu, the model, MCP servers and
MySQL can fail after they took effect; the state is saved with a delay and read
back after a crash; a shutdown can come at any moment. `PROJECT.json` lists
these hazards one by one with their lines and the properties that cover them.
The gateway adds files shared by activities that lock one another only in part,
queue objects that outlive their entry in a map, items that leave a queue by
number after an await, tasks that hold one slot while they wait for another,
and a reset of all lanes under running tasks.

For each component, correct means: nothing a user was promised an answer to is
lost or answered twice without a failure that explains it, no pipeline leaves
the sender's session behind or damages another's, and an excuse never follows a
complete answer (message path); a signal ends the process, nothing is taken in
after it and resources go only after their users (process life); a message is
handled once while its mark lives (repetition); what a chat shows of an answer
is in order, complete and not doubled except by a lost reply (delivery); the
model is always given a well-formed dialogue and the trace says what happened
(tools); the rows and the history agree about who said what (memory); a delivery
that reached the disk is shown or kept, and sent again only for a reason
(outbound queue); a queued message is run once and not forgotten (follow-up
queue); every call is settled, slots are used, sessions are serial and a drain
is told the truth (lanes).

## 2. Modules

| Module | Models | Lines of TLA+ stand for |
| --- | --- | --- |
| `SessionPipeline` | message path | handlers, aggregator, sessions, both promises of a pipeline |
| `MessageFate` | abstract specification | what becomes of a message |
| `SessionPipelineRefinement` | `SessionPipeline` implements `MessageFate` | the refinement mapping |
| `ServiceLifecycle` | process life | start, signals, close, exit |
| `MessageDedupe` | protection against repetition | handlers, marks, file, crashes |
| `ReplyDelivery` | delivery | chunks, calls, excuses |
| `ToolCalls` | tools | hub, tool loop, retries, trace rows |
| `ConversationMemory` | memory | SQL statements, history, restore |
| `OutboundQueue` | outbound delivery queue | files, live deliveries, scans, deferrals, crashes |
| `FollowupQueue` | follow-up queue of one session | arrivals, drop policies, drains, clears |
| `CommandQueue` | command lanes | lanes, nested runs, cron jobs, restart in the process |
| `SessionPipelineProofs`, `ReplyDeliveryProofs`, `ToolCallsProofs`, `ConversationMemoryProofs`, `OutboundQueueProofs`, `FollowupQueueProofs`, `CommandQueueProofs` | theorems and proofs about the module they are named after | |
| `ProcessProofs` | theorems and proofs about `ServiceLifecycle` and `MessageDedupe`, the two modules about the process as a whole | |
| `MC*` | instances for TLC | |

An action is the code one handler, timer callback or promise runs from the
await it is suspended in to its next await; the variables named `handler`,
`inner`, `outer`, `step`, `at`, `phase`, `closing` hold which await that is. The
event loop gives interleaving at exactly that grain. Messages, users, requests,
servers and pipelines are model values; texts, prompts and wording are not
modelled, except that `ReplyDelivery` keeps the lengths of lines because its
property is about what the cut loses.

Correspondence, module by module:

* `SessionPipeline`. `handler[m]` is where `handleMessage` is for message m
  (`Parsed` decides the path before `recordUserMessage` is awaited, and
  `Appended`, `Stored`, `Submitted` are what runs after it). `buffer` and
  `timers` are the aggregator's maps. A session object is named after the
  pipeline that created it, so that `sessions[s]` (the map) and `session[p]`
  (the reference a pipeline holds) can differ, as they do in the code after a
  timeout. `inner[p]` is the async function of a pipeline, `outer[p]` the call
  that races it with the timer. A timeout is `TimesOut`; the inner promise then
  goes on. `Kind[m]` is the verdict of the filters.
* `ServiceLifecycle`. `phase` is the await of `main`, `closing` that of `close`.
  While the service is serving, abort and `process.exit(0)` are one action,
  because only microtasks are between them; in the phases before, `close` runs
  on, or was never registered.
* `MessageDedupe`. The two sets, the stamps (`stamped`, `old`: older than the
  TTL) and the file. A save cuts to `Keep` ids (2000 in the code).
* `ReplyDelivery`. `Call` is a call to Feishu with the three outcomes that
  matter: posted, posted but reported as failed, not posted.
* `ToolCalls`. `trying` is the await of `initialize`; `runs` counts how often
  the server carried a call out, which the code cannot see.
* `ConversationMemory`. Each SQL statement is a step that succeeds, fails before
  it took effect or fails after it. Stopping is possible at every await and in
  the middle of a save. Small talk (`Kind` "chat") and questions differ in what
  they write.
* `OutboundQueue`. A job is a live delivery, a scan or a deferral; `at[j]` is its
  await. `queued`, `retryCount`, `markers`, `failed` are the files, `claims` is
  `entriesInProgress`. The clock is left out: after a failure the startup scan
  may find the backoff over or not. `sends[e]` and `tries[e]` are history: how
  often the message may still be shown, and how many sends may still begin,
  before a cause is owed. A step that is the cause of a repetition adds one to
  `sends`; a step by which `retryCount` misses attempts (a crash in or an error of
  a scan's send, a `failDelivery` that writes back an older count) adds their
  number to `tries`.
* `FollowupQueue`. `current` is the object in `FOLLOWUP_QUEUES`, and `items`,
  `drain`, `batch`, `groups` belong to objects, because a drain keeps the object
  a clear has taken out of the map. `op` is the reply operation of the session.
  The two modes are collect and all others that queue; the settings stay as they
  are. Sessions share nothing here, so one is modelled.
* `CommandQueue`. A command (an agent run or a manual cron run) descends through
  the lanes of its `Path`; `<<c, k>>` is its entry and then its task in the k-th.
  What one synchronous chain of calls does to lanes and commands (complete,
  pump, start a task that enqueues in the next lane, be refused) is one record
  passed from operator to operator, so that it is one step, as in the code. A task
  is of the current generation exactly while it is in its lane's active set.

External parts (Feishu, the model, MCP servers, MySQL, the file system) have no
module: they are the choices in the actions of their callers.

## 3. What TLC checks

| Run | Instance | Shows |
| --- | --- | --- |
| `session_one` | 1 user, 3 messages (2 wait, 1 mention), limit 2 | eight invariants of the message path; what a pipeline is going to read is not taken from under it; it implements `MessageFate` |
| `session_two` | 2 users, 4 messages of all kinds | every submitted message is served |
| `lifecycle` | 3 requests, 2 signals | intake, close and exit |
| `dedupe` | 3 messages, `Keep` 2, 3 starts | handled once, one at a time, saved |
| `delivery` | 3 answers, limit 2 | order, duplicates, excuses, completeness |
| `tool_loop` | 1 generation, 2 servers, 2 rounds, 2 attempts, 2 calls | offered tools, dialogue, trace rows |
| `memory` | 1 question, 1 small talk, 2 starts, 2 rows restored | rows, turns, history |
| `outbound_queue` | 1 best-effort entry, 3 retries, 6 scans, 2 faults | never lost, repeated only for a cause, attempts bounded |
| `followup_queue` | 4 messages, 2 senders, 2 routes, 2 modes, policies new and summarize, cap 2, 2 queue objects, 2 disruptions | driven, kept, run once, worked off |
| `command_lanes` | 1 cron job, 2 runs, 2 sessions, 1 or 2 slots, 1 restart, 1 reload | no idle slot, serial sessions, truthful drain, every call settled |

Two further runs end in a counterexample: what a log line or a comment says and
the code does not do.

| Run | Violated | Behaviour |
| --- | --- | --- |
| `append_lost` | `AppendedReachesPipeline` | "append message to existing pipeline" (2607), yet the session may be gone after the await, or past its validation |
| `graceful_exit` | `GracefulExit` | "waiting for ... in-flight request(s)" (2859), yet `process.exit(0)` comes first |

### Bounds and why they suffice

* *Messages.* Three messages of one user give: a buffer that fills to the limit,
  a flush by timer, by limit and by mention, two overlapping pipelines, and a
  message appended in between. The limit is 2 instead of 5 so that reaching
  it and missing it both occur.
* *`MaxStarts`* 2 (3 in `dedupe`): one crash and one restart, after which memory
  and file have diverged in every way the code allows. It is in the guards of `Starts` or
  `Stops`.
* *`Keep`* 2 with three messages: a save evicts.
* *`MaxRounds`, `MaxAttempts`, `MaxCalls`* 2: a first, a last and a rejected
  round; a retry that is and one that is not the last; a call that has a
  successor and one that has none. The code has 4, 4 and no limit.
* *`Limit`* 2: a line below, at, one above and far above the limit, and blanks.
* *`RestoreLimit`* 2 (`memory`): rows are cut off by the restore.
* *`outbound_queue`.* Entries have nothing in common but the order in a scan, so
  the run spends its states on one entry with many scans and faults: a retry
  after a retry, the last one, and two faults that meet (a crash after a lost
  result). With three retries a deferral that has read 0 can overwrite a count of
  2, so that one write loses two counts. `MaxRetries` is 5 in the code, `MaxScans`
  and `MaxFaults` are bounds of the model in the guards of `Load` and `Fault`. The
  three properties are proved for any entries, retries, scans and faults.
* *`followup_queue`.* A cap of 2 with four messages overflows; two senders and two
  routes give groups and cross-channel rounds; `MaxQueues` 2 gives an old and a
  new object of one key; `MaxDisruptions` bounds clears, throwing runs, runs of
  others, repetitions and expired marks, in the guard `Disrupt`.
* *`command_lanes`.* The job and one run meet in a session, the two runs in the
  main lane; `MaxRestarts` and `MaxReloads` bound `RequestRestart` and `Reload`.

Symmetry is used only in runs of invariants and of action properties that treat
the permuted values alike (in `session_one`, the two messages that wait:
`TriggerSymmetry`; `MessageFate` treats them alike as well). Deadlock is not
checked: every system here may come to rest (all messages handled, process
ended, bound on starts reached).

### Fairness

`SessionPipeline` assumes that the two kinds of timer fire (`TimerFires`,
`TimesOut`), `ServiceLifecycle` that the force-exit timer and the timers of
`close` fire. Node guarantees that of a process that is alive; the force-exit
timer is unreferenced, but a process with nothing else left to do ends by
itself, which is the same to the property. No fairness is assumed of Feishu, the model, MCP
servers or MySQL: calls to them may hang for ever, which is why
`SubmittedIsServed` promises the end of the waiting and not an answer.

`FollowupQueue` assumes that a debounce ends and that runs end (every model call
of an agent run has a timeout, and every end of `runReplyAgent` passes
`finalizeWithFollowup`); nothing is assumed of arrivals, clears or failures.
`CommandQueue` assumes that runs and jobs end, for the same reason, except those
that a restart has interrupted (`cut`), that the drain of a restart has a timer
and that the server closes. Its fairness of `Settle` and `RunAgent` is weak
fairness written out (`Fair`), because the steps are costly to evaluate inside
ENABLED. `OutboundQueue` claims no liveness: a delivery may wait for the next
start or reconnect for ever.

## 4. What is proved

TLAPS proves the theorems below for all values of the constants that satisfy the
assumptions named in the modules: the types of the constants, that limits and
caps are positive, that `Msg` is finite (`MsgFinite`, for the cardinality in
`InFlightCount`), that `NoSession` is no message and neither `NoServer` nor
"nothing" a server, and that no session lane is named "cron", "main" or "nested"
(`resolveSessionLane` prefixes their names with "session:"). TLC evaluates them in every run. `PROJECT.json` says
which theorem states which property of a run.

Each proof has a lemma for the initial states, a step lemma with one step per
action (or one per kind of step, where many actions do the same to the variables
at hand), and a temporal last step. A property is seldom inductive; what each
proof adds to it is the content of this section.

### Message path (`SessionPipelineProofs`)

* `TypeCorrectness`, `InFlightCounted`, `BuffersArmed`: types, the in-flight
  count and the arming of the aggregation timers. The invariant `Typing` is the
  three together with `Fresh`: that the count equals the number of
  unfinished outer calls needs a pipeline to be started at most once, which
  `Fresh` says (a buffered message was submitted and has no pipeline), and
  `Fresh` needs buffers to be empty when their timers are off.
* `SessionsOwned`, `SessionsActive`: `SessionHasOwner` and `StoredSessionActive`
  together are inductive given `Typing` (`Ownership`). Pipelines clear sessions by
  sender and may clear one that is not theirs; the proof shows that this only
  removes a stored session and never leaves one behind without an unfinished
  pipeline.
* `ExcuseExcludesAnswer`: an excuse needs a rejected inner promise, and after
  the last chunk nothing the inner promise still awaits can reject
  (`EndsApart`).
* `RetriedOnce`: a second generation was paid for from the retry count of the
  session object it belongs to (`RetryPaid`), which only grows. No run repeats
  `OneRetryPerSession`.
* `MessagesUsedOnce`, `NoSubmissionLost`: `UsedOnce` and `SubmittedIsHeld` with
  `InPlace` (the invariant `Placing`). `InPlace` says which messages a sequence
  can hold at all: batches have submitted ones and their own first, pending items
  and second generations have appended ones, of the session's sender. Without
  it a message could be pushed while a session still has it.
* `PendingMessagesRead`: the action property `PendingIsRead`. While a pipeline is on
  its way to its validation (`Unvalidated`), what is pending in the session object it
  holds is taken by nobody else, though that object may be out of the map, cleared by
  another pipeline, or shared with one. Each step is one of four kinds: a new pipeline,
  which takes the object over as it is and cannot be the reader, because it has not
  been started (`Fresh`); an append; the splice, which gives the items to a second
  generation of the same session; and the rest, which touch no pending items, so
  that only the reader itself can stop. `Typing` is enough for all of them. What
  nobody was going to read is dropped by `clear` (1716), which the property does
  not deny: `append_lost` shows it.
* `FateImplemented`: the refinement of `MessageFate`. Initial states map to
  initial states and each step to the step of `MessageFate` it stands for (take
  in, flush, settle, note, retry) or to a stutter. The mapping chooses the batch of
  a message, and `UsedOnce` makes that choice unique; that a batch is settled as a
  whole is that all its messages have that one batch.

### Process life (`ProcessProofs`)

* `LifecycleTypes`, `CloseWaits`, `NoIntakeAfterSignal`: invariant `Inductive`;
  what it adds to the properties is `OwedInPipeline`, that a request owed at the
  abort never goes back to a buffer.

### Protection against repetition (`ProcessProofs`)

* `HandlersAlone`: `OneHandlerEach`, a message is in `processingMessages`
  exactly while it has a handler, and then it has one.
* `MessagesHandledOnce`: the action property `HandledOnce`. Its invariant is
  `Remembered`: every message whose mark must be respected is among those a
  delivery is compared with. The work is in the saves, which cut the list of ids
  and write it to a file that a restart reads: lemmas on `Without` and on the
  end of a sequence say which ids stay.
* `ChangesAreSaved`: `ChangesWillBeSaved` is inductive as it stands.

### Delivery (`ReplyDeliveryProofs`)

* `ChunksInOrder`, `RepeatsAreFirst`, `NothingAfterExcuse`: invariant
  `Delivering`, which says for each pipeline how far it is (`Reached`), how often
  each chunk can have been shown so far (`Seldom`), and that what it posted is a
  chunk of its own or the excuse (`Own`). Steps of other pipelines only add to
  the chat what is not its own (`OtherGoing`).
* `AnswersAreWhole`: `SentIsWhole`, for every text and every limit. The pieces of
  a line cover it without a gap or an overlap (arithmetic of `\div`), the chunks
  are the pieces of the lines one after the other (`FlattenSeq`), and a pipeline
  that has sent has shown every chunk (`Reached`).

### Tools (`ToolCallsProofs`)

* `OffersAreConnected`: `OfferedIsConnected` is inductive as it stands, because a
  server enters `bindings` after it entered `clients` and neither is taken back.
* `RowsTellTheTruth`: `RowsAreTrue` with `Counted` (what the attempts of the call
  under way have come to) and `Logged` (the rows of a round are those of the
  calls before the present one).
* `DialoguesAreComplete`: `DialogueComplete` says that every request is followed
  by one result for each of its calls in their order, that nothing else is a
  result, and that each round has its request. It holds only while the model is
  asked; `Dialogues` says what a dialogue looks like in the middle of a round, up
  to the present call.

### Memory (`ConversationMemoryProofs`)

* `SessionBeforeRows`: a statement after the first is under way only when the
  session has its row (`Sessions`).
* `QuestionIsKnown`: `QuestionInHistory` is inductive given the types.
* `AnswersFollowQuestions`, `MessagesHaveOneRow`: invariant `Tables`. `RowFirst`
  ties the reference a pipeline holds in memory to the row that it must stand
  for; an INSERT that took effect and still failed leaves a row without a
  reference, and the next INSERT finds it (`Unrepeated`).

### Outbound queue (`OutboundQueueProofs`)

* `NoDeliveryLost`: an acknowledgement takes the entry away, so the invariant
  `Kept` adds `AckEarned`, that a job on its way to acknowledge works on an entry
  that was shown or given up, from the answer to the unlink. That needs a scan to
  keep its entry at the head of its list meanwhile, which is why the step lemma
  separates steps that move on (`GoesTo`) from steps that end the work on an entry
  (`Finishes`).
* `RepeatsAreCaused`, `AttemptsAreBounded`: invariant `Bounded`. `Claiming` says
  that a scan at work holds the claim on its entry and that no two scans work on
  one. `Accounts` keeps the books of each entry: `Spare`, what may still be shown
  against the sends under way and the entry in the queue; `Left`, that the sends
  that may still begin and the count in the file together are never fewer than
  MAX_RETRIES, or one fewer while a scan is in the middle of a send; `Fresh`, for
  entries that do not exist yet. The attempt to prove `Left` showed that a
  `failDelivery` over an older count loses as many counts as lie between, not one;
  the bound of `tries` says so since, and the run has three retries so that it
  happens.

### Follow-up queue (`FollowupQueueProofs`)

* `QueuesAreDriven`: `WorkIsDriven`. Until a session was cut off or a message left
  unattended (section 5), `Attended` holds: only the queue object in the map holds
  anything or has a drain, and the reply operation of a drain belongs to a
  drain that runs.
* `AcceptedAreKept`: `AcceptedIsKept`. A round takes items off by number after an
  await; until something is dropped for the cap, what it runs and the groups that
  follow are the front of the queue (`AtFront`), or its queue was cleared.
* `MessagesRunOnce`: `RunOnce`, with the cap, clears and drains that start over.
  The invariant `Counting` says that there is a log for each queue object, all
  messages that came to it in their order, with two marks: where the round of its
  drain begins and where its items begin (`Entered`). A message may still be run
  once for each of its places that no run was given, and once more if it is not
  marked as recent (`Chances`); these are never more than the runs that are left.
  A run that throws sets the first mark back to the second, and gives back at
  most one place of a message, because no message is twice in a queue
  (`Distinct`). The logs are quantified in the invariant; the model has no history
  variable for them.

### Command lanes (`CommandQueueProofs`)

A step is a chain of calls, each of which takes lanes, levels and statuses from one
record to the next. The invariant is therefore about such a record, each call has
lemmas that say what it keeps (`Pump...`, `Push...`, `Return...`, `Drain...`,
`Enqueue...`, `FreedKeeps`, `MaxKeeps`, `IdleKeeps`), and a step lemma puts them
together.

* `LanesAlways`: the invariants `LaneInvariant` and `WaitInvariant`. `Consistent`
  says that a lane's queue holds entries of its own commands at their level, each
  once, that what is active in it is under way, and that a session's lane has
  one slot; `Calm`, that between two steps only cron jobs hold a slot without a
  body, since the task of a session's lane enqueues for its global lane before
  anything is awaited; `Owned`, that a task under way is active in its lane unless
  it was carried over a reset. Within a chain `Calm` fails for one command, which
  is why `DrainCases` first says what a drain of a session's lane calls next.
* `NoIdleSlotAlways`: `Full`, for each lane. After `Pump` a lane is empty or its
  active tasks are as many as its limit (`StartingCount`, `PumpFull`: the entries
  taken are distinct and were not active, so cardinalities add up); every other
  call keeps `Full` or is followed by a drain of the lane it disturbs. For
  `resetAllLanes` this is an induction over the order in which the lanes are
  drained (`ResetStep`).
* `SessionSerialAlways`: from `Owned` and the one slot of a session's lane.
* `DrainedIsTrueAlways`: what a restart waits for is active or has ended for good
  (`Awaited`), because a draining gateway refuses everything that would go down a
  level again, and when the waiters are told, none of it is active (`Apart`).

The types of the state are proved in each module (`TypeCorrect`, `LifecycleTypes`,
`States` of the command lanes).

### What is only model-checked

* Liveness: `SubmittedIsServed`, `SignalEnds`, `QueueIsWorkedOff`,
  `CalledIsSettled`. Liveness under fairness and ENABLED are beyond the prover.

The library's induction theorems cannot be instantiated with an operator here,
but its facts about least elements can be cited: where a proof needs induction
over the length of a sequence (`Without`, `Among`, `FlattenSeq`, `Redrained`), it
takes the set of the lengths for which the claim fails and derives a contradiction from its
least element. For the same reason recursion is written as recursive functions
and no module declares a RECURSIVE operator.

## 5. What is not modelled

* Reading events, configuration, prompts, the agents' texts: their outcomes are
  choices; their wording is data no property is about.
* `cleanupIdle`: `StoredSessionActive` shows that it never finds an IDLE session.
  `recordBotMessageId` is never called, so replies to the bot are never recognized.
* The time stamps of messages and of rows, the `last_message` columns, and the
  connection limit of the pool.
* The cache of the context documents.
* Which chat a message came from: in the code, too, buffers and sessions know
  the sender only, and messages of one user in two chats are answered together
  in the chat of the first; the module cannot show that yet.
* Of the follow-up queue: the steer and interrupt modes, which act on the running
  agent, changes of the settings of a live queue, `refreshQueuedFollowupSession`, and
  an abort of a reply operation that is still in its phase "queued", which clears the
  operation before its run has ended (`reply-run-registry.ts` 342-359).
* Of the outbound queue: payloads, hooks, the normalisation of old entries, and
  torn temporary files (two writes of one entry share a temporary name), and an
  exception of `loadPendingDelivery`, which ends a scan before its remaining entries
  (`delivery-queue-recovery.ts` 261, 360); in the model a scan goes on to the end of
  its list or dies with the process.
* Of the lanes: the restart that replaces the process and the forced exit, which
  end the state; the subagent lane, which behaves like main; the fallbacks of a cron
  job, which may call `runEmbeddedPiAgent` several times (`RunAgent` calls it once).
* The rest of the legacy runtime: some 650,000 lines of provider adapters, channel
  plugins, prompts, CLI, UI, parsing and a generated configuration schema. Nearly
  all of it is data conversion and I/O without state that interleaves; the share
  of the repository's lines that the models stand for is therefore small, and
  stays small. What still has state of its own is in the plan.

Known losses and repetitions of the service and of the gateway's queues. The models
show them; where a property would be false for them, its definition names the
exception, and it does not catch them:

* a message appended after the pipeline's validation, when its retry budget is spent,
  or to a session whose pipeline ends before it reads it, is dropped with the session
  object (1716, `append_lost`); in `MessageFate` it stays "noted". One whose session
  is gone at the append is dropped at once ("lost");
* after a restart the rows of MySQL replace what the history file had (791), newer or
  not;
* a live delivery holds no claim, so a scan started beside it may send its message
  a second time; `failDelivery` may bring back an entry acknowledged between its
  read and its write; a recovered best-effort delivery that fails is acknowledged
  (`sends`, `waived` in `OutboundQueue`). A deferral costs a retry without a send;
  its comment says that this is intended;
* a follow-up queue that overflows during a run takes items off by number and may
  remove a message that never ran, and a summary that grew during its run is
  cleared unseen (`overflowed`); a session cleared under a running drain can leave
  the messages of its next queue object without one (`cutOff`); a message queued
  while only a command's or a job's run is active waits for the next run
  (`unattended`). In followup mode a summary is run in place of the oldest item, with
  that item's route and without its text, and the item is then taken off: its text
  never runs (`drain.ts` 231-251, `Round`). With a cap of 1, summarize and followup
  mode, a drop during a run leaves a drain that restarts for ever; the run's cap is 2;
* after a restart in the process, a run whose entry in a global lane was preserved
  goes on without its session's slot and may overlap a new run of that session
  (`carried`); entries that start from the queues during the drain are not waited
  for.

Behaviour worth knowing that no property states, because nothing says what it
should be: a pipeline that was given up after its timeout ("silent degradation",
2552) goes on and may send its answer late; a message is saved as processed when
it enters the aggregator, so a restart before its pipeline is done leaves it
unanswered (2698); a failed second generation marks the turn "failed" in `lb_ai_turns`
although the first answer is sent (2506); answers to small
talk never reach MySQL, and the restored rows replace the history file's entries,
so a restart forgets them (791); an MCP result with `isError` counts
as a success in `lb_tool_calls` (2189); an error text that contains "timed out"
suppresses the excuse (2539); a `textChunkLimit` between 0 and 1 makes
`chunkReply` loop for ever (2708, 2724).

## 6. Plan

Done, in this order: `SessionPipeline` (the core) with its runs and proofs,
`ServiceLifecycle` with proofs, `MessageDedupe`, `ReplyDelivery`, `ToolCalls`,
`MessageFate` with the refinement, `ConversationMemory`, `OutboundQueue`,
`FollowupQueue`, `CommandQueue`; then the proofs about all of them.

Models that could follow:

1. Chats and session keys in the message path (`sessionKeyFor`, aggregation by
   sender): which chat an answer goes to.
2. `ContextDocuments`: the cache with concurrent refreshes and failures.
3. `ToolCalls` with two generations on one hub and `McpHub.close` under them.
4. The plugin's per-chat queue and dedupe (`src/extensions/feishu/src`), the cron
   schedule, the task registry, pairing and exec approvals.

Proofs that could follow:

1. Of `CommandQueue`, that a command's level never passes the end of its path and
   an entry is never in two queues are parts of the invariant (`LevelsFit`,
   `QueuesFit`) without a run of their own; a run could repeat them.
2. `OneRetryPerSession` has a theorem and no run; a run could repeat it.
