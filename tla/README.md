# ClaudeProxy: specifications, model checking and proofs

ClaudeProxy is an Anthropic-compatible proxy (Next.js, TypeScript) in front of
Gemini and other providers, with an agent runtime of its own. This directory holds
TLA+ modules for the parts of it whose behaviour depends on ordering, sharing,
failure, retries or boundaries, the TLC configurations that check them on small
instances, and theorems checked by TLAPS. Paths below are relative to `lib/` unless they
begin with `app/` or `docs/`; `agent/` in the first table is `lib/runtime/agent/`.

    tlc -config SessionLoop.cfg MCSessionLoop       # any run: see "Runs"
    tlapm SessionLoop_proofs.tla                    # any *_proofs module

## 1. The system: inventory

| Component | Code | State it keeps | Operations | What is hard | What makes it correct |
|---|---|---|---|---|---|
| Session state machine | `agent/state-machine.ts` | - | which runtimeState may follow which; the status of a state | the loop's calls and the table were written apart | every stored move is in the table; status and state agree |
| Session document | `agent/session-manager.ts`, `session-repository.ts`, `checkpoint-manager.ts`, `planner.ts` | the document in MongoDB, one copy in the memory of the run | create, save, status and state moves, task start/finish/fail/requeue, checkpoint, restore, requestCancellation | the loop saves without looking at what is stored; a save or its events may fail | lists and statuses agree; versions grow; a cancellation does not undo progress |
| Execution loop | `agent/runtime.ts`, `runtime-loop.ts`, `execution-engine.ts`, `validation-engine.ts`, `reflection-engine.ts`, `retry-manager.ts`, `tool-executor.ts`, `cancellation.ts` | cycle, consecutive replans, the last answer | handle, run, resume, tool turn, finalize, reflect, retry, cancel | three budgets (cycles, replans, attempts); errors inside the error handler; crash and resume; cancellation at any time | budgets hold; every request ends; COMPLETED is final and earned |
| Subagent pool | `lib/agent/subagent-scheduler.ts`, `subagent-executor.ts`, `subagent-memory.ts` | sets of the run, the process-wide slot counter and queue, statuses in Redis | schedule a batch, acquire and release a slot, try models, save the status | runs share slots; batches; cyclic or incomplete plans | dependencies before dependents, at most MAX_ACTIVE at a time, no task lost, every run settles (it does not: section 4) |
| Orchestrator, merge | `lib/agent/orchestrator-*.ts`, `subagent-merge.ts` | fingerprint, plan record and task statuses in Redis | look for a plan, make, run or resume it, merge, finalize | records are read, changed and written back whole; double submission; a crash half way | what Redis says of a task is true; a closed plan stays closed |
| Leases | `agent/distributed-execution.ts` | task leases | claim, heartbeat, release, recover | a slow worker meets its successor; operations name the task alone | only recovery lets workers overlap |
| Session event feed | `session-repository.ts`, `app/api/runtime/runs/[id]/events` | event log, the reader's cursor | append, read a page after a cursor | two numbering rules, pages | a reader is told what it can be told |
| API key pool | `key-manager.ts`, `app/api/cron/key-recovery`, `app/api/admin` | one hash per key, a sorted set | pick, report, use, cool down, recover, revoke, admin actions | no transaction; stale reads are written back | a revoked key stays out; no call with an id that is no key |
| Retry engine, racing | `retry-engine.ts`, `recovery/`, `racing/` | attempt, fallback index, models found overloaded, flags of the body | races, then keys and models one after another; shed signatures, thinking and caches | several budgets and reactions that combine | a bounded number of calls; no tried model again; a body the model accepts |
| SSE stream | `transformers/stream.ts`, `runtime/agent/model-runtime.ts` | open block, index, held text, flags, retry of empty answers | translate chunks, recover actions, close, cancel | errors, time-outs, empty answers and cancellation at any chunk | a well-formed event sequence with one end |
| History and guidance | `transformers/request.ts`, `compaction.ts`, `loop-detector.ts`, `context/emergency-compactor.ts`, `context/operational-state.ts`, `lib/agent/behavior-auditor.ts` and what it calls | operational state per conversation in Redis | summarise, cut, join, audit, tell | off-by-ones where cuts meet pairs of call and result; saves nobody waits for; detectors with word lists of their own | an accepted history that keeps the latest; guidance that is true |
| Conversation memory | `session/session-identity.ts`, `session-binding.ts`, `context/hydration-guard.ts`, `emergency-compactor.ts` | ids, nonces, bindings and summaries in Redis, a lock in the process | identify, bind, hydrate, compact | terminals that begin alike or name the same id; ids made twice, resumed, deleted | memory stays in its workspace; one compaction at a time |
| Redis client and caches | `redis/client.ts`, `cache-manager.ts` | one client per process; names of caches with a time to live | connect, fall back to a disabled client; look up, make, forget | answers of an empty store; clocks of two services | blind reads do no harm; no name of an expired cache |
| Routing | `model-router.ts`, `routing/`, `lib/agent/intent-detector.ts` | registry and version in Redis, a copy per process, the last working model | look up, save, tell the task, join a chain | two keys read one after another; heuristics in order | the registry that is stored; a chain that fits the work |
| Project memory | `agent/memory-manager.ts`, `semantic-memory.ts` | notes per project, vectors per scope | load, note, retrieve | shared scopes | notes stay with projects of their kind |
| Web search | `tools/search-executor.ts`, `web-search.ts` | uses and turns of a request | ask, search side by side, answer | time limit against answers | what was found is told |
| Agent runs | `agent/mongo-repository.ts` | run documents | create, cancel, list | - | each move is one findOneAndUpdate |
| Tools, providers, auth, logging, UI | `agent/tool-*.ts`, `auth.ts`, `logging/`, `app/dashboard` and others | - | - | outside effects or text | - |

**How they interact.** A route calls `transformStream`, or `AgentRuntime.handle`, which creates the
session document and then runs the loop on its own in-memory copy. Each SessionManager call
mutates that copy, bumps its version and overwrites the document. A second route
(`runs/[id]/cancel`) writes the document independently; the loop notices by polling
the document. Both ways make a request for the model: `transformRequestToGemini` identifies the
conversation, hydrates what memory it may, cuts and joins the history, adds guidance and limits.
The retry engine takes it to a model of the chain that routing chose, with keys of the pool and a
name from the prompt cache; on overload it calls the emergency compactor. Chunks of the answer
become events for the client, in the stream transformer. The orchestrator hands plans to
`scheduleSubagentTasks`; all runs of a process share the slots of the executor. Everything
shared lies in Redis and MongoDB and is reached by single commands.

`PROJECT.json` lists every component with its status and every hazard with its line.

## 2. Modules

| Module | What it is |
|---|---|
| `RuntimeStates` | the transition table of `state-machine.ts` and the status a state implies |
| `AgentSession` | the session document as a record; one operator per mutation, returning the session it leaves |
| `SessionLoop` | the loop, the document and the cancellers as a state machine |
| `TaskExecution` | abstract specification: what running plans of tasks promises |
| `SubagentPool` | scheduler, executor, slots and statuses; implements `TaskExecution` |
| `Orchestration` | requests that share a plan, over Redis |
| `SubagentMerge` | the merge of a plan's outputs, with the stack of the walk that orders them |
| `KeyPool` | keys, requests that pick them, jobs and admins, command by command |
| `RetryEngine` | one request through races, attempts, keys, models and bodies |
| `ClientProtocol` | abstract specification: the events of a streamed message |
| `StreamTransform` | the stream, over `RetryEngine`; implements `ClientProtocol` |
| `ContextMemory` | identity, binding, hydration and emergency compaction of terminals |
| `History`, `Guidance`, `GenerationConfig` | what a request does with its messages, its log and its limits |
| `Leases`, `EventFeed`, `RouteRegistry`, `PromptCache`, `WebSearch`, `TaskRouting`, `RedisClient`, `ProjectMemory` | the smaller services |
| `MC*` | constants for TLC; `MCConversation` and `MCServices` also put modules side by side |
| `*_proofs` | lemmas, inductive invariants and theorems |

### SessionLoop

`store` is the document in MongoDB and `mem` the copy the runtime works on. `pc`
names the next call the runtime makes; `stream` says whether the request streams. Names of states,
tasks, statuses and fields are those of the code. The 19 calls of `transitionRuntimeState` differ in
the state they ask for and in where control goes on to, and in nothing else: they are one action,
`EnterState`, over the tables `Requested` and `AfterState`. In the same way `TakeCheckpoint` is the
six calls of `createCheckpoint`.

`Commit(s, next)` is the end of every SessionManager call: `s` stays in memory with its
version raised, and the document is overwritten. It may fail in two ways, with the
document overwritten (an event failed) or not (the save failed); either throws to the
loop's catch (sites in `TryBlock`) or out of the run (`escaped`). An illegal move throws before it
changes anything. `HandleError` is the catch: it fails the task and decides on a retry,
as the code does, by what was thrown and by the attempts before.

`ReadForCancel`/`WriteCancel` are the two database calls of `requestCancellation`; the
loop and other clients may act in between.

What is abstracted, and why it is enough:

- A list without duplicates is a set; `modifiedFiles` is whether it is empty; of the
  attempt counters only model-execution's is ever read, so only it is kept.
- Of up to 50 checkpoints only the newest is kept: every one the code creates passes
  `canRestoreFrom`, so `restoreLatest` never goes further back. (`create` and
  `appendCheckpoint` each append the same checkpoint; both copies are equal.)
- Answers of the model are five classes (`Content`) and validations six (`Validation`), the ones
  reflection and the gates tell apart. Reflection's quality score never decides: its only use
  is a threshold of 0.3 beside `no_tool_progress`, and without a failed task the score stays above it.
- Lint, build and test each save the same session: one optional `Commit`.
- Events, history, logs, memory notes, artifacts and times are left out. An event matters
  only in that appending it may fail, which `Commit` has; their numbers are `EventFeed`.
- The stream callbacks are left out: `StoredEndIsTrue` shows that no streaming request gets as far as
  to install them.
- Nothing in the repository calls `resumeSession`. The model resumes sessions that are at rest or
  crashed, not one whose loop is still running.

### SubagentPool and TaskExecution

One action per call that others can see: `StartBatch` is a turn of the scheduler's loop
with the synchronous start of its batch (the callbacks of `batch.map` run up to
`acquireSlot` before anything else), `SkipRest` the turn that finds nothing to start;
`Begin`, `CallFails`, `CallAnswers`, `SaveOutcome` and `Release` are the stages of
`executeSubagent`. `Release` includes the scheduler's callback, whose sets only its own
run reads, after the whole batch. `releaseSlot` is modelled as written: the
execution that is handed a slot counts itself in, and the one that hands it over does not
count itself out. The sort by position in the plan (`InOrder`) is the insertion order of the code's Set.

Prompts, outputs, latencies and performance records are left out; of the models an
execution tries only the count is kept. Statuses in Redis are per task and may silently
fail to be written, as in the code (`catch(() => {})`).

`TaskExecution` knows phases of tasks only: a task moves from waiting to running when all
it depends on succeeded, to skipped when something it needs never will, and from running
to an outcome; never more than `MaxActive` run. The refinement mapping is `TaskPhase`:
what waits for a slot is still waiting, what holds one is running. `AtMostMaxActive` is therefore part of
the refinement; it is stated for its theorem and has no place of its own in the run.

### Orchestration

`fingerprint`, `record` and `status` are the three kinds of key in Redis; `at`, `plan`, `known`,
`read`, `todo`, `done` what each request holds between its awaits. One action per command or per
step nobody sees into: `Look`/`CheckActive`/`Load` look for a plan under way, `Create`/`Register`/`SaveStub`
make one, `Run`/`Resume` choose the tasks, `StartTask`/`EndTask` are the scheduler seen by one request,
`Merge`/`Mark`/`ReadRecord`/`WriteMerged`/`WriteCompleted` finish. `Crash` ends a request between any two.
A command whose failure the code swallows may be lost: each status that is written (`StatusWritten`), a stub, each mark, a task
when the tasks of a plan are read, and `finalizeMerge` at any of its commands (`CloseFails`). A resume schedules what is pending or
failed, or, if nothing is, all tasks again, as the code does under its comment "just merge" (`orchestrator-enforcer.ts:356-359`).
`earned` (which tasks some run completed), `torn` (plans taken up before they were whole or left by a crash), `unmarked` (tasks
whose last mark was lost) and `unclosed` (plans whose closing failed) are history variables. Left out: the text of outputs and the 24 hours records live; the order of the merge is `SubagentMerge`. Nothing in
`app/` calls `runOrchestratedExecution` or `resumeOrchestratedExecution` yet; tests do.

### SubagentMerge

`topologicalSort` recurses, so `path` is its call stack: `VisitNext` is a turn of the loop, `VisitDependency` and `Sort` the two
parts of `visit`, and a call that finds no room ends in the RangeError (`walk`). `Merge` is the rest of
`mergeSubagentOutputs`. It is one of the modules in `MCServices`. What the scheduler made of the tasks is an input, limited to what `scheduleSubagentTasks` can
leave (`Scheduled`). The plans the orchestrator makes itself are a chain; the cyclic ones stand for what any other caller may pass, as the
scheduler provides for (`subagent-scheduler.ts:91`).

### KeyPool

`hash` and `pool` are what Redis holds; an operation reads, decides and leaves its commands in `cmds`, one
queue per actor, sent one at a time by `Send`. A command carries why it was decided (`why`: the
status read, a call, an admin), which is a history and never a guard. Actors are requests (which race with
several keys or models or go one by one), the racers of a request, and keepers: the cron job,
`restore` and the admin's routes. `Tick` lets a cooldown end. The id `none` (`Phantom`)
is what recovery reports when there was no key. Scores only order candidates, so a pick takes any usable one; the
ten-second marker against cooling a key twice is a choice.

### RetryEngine, StreamTransform and ClientProtocol

`RetryEngine` is `executeWithRetry`: `Begin`, the races (`racers` are the models asked together, each with the body as it came:
`raceModels` does not prepare it), then for each attempt a key, `Prepare` for the
model of the moment (signatures of another model go, thinking goes with them, a cache may serve the prefix),
the call, and one disjunct per reaction to its answer: 429 and quota, overload, 400 with its kinds, authentication,
time-out, network error, success. Its state machine stands by itself (`EngineSpec`).

`StreamTransform` EXTENDS it, so a run of the engine is part of a message: `Work` is a step of the engine,
`Thrown` and `Answered` what the generator does with its outcome, and the actions from `Chunk` to `Break` the reading
of an answer. A retry of an empty answer runs the engine again with another route. Events are put
into `out` by the generator and passed on one by one (`Deliver`), which is where a
cancellation is looked for (`Cancel`). The variables of `ClientProtocol` are what the client has been told; the
refinement is `Client == INSTANCE ClientProtocol`, with the same names. `ClientProtocol` says nothing of chunks or
retries: one message, blocks numbered from zero, deltas of the block's kind, a reason that fits.

Abstracted: of the body, what kind of signatures it carries and whether it asks for thinking; of
text, whether some is held back because it ends as a tag begins; pings. A client that goes away is not seen:
the generator runs on.

### ContextMemory

Terminals with a workspace, a slot (what user, system prompt and first message hash to) and perhaps an
explicit id (`cast`, chosen at the start), which two of them may share. A request goes through `Identify`, `MakeNonce`, `Judge`
(the binding and the stored roots, the companion key's or the operational state's, in one read), `Clean` (it deletes what is stale and
binds), `Hydrate`, `Compact` (which notes the root, whatever was said), `Operate` (the operational state is brought up to date and
told if a guard of its own approves, without the binding) and `SaveState`, then, on overload, through the process's lock (`Queue`,
`Enter`, `Persist`, `Leave`). A summary is the workspace it was written in, an operational state the workspaces it is from and the root
it has learnt. There is one user; workspaces the gateway cannot tell are one, `Unknown`; a history restored by the client
is not told apart from one that grew, and a first request holds one message.

### History, Guidance and GenerationConfig

Three parts of `transformRequestToGemini` that share nothing but the request; `MCConversation` puts them side by
side and each behaviour follows one (`part`). `History` takes any conversation of calls, results, failures and talk
through the stored summary, compaction, joining and emergency cuts, with the code's indices
from 0. `Guidance` keeps the operational state from request to request: a save is under way (`pending`) and may come
late, out of order or never. `place` is the root the client names, if any, and `explicit` whether it names its id: `Findable` is what is left
after the first guard, which deletes the state of a conversation without either, and `Approved` the second, asked of the state just brought
up to date. Turns are calls with results, claims and a `/clear`; a result that is no flagged error is one of the classes the detectors'
word lists tell apart (`odd`, `exit`, `usage`, `shout` and so on), and each detector is an operator of the log with its own list. `GenerationConfig` is the arithmetic of the limits, on
the code's own numbers.

### The services

`MCServices` puts nine modules side by side and each behaviour follows one (`service`). `Leases`: the map, the workers that
took a task, and time. `EventFeed`: saves, events, a cancellation and a reader with a cursor, who is sent pages of at most `PageLimit` (200)
events, ordered by number alone. `RouteRegistry`: two keys, read one
after the other by each process, saves whose second command may fail. `PromptCache`: lives of caches and names in ticks.
`WebSearch`: searches of one answer side by side, each over all providers and one time limit. `TaskRouting`: the order of
heuristics and the joining of chains; of a text, which patterns it matches. `RedisClient`: one client per process and what a value was
built upon. `quit()`, which nothing calls, is left out. `ProjectMemory`: notes and vectors by scope, sessions one after another or together; a session holds
its notes in places, the same fact perhaps in two, and what is retrieved is cut before duplicates are dropped (`BestOfOwn`).

## 3. Runs

| Run | Instance | Checks | Result |
|---|---|---|---|
| `session_loop` | no faults, one client, 4 cycles, 3 replans, streaming or not, fairness | `TurnsAreCounted`, `StoredEndIsTrue`, `StoredMovesAreSound`, `EveryRequestEnds` | hold |
| `session_recovery` | one failed write, one crash, one resume, one client | `TaskListsAgree`, `ResumesTakeUpLittle` | hold |
| `session_cancel` | two clients, one failed write | `AtMostOneCancelAhead`, `WritesGoForward` | hold |
| `cancel_lost` | one client | `CancellationIsFinal` | violated |
| `subagent_pool` | two runs, two plans, 2 slots, 1 model, fairness | `ResultsPartitionPlan`, `OutcomesAreJustified`, `ImplementsTaskExecution`, `SettlesUnlessSlotsLeak` | hold |
| `subagent_alone` | one run, 1 slot, batches of 2, fairness | `EveryRunSettles` | violated |
| `key_pool` | 2 keys, one request, one keeper, races of 2 | `CallsUseRealKeys`, `ComesBackLateOrByAdmin` | hold |
| `message_stream` | MAX_RETRIES 3, a route with one fallback or none, a chain of 3 models, 3 chunks, fairness | `CallsWithinBudget`, `ThoughtStaysWithPrimary`, `ChangesToUntried`, `EndsAsItWent`, `KeepsToProtocol`, `EveryRequestIsAnswered` | hold |
| `orchestration` | 2 requests, 2 plans of 2 tasks, one crash, any swallowed failure | `TasksAreTrueTillClosed`, `ReopenedOnlyByRace` | hold |
| `context_memory` | 2 terminals with 2 requests each, in one workspace, two, or one that is not told, some naming the same id, fairness | `OneCompactionAtATime`, `MemoryStaysInWorkspace`, `EveryCompactionStarts` | hold |
| `conversation` | 6 turns of history; 4 steps of a log about a file, a server or failures; limits at their edges | `HistoryIsAccepted`, `LatestIsKept`, `ToldFileIsCurrent`, `GuidanceAgreesOnServer`, `StuckIsTold`, `ThinkingFits` | hold |
| `services` | nine services, one at a time | `OverlapsOnlyByRecovery`, `PassedOverAreTwins`, `StaleOnlyByRaceOrFault`, `NameOutlivedOnlyByDelay`, `SearchesAreTold`, `LeastModelsForLeastWork`, `BlindNeverWrites`, `ForeignNotesFillUp`, `MergeIsSound` | hold |

What each property says stands before it in its module. Many have an exception, which is the
exact extent of something the code does not do; section 4 lists those.

**Bounds of the session loop.** *Informational tasks*: one instead of seven; they run one after another
through the same two calls and nothing reads which. *MaxCycles*: 4 (12, 20 or 30 in the
code): enough for three attempts, a replan after each, and exhaustion. *MaxReplans*: the
real 3 in `session_loop`, 1 where faults are explored, so that the budget is used up there
too. *MaxToolCalls* 1: calls of one answer are handled in turn and only their count
changes. *MaxFaults*, *MaxCrashes*, *MaxResumes* 1: one is enough for a fault inside the handling of an
error the model caused, and for a crash before and after each save. Two clients are symmetric; a third
could only repeat what two do.

**Bounds of the pool and of the orchestrator.** Two runs are enough to compete; the plans have a
diamond listed out of order, a missing dependency, a chain behind it and a cycle; `Models`
is 1 where the code has three or four, as failing once more changes only the count (`subagent_alone` has 2, and the proofs any number). The
code's limits are `MAX_PARALLEL` 4 and `MAX_ACTIVE_EXECUTIONS` 3: a run queues behind itself. `subagent_pool` has two runs share two slots, so
that both hand over; `subagent_alone` has batches of 2 for 1 slot, the same relation with the least numbers. Two requests with one fingerprint are
a client that tries again; a second plan is made when both look before either has registered one, or after the first was closed; planner and coder
are the smallest plan with an order.

**Bounds of the requests.** *KeyPool*: one key to be revoked and one to be taken instead; a request, its two racers
and a job or an admin are four actors with commands under way, enough for each pair of a stale read and a write between.
*message_stream*: with 3 configured retries the budget is 3 or 4 and a request uses it up; three chunks reach each
kind of block after each other, a finish reason and a break; the models are one per role (primary, fallback that is also in the chain,
chain only, gemma). *context_memory*: two requests per terminal are one that stores and one that reads, or two at the
lock; `MCCasts` are the ways two terminals can be related, two of them with one id from two workspaces (one of which may be
unknown), so that each verdict of the guard comes about. *conversation*: a log is about one of three topics (`MCTopic`), each with the turns
that matter to it; the places and ids a client may or may not name are tried with the file, where the guard decides; `KeepLast` is 3 instead of
14, so that six turns are cut at every position, with the windows scaled in proportion; a log of four steps fills and slides the scan
and `/clear` windows (2) and fills the audit window (4).

**Bounds of the services.** Three workers and two time-outs for one task: the smallest number that could break
the count; two processes that save a registry up to three times with one failed command; two callers and times to live on both sides of
the margin; one more search turn than uses; three sessions in two kinds of project, which know one fact, take two notes along
and retrieve three: an objective and a fact held twice fill these up before duplicates are dropped. Pages of two events: the second may
be the first of two of one number. Two recoveries, five versions, three caches and one note each are the counters' bounds.

*Lists to merge*: four tasks, one waiting for two and one for that, in order and out of order; one that lacks what a task
waits for; and two tasks that wait for each other, the walk starting before them or at them. Four calls are as many as an acyclic list of four needs.

The theorems below hold without these bounds.

**Deadlock** is checked for the session loop (`Finished` is the one state where it may stop) and for the
stream, where a message over stays over. The other systems may stop when their bounded work is done:
`CHECK_DEADLOCK FALSE`, and `SettlesUnlessSlotsLeak`, `EveryCompactionStarts` ask the question where it matters.

**Fairness.** `WF_vars(RuntimeStep)`: the runtime never waits for anything but calls with
timeouts of their own (the driver, the providers, tools, a bounded back-off), so its next step is taken
eventually. Clients, crashes and resumes are not fair. In the pool each run's turn and each
execution that holds a slot is weakly fair, for the same reason; one that waits in the queue has no
step of its own. `Progress` of the stream is weakly fair: calls time out, reads time out after 90 seconds, and what is
yielded is taken; that a cancellation comes is not assumed. In `ContextMemory` what a terminal's request does is
weakly fair, sending one is not.

## 4. Where code and documentation disagree

Violated runs show 1 and 6; the others are exceptions of properties that hold, so the runs show the
disagreement to be no wider than the exception says. Each has its entry under "findings" in `PROJECT.json`, with the line it contradicts.

*Sessions and subagents.*

1. **An accepted cancellation can be lost** (`CancellationIsFinal`). `save` overwrites the
   document without a version (`session-repository.ts:97-105`), so a save between the cancel and the next poll
   revives the session, although the client was told 200.
2. **Streaming requests of the agent runtime fail** (`StoredEndIsTrue`): `runtime.ts:195`
   asks for Executing from Idle.
3. **A resume throws** (`ResumesTakeUpLittle`), unless the model had not been asked yet:
   `run` asks for Initializing from the restored state.
4. **A tool turn always fails** (`TurnsAreCounted`): `runtime-loop.ts:184`
   asks for Reflecting from Waiting Tool; the throw is retried as a failed attempt, and lines
   188-190 are dead. By the same reason the gates at 206 and 211 always throw.
5. **A retried read-only answer never completes** (`StoredEndIsTrue`): `reflection-engine.ts:111` holds
   the earlier attempts against it.
6. **A run may wait for ever** (`EveryRunSettles`). `releaseSlot` (`subagent-executor.ts:89`) hands a slot over without counting
   itself out, while the one that is handed it counts itself in. With the defaults, batches of 4 for 3 slots, one
   run hands over in every full batch: nine tasks that need nothing of each other leave no slot. The orchestrator's own plans are chains,
   whose batches are single tasks; there it takes several runs at a time. `SettlesUnlessSlotsLeak` says that nothing else keeps
   a run from its end, and `AtMostMaxActive` that the leak errs towards too few, for every limit.
7. **What is swallowed leaves a closed plan with open tasks, or an open one whose tasks all look completed**
   (`TasksAreTrueTillClosed`): `orchestrator-enforcer.ts:243`, `258`.
8. **A closed plan is opened again by a race** (`ReopenedOnlyByRace`): `orchestrator-state.ts:84`.
9. **A plan that comes round to itself overflows the merge** (`MergeIsSound`): `subagent-merge.ts:84` marks a task
   when its visit ends. The scheduler survives such a plan by skipping (`subagent-scheduler.ts:79-96`); the RangeError then keeps it
   from being closed. Again the orchestrator's own plans do not meet it.

*Requests to the model.*

10. **A revoked key comes back** (`ComesBackLateOrByAdmin`) by a restoration decided while it was cooling, or the report of a
    call that was under way, against `key-manager.ts:153` "Permanently disable".
11. **Signatures and thinking go to models that did not make them** (`ThoughtStaysWithPrimary`), by two ways: models that race get
    the body as it came (`retry-engine.ts:347-357`, `model-racer.ts:147`), and an empty answer is asked for again by a route of its own,
    whose first model the engine takes for the one that made them (`stream.ts:350-358`).
12. **A request that cannot be transformed ends without `message_stop`** (`EndsAsItWent`): `stream.ts:157`.
13. **A broken answer is told as `tool_use` after MAX_TOKENS** (`EndsAsItWent`): `stream.ts:786`.
14. **A stalled answer ends as if it were complete** (`EndsAsItWent`): after 90 seconds without a chunk, `stream.ts:400`, as
    end_turn or tool_use. (A retry of an empty answer that breaks ends well too.)
15. **The default thinking budget may exceed `max_tokens`** (`ThinkingFits`): `request.ts:933`.
16. **A failure is BLOCKED by looking twice at one** (`StuckIsTold`): `operational-state.ts:538`.
17. **Which unflagged failures count is up to each detector** (`StuckIsTold`): a repeated exit code or "failed to start" is not told as a
    loop (`loop-detector.ts:39-50`), a claim to be done upon bad arguments or a failed start not as premature
    (`verification-engine.ts:22-37`).
18. **What is known of files is withheld for the rest of a conversation** (`ToldFileIsCurrent`) if the first root a result named is not the
    client's, be it that of a package within (`operational-state.ts:500`); and as long as nobody named a root, each request of a conversation
    without an id deletes the state (NULL_WORKSPACE).
19. **A rolling summary crosses workspaces** (`MemoryStaysInWorkspace`): `request.ts:402` keys it by user and first words.
20. **A request that is denied still writes** (`MemoryStaysInWorkspace`): of an id used in two workspaces the one it is not bound to stores
    its summary (`emergency-compactor.ts:488`) and its root (`request.ts:475`), which the one it is bound to is then told, or denied by.
    So is the one that was judged before anybody was bound. A workspace that is not known passes the gates of any.
21. **The operational state is judged without the binding** (`MemoryStaysInWorkspace`): `request.ts:606`.
22. **A session at work gets the least models for a message of tool results** (`LeastModelsForLeastWork`):
    `intent-detector.ts:106` before `hasActiveAgentContext`.

*Shared services.*

23. **The name of a cache may outlive it** (`NameOutlivedOnlyByDelay`): `cache-manager.ts:102`.
24. **Partial results are lost when a search times out** (`SearchesAreTold`): `web-search.ts:391`.
25. **An answer goes out with searches pending** (`SearchesAreTold`): `search-executor.ts:61`, once the uses are spent.
26. **Notes of a session reach sessions of other projects** (`ForeignNotesFillUp`): `memory-manager.ts:191`; also where the session
    has more of its own than was asked for, as it takes the same fact along twice (`:138-143`) and duplicates are dropped after the
    cut (`:237-243`).
27. **A process without Redis goes on as if the store were empty** (`BlindNeverWrites`): `client.ts:170`; the property is
    what keeps the store from it.

Met while modelling, and not the subject of a run of its own:

- `model-racer.ts:87` says each model gets its own key; nothing tells the key manager which are taken, so in `KeyPool` a race
  of models may hold one key twice.
- Resuming a plan starts with no outputs: those of tasks completed before the crash are not merged
  (`orchestrator-enforcer.ts:333-335`, `381`). `Resume` sets `done` accordingly.
- `LatestIsKept` has one exception, a history of exactly `KeepFirst + 1` messages that is compacted: the last message
  is then the whole middle. A history that was cut has 8 or 5 messages, so `CONTEXT_COMPACTION_KEEP_FIRST` at 7 or 4 meets it
  however long the conversation is (`LastIsFirstAfterKept`).
- A reader of the event feed can miss one of two events of one number (`PassedOverAreTwins`): the cancellation takes the number after
  the last, which the loop may use too, and a page of 200 may end between the two events of a change of state; the order within a
  number is not said, so SESSION_TRANSITION may be the one that is lost.
- State from before a `/clear` is told again once ten messages have passed (`CLEAR_SCAN_WINDOW`).
- A server's failure that the client did not flag as an error can be told as running (`GuidanceAgreesOnServer`).
- A glitch 400 redirects without moving `fallbackIndex` (`retry-engine.ts:587-602`), so the next fallback may be the model
  just left: the exception in `ChangesToUntried`.
- `recordModelHealth` is imported by the engine and called by nothing, although `overload-recovery.ts:51` says the engine calls it on each
  attempt: no health is on record, and recovery's order is that of its default chain.
- A merge calls itself valid when tasks were skipped because the list lacks what they wait for (`CutOff` in
  `ValidUnlessCutOff`), though `subagent-merge.ts:42` says all required tasks are validated.
- Of `response-watchdog.ts` the application uses `withTimeout` and its limits (`model-router.ts:6`, `retry-engine.ts:31`,
  `stream.ts:7`); `RequestWatchdog` itself, the detection of stalls, is used by tests only, so the stream has no time limit but its own.

## 5. Proofs

| Theorem | States | Module |
|---|---|---|
| `Invariance`, `TypeCorrect` | `Spec => []IndInv`, `[]TypeOK` | `SessionLoop_proofs` |
| `ListsAgree`, `OneCancelAhead` | `TaskListsAgree`, `AtMostOneCancelAhead` | |
| `VersionsGrow`, `CancelsKeepProgress`, `WritesForward` | the halves of `WritesGoForward`, and it | |
| `ToolTurnsFail`, `WithinBudget`, `TurnsCounted` | `ToolTurnsNeverPlan`, `AttemptsWithinBudget`, and `TurnsAreCounted`, which is both | |
| `ResumeInvariance`, `ResumesLittle` | `ResumeInv`, `ResumesTakeUpLittle` | |
| `QuietInvariance`, `EndsAreTrue` | `QuietInv`, `StoredEndIsTrue` up to the first fault, crash or resume | |
| `MovesAreSound` | `StoredMovesAreSound`, without faults, crashes and resumes | |
| `PoolInvariance`, `PoolTypeCorrect`, `SlotsRespected` | `PoolInv`, `TypeOK`, `AtMostMaxActive` | `SubagentPool_proofs` |
| `PlaceInvariance`, `NothingLost` | `PlaceInv`, `ResultsPartitionPlan` | |
| `OutcomesJustified`, `Refinement` | `OutcomesAreJustified`, `ImplementsTaskExecution` | |
| `KeysInvariance`, `KeyTypesCorrect` | `KeysInv`, `TypeOK` | `KeyPool_proofs` |
| `RealKeysOnly`, `ComesBackForAReason` | `CallsUseRealKeys`, `ComesBackLateOrByAdmin` | |
| `EngineTypeCorrect` | `EngineTypeOK` of `EngineSpec`, the engine by itself | `StreamTransform_proofs` |
| `BudgetKept`, `SignaturesKept` | `CallsWithinBudget`, `ThinkingKeepsSignatures` (within one route) of the engine | |
| `UntriedOnly` | `ChangesToUntried` of the engine, on routes that name no model twice | |
| `StreamInvariance`, `ProtocolKept` | `StreamInv`, `KeepsToProtocol` | |
| `EndsTruly` | `EndsAsItWent` | |
| `RequestInvariance` | `RequestInv`: the engine's invariant in every request of a message | |
| `MessageWithinBudget`, `MessageKeepsThought` | `CallsWithinBudget`, `ThoughtStaysWithPrimary` of `Spec`, the message | |
| `MessageChangesToUntried` | `ChangesToUntried` of the message, where no configured route names a model twice | |
| `OrchestrationInvariance`, `OrchestrationTypeCorrect` | `OInv`, `TypeOK` | `Orchestration_proofs` |
| `TrueTillClosed`, `ReopenedByRace` | `TasksAreTrueTillClosed`, `ReopenedOnlyByRace` | |
| `ContextInvariance`, `ContextTypeCorrect` | `CInv`, `TypeOK` | `ContextMemory_proofs` |
| `CompactsOneAtATime`, `MemoryStays` | `OneCompactionAtATime`, `MemoryStaysInWorkspace` | |
| `OverlapsAreCounted` | `OverlapsOnlyByRecovery` of `Leases` | `Services_proofs` |
| `TwinsOnly` | `PassedOverAreTwins` of `EventFeed` | |
| `StaleForAReason` | `StaleOnlyByRaceOrFault` of `RouteRegistry` | |
| `NamesOutliveByDelay` | `NameOutlivedOnlyByDelay` of `PromptCache` | |
| `BlindWritesNothing` | `BlindNeverWrites` of `RedisClient` | |
| `SearchesTold` | `SearchesAreTold` of `WebSearch` | |
| `ForeignFillUp` | `ForeignNotesFillUp` of `ProjectMemory` | |
| `MergesSoundly` | `MergeIsSound` of `SubagentMerge` | |
| `LeastForLeast` | `LeastModelsForLeastWork` of `TaskRouting` | |
| `BudgetsFit` | `ThinkingFits` of `GenerationConfig` | `Conversation_proofs` |
| `GuidanceInvariance` | `GuidanceInv` | |
| `FileIsCurrent`, `AgreesOnServer`, `StuckTold` | `ToldFileIsCurrent`, `GuidanceAgreesOnServer`, `StuckIsTold` | |
| `HistoryInvariance` | `HistoryInv` | |
| `HistoryAccepted`, `LatestKept` | `HistoryIsAccepted`, `LatestIsKept` | |

They hold for all clients, budgets, faults, crashes, resumes, runs, plans, limits, keys, models, routes and workers that meet
the named assumptions: `InfoTasksAssumption` (the task ids are distinct), `BoundsAssumption`
(the bounds are naturals), `CheckpointAssumption` (no checkpoint is not one), `PoolAssumption` (plans list known tasks, each once; limits are positive; runs
and tasks are finite in number), `KeyPoolAssumption` (keys are finite in number and none is called `none`; a request is no job),
`RetryEngineAssumption` (the chain is finite, of known models and not empty), `OrchestrationAssumption` and `OutputAssumption` (tasks are finite in
number and depend on tasks, and none is called as a missing output is), `ContextAssumption` and `IdAssumption` (terminals are finite in number; no id or slot that the server
derives is an id a client sends) and those of the services: workers and processes are finite in number, times and bounds are
naturals, the least time of a name is positive; the list of a merge names tasks, each once, and the stack has room for
that many calls (`MergeAssumption`); of the models a registry may name, the pool's and others are told apart (`RoutingAssumption`); a ceiling is a
positive number of tokens and a value that is missing or no number is no integer (`ConfigAssumption`); the detectors look at no
fewer turns than the repeats they want, 25 against 2 or 3 in the code (`GuidanceAssumption`); compaction keeps one last message at
least and anchors one failure: `adaptive-compaction-policy.ts` adds two or more to the former and takes 2 to 4 of the latter (`HistoryAssumption`).
Three theorems ask for more, and say it in their statement: `UntriedOnly` and `MessageChangesToUntried` that no route names
a model twice, `MovesAreSound` that nothing fails, crashes or is resumed, as its run does. `EndsAreTrue` has that as a
condition on the state.

*Session loop.* None of the properties is inductive. `IndInv` adds to the types where `k` and the
site agree (`ControlOK`), the agreement of lists in memory, in the document and in what each
client has read (`DocsSound`: a canceller writes back what it read, so what it read has to be
sound too), and the version gap (`VersionInv`: the stored version is at most one ahead of memory,
and what a client read is no newer than what is stored). The lemmas at the head of `SessionLoop_proofs` say that each
mutation keeps a session a session and its lists in agreement; the step proof cites them action by
action. `ToolTurnsFail` needs its own invariant: at the site of the refused move the session is in
Waiting Tool. So does `WithinBudget`: every checkpoint, wherever it is kept, was taken with room for one more attempt,
so a restore gives that room back (`BudgetInv`). `ResumesLittle` rests on `ResumeInv`: a final state is kept only at the sites that
end a run, and whatever can be restored of a session that had asked the model is in a state from which the table
refuses Initializing. `EndsAreTrue` and `MovesAreSound` need what no single mutation shows: which state, status and task statuses
go with each call the runtime is about to make (`StateInv`, `WorkInv`), and that COMPLETED is set only where the work was done
(`EndInv`). One failed save breaks them, hence `Undisturbed` in front.

*Subagent pool.* `SlotsRespected` needs that the queue lists exactly the executions that wait, each
once, and that the counter is at least the number of holders: the leak makes it more, never less.
`Refinement` adds that each task is in one place and that what was started has all it
depends on (`PlaceInv`); then each action is a step of `TaskExecution` or changes no phase. The
skip of a task is the one step that needs an argument: `SkipRest` finds nothing ready while
nothing is under way, which is exactly when the abstract specification allows it.
`OutcomesJustified` adds that results are only ever added (`ResultsGrow`): what could not succeed when a task was
skipped never will, and a task completed stays so, whoever writes its status.

*Key pool.* A call is made with a key only if its hash has the key's value, and the id `none` never gets one:
no command in any queue writes it. `ComesBackForAReason` needs that each command waiting in a queue restores only for a reason
that was there when it was decided (`SoundCommand` in `KeysInv`); the step proof goes command by command, as
`Send` applies them.

*Retry engine.* `BudgetKept` is not inductive: `Paid` says that the calls made are at most the attempts spent and the
free retry, which counts once. `UntriedOnly` needs `InLine`: no fallback from `next` on is the model of the moment or was found overloaded, which
fails after a glitch and on routes that name a model twice, hence the hypothesis.

*Stream.* The generator is ahead of its client by the events in `out`. So `StreamInv` speaks of the client as it will be once
it has heard them: there is a sequence of states from the client of now, one for each event, on which every event is allowed by
`ClientProtocol` (`Told`), and its last state agrees with what the transformer takes it for (`Agrees`: its open block and index, whether it saw a
tool, how it ended). Putting out an event prolongs that sequence, delivering one takes its first step, and that step is the one
of the refinement; `EndsTruly` reads the last state. `RequestInv` carries the engine's invariant over to the requests of a message; the routes made
up for retries leave out the models the last request took, so they name none twice if the configured ones do not (`Others`).

*Orchestration.* The end of a plan is reached through `StillMarks`: a task that is not COMPLETED, and whose mark was not lost, has a
request at work on the plan that has yet to mark it, so when all have finished every such task is marked. `UnearnedOnlyAtClose` needs that
a plan read as closed is closed (`ReadsAreOld`); otherwise a write that is left out could leave it open. That a closed plan has an output,
whatever failed, is `OutputInv`: COMPLETED is written only over what was read as merged.

*Context memory.* `OneCompactionAtATime` needs that whoever compacts is the first of those in line for its id. `MemoryStays`
follows each summary and state from the request that wrote it to the one that is told it (`Owned`); that ids derived in two workspaces
differ is `deriveHardSessionId`, that none is an explicit id is `IdAssumption`. Of an id that two workspaces use the binding decides, and
`Judged` says that it still does when the request comes to look: a binding that is there is never changed, so who was approved under
one is of the workspace it names, as far as both are known.

*Services.* `OverlapsAreCounted` counts the workers beside the holder: only recovery lets the
number grow. `BlindWritesNothing`: a process whose view is blind has a disabled client, for good. `TwinsOnly` relates the
cursor of a reader to the numbers the loop and a cancellation still have to give, and needs that of one number there are no two events but
the cancellation's or the two of one change (`OneOfANumber`), as that is all a page may cut apart. `StaleForAReason` needs that a registry of a
version is stored before the version is, and what a reader already holds of the two. `NamesOutliveByDelay` keeps the time a
name has left together with the age of its cache. `SearchesTold`: of the providers that found something, the one that is told comes before all
others in their order (`OneIsBest`). `ForeignFillUp` follows each record from who noted it to the stores (`RecordOK`), and counts: the
best of a session's own notes take as many places as were asked for, or all there are, and each note among them that is held twice leaves one.

*Merge.* The visits under way form a path: each waits for the next one (`PathOK`), so a stack deeper than the list is long has a task
twice (pigeonhole) and that task waits for itself. What is sorted comes after what it depends on (`SortedInv`), and a walk that
ends has sorted everything, so that of tasks that wait for each other none could have been first. Whether the merge is valid is computed
from folds over the sorted list; each is a function defined by recursion on its length, which `Iterates` shows to exist.

*Routing.* A chain is led by the first model of its parts that is in the pool (`ChainOf`); the theorem follows by the order of the
heuristics in `getModelMapping`.

*Guidance.* A save may arrive late, out of order or never, and the next request builds on whatever is stored. So the invariant is
about each save, stored or under way (`SaveOK`): if it has missed no turn, its file and its server are what the first `seen` turns of the
log say, which more turns do not change. That a file is told
needs the root besides: a whole save's is the first the log names (part of `SaveOK`), and the guard goes by it. A request whose window reaches back to what its save had seen looks at some turns twice; that comes to
looking at all of them (`FileJoins`, `ServerJoins`), for the file because the later turn is looked at later, for the server because
failed is final. The detectors are proved of any conversation, from what the filter for calls does at its end (`LastCalls`).

*History.* One predicate goes through the whole pipeline. `Kept` says of a list of messages that each result comes right after its
call and each call right before its answer, but for a summary beside them; and that a result is parted from its call at all only after an
emergency cut. It is a matter of two neighbours and the ends (`KeptTwos`), so a list with a summary put between its first and its
last messages is kept if the last part does not begin with a result (`SpliceKeeps`). A cut may begin it with one, at its summary
(`CutKeeps`); compaction does not, whichever of the boundary and the two anchors decides (`StartOfLastPart`): a failure's anchor is the call before
it, which is there because the history is kept. Joining runs over the messages one by one (`JoinStep`): what it has so far is kept but
for the calls of its last content, which are those of the last message or beside a summary. The conversation has three turns at least when it is first cut
(`Overloaded` wants eight contents), hence the lengths of what is cut.

*Limits.* `BudgetsFit` is arithmetic: what was set for the answer, the text's reserve and the budget, case by case.

**Only model-checked.** Liveness (`EveryRequestEnds`, `SettlesUnlessSlotsLeak`, `EveryRequestIsAnswered`,
`EveryCompactionStarts`; `EveryRunSettles` is refuted), which is out of the prover's reach. Every invariant and every other action property that a passing run checks
is stated by a theorem.

## 6. Not modelled

- *Agent runs in MongoDB*: each move is one `findOneAndUpdate` with its guard in the filter; nothing in the application uses the repository.
- *Tools, providers, logging, metrics, authentication, UI*: effects outside, or text. The models take their answers as a
  choice.
- *Text*: schemas, names of tools, wording, patterns, summaries. Where a decision hangs on a text, the module takes
  the classes it tells apart.
- *Of modelled components*: back-off times and the sticky route of the engine; the width of a race, chosen from load; cancelled
  losers' answers; expiry of orchestration records; the registry of background tasks; edit recovery and failure memory.

## 7. Plan

Done: the session loop, the pool, the key pool, the engine and the stream, orchestration, context memory, conversation and the
services, with the proofs above. Left:

- The expiry of orchestration records, and resuming a session whose loop is still running.
- `EndsAreTrue` past the first fault: which single failures leave the stored end true.
