# Formal models of the automaton and the Nanobot

TLA+ models of the repository's two programs: the `automaton` runtime
(`src/automaton/src`, TypeScript), an agent process that wakes, thinks, spawns
children, gives them work and pays them, with everything it must not forget in
one SQLite database; and the parts of Nanobot (`src/nanobot/nanobot`, Python)
that run jobs and keep conversations. Paths below are relative to
`src/automaton/src` unless they start with `src/`.

1. [Inventory](#1-inventory)
2. [Modules](#2-modules)
3. [Runs](#3-runs)
4. [Proofs](#4-proofs)
5. [What the code does not do as documented](#5-what-the-code-does-not-do-as-documented)
6. [Not modelled](#6-not-modelled)
7. [Plan](#7-plan)

## 1. Inventory

| Component | State it keeps | Operations | Talks to |
|---|---|---|---|
| Task graph, `orchestration/task-graph.ts` | tables `goals`, `task_graph` | create, decompose, assign, complete, fail, prune | called by everyone below |
| Orchestrator, `orchestration/orchestrator.ts` | kv row `orchestrator.state` (phase, goal, replan count); results collected in a tick | `tick()`, one phase handler per call | task graph, tracker, funding, messaging, inference |
| Local workers, `orchestration/local-worker.ts` | a map of running promises, in memory | `spawn`; a worker completes or fails its task | task graph, inference |
| Colony messaging, `orchestration/messaging.ts` | table `inbox_messages` | `send`, `processInbox` | children, agent loop |
| Agent tracker, funding, `orchestration/simple-tracker.ts` | table `children` | `getIdle`, `register`, `updateStatus`, transfers | task graph rows |
| Planner, plan review, `orchestration/planner.ts`, `plan-mode.ts` | none that the orchestrator uses | plan, replan, validate, review | inference |
| Agent tools, `agent/tools.ts` | none | `create_goal`, `cancel_goal`, `complete_task`, `transfer_credits`, `sleep` and the others | all tables |
| Colony health, `orchestration/health-monitor.ts`, `heartbeat/tasks.ts` | none; reads and rewrites `task_graph`, `children` | check, heal: fund, restart, reassign, stop; cull idle agents | tracker, messaging |
| Heartbeat, `heartbeat/` | tables `heartbeat_schedule`, `heartbeat_history`, `wake_events`; tick in progress | tick, lease, run with time-out, retry | every periodic task |
| Agent loop, `agent/loop.ts`, `index.ts` | agent state, `sleep_until`, claimed inbox rows | wake, claim, tick, infer, run tools, persist, sleep | all of the above |
| Policy and spending, `agent/policy-engine.ts`, `agent/spend-tracker.ts`, `conway/topup.ts` | table `spend_tracking`, cool-downs in kv | check a tool call, record a transfer, top up | agent tools, heartbeat, start-up |
| Inference, `inference/`, `conway/http-client.ts` | costs of the hour, circuit breakers, disabled providers | route, fall back, retry, account | HTTP |
| Replication, `replication/` | tables `children`, `child_lifecycle_events`, sandboxes at the service | spawn, transition, probe, prune, delete | Conway sandboxes |
| Freelance interventions, `freelance/` | table `manual_interventions`, waiting promises, timers | ask, await, answer, time out | a human, project rows |
| Inter-agent services, `interagent/` | leases, retries, dead letters, budgets, connections | one stand-alone class each | nobody yet |
| Nanobot cron, `src/nanobot/nanobot/cron` | jobs in memory and in `jobs.json`, the timer task | add, remove, run, re-arm | agent turns, command line |
| Nanobot sessions, `src/nanobot/nanobot/agent`, `session` | messages of a session and the place up to which they are consolidated | turn, background consolidation, `/new` | model, `HISTORY.md` |

The rest (identity, chain registry, memory, skills, soul, self-modification,
setup, observability, ANP, channels, command lines) is I/O, text and
single-statement writes. `PROJECT.json` lists every component with its files.

### Interaction and what is hard about it

One Node process (or one asyncio loop) runs one thing at a time, so a stretch of
code without `await` is atomic as far as other code of the process can see. What
makes the system hard is what happens at the awaits, and that each SQL statement
or transaction commits by itself:

* While a tick waits for an inference, a spawn or a transfer, local workers
  finish and write the task tables the tick has read.
* Between two ticks the agent's tools create and cancel goals and complete
  tasks; the orchestrator resumes from a phase it saved before.
* Children answer through a table; an answer may come when its task is
  completed, cancelled, failed or assigned to somebody else. The agent loop
  consumes the same table.
* A failure is handled while other results of the same batch wait.
* The first tick of the heartbeat and those of its timer are unrelated calls, and
  a periodic task that has timed out goes on beside whatever comes next.
* A limit is checked before a call and charged after it, in another hour perhaps;
  the answer of the service may be lost when the money has moved.
* One fact is kept twice (a child's status and its last event, a provider's
  breaker and its entry in the registry, a job in memory and in the file), and
  the copies are written at different moments by different writers.
* Somebody waits for an answer that a human, a timer and a periodic check race
  to give.
* A timer task is cancelled by those it runs.
* The process may be killed between any two statements. Memory is gone then, the
  tables stay.

Per component, correctness means:

* *Task graph*: no lost unblock, no cycle over several plans, no work on missing
  inputs, a goal complete exactly over completed work, results are final, and a
  graph without failures can go on.
* *Orchestrator*: it performs only legal operations of the graph at the moment
  it performs them; its saved phase fits the tables; a goal is planned once and
  replanned a bounded number of times; a task has one executor; a goal ends.
* *Heartbeat*: one run of a task at a time, each due task eventually, retries
  bounded, nothing kept locked by a crash, no wake request lost.
* *Agent loop*: an inbox row is shown to the agent, a bounded number of times, and
  never lost.
* *Spending*: caps hold across windows and lost answers; purchases made on a right balance
  do not pile up.
* *Colony*: no sandbox without a row that names it, no more children than the
  limit.
* *Inference*: budgets hold, the two books about providers agree, circuits close,
  calls end.
* *Interventions*: an answer in time stands, everyone waiting is released, nothing
  that can be settled stays open.
* *Nanobot*: a removed job is silent, a due one runs, a result is delivered once;
  a message is archived once.

## 2. Modules

```
TaskGraph            the two tables and their operations
 |- MCTaskGraph      small instance
 |- TaskGraphProofs  theorems
 `- Orchestrator     Graph == INSTANCE TaskGraph WITH ...: the tick and everyone around it
     |- MCOrchestrator
     `- OrchestratorProofs   theorems, with GraphProofs == INSTANCE TaskGraphProofs WITH ...
HeartbeatScheduler   schedule, leases and ticks; the sleep and waking of the agent
 |- MCHeartbeatScheduler
 `- HeartbeatProofs  theorems
AgentLoop            turns, the inbox and its two consumers, the poller
 |- MCAgentLoop
 `- AgentLoopProofs  theorems
Spending             financial rules, the record of transfers, automatic top-ups
 |- MCSpending
 `- SpendingProofs   theorems
Colony               children: replication, tracker, health monitor, optimiser
 |- MCColony
 `- ColonyProofs     theorems
Inference            HTTP client, router budget, unified client and registry
 `- MCInference
Interventions        requests to a human, their waiters and time-outs
 `- MCInterventions
Inference, Interventions
 `- ServicesProofs   theorems about each of the two
NanobotCron, NanobotSession
 |- MCNanobot        both, each explored with the other at rest
 `- NanobotProofs    theorems about each of the two
```

### TaskGraph

The rows of `goals` and `task_graph`, one variable per column that decides
anything: `goalStatus`, `status`, `goalOf`, `deps`, `assignedTo`, `retryCount`.
Titles, priorities, costs, times and results are left out. An id is "unused"
before its row exists and "pruned" after it was deleted; ids (ULIDs) are never
reused.

Each operation of `task-graph.ts` is one transaction and one action; what the
transaction does after its main statement (unblocking, blocking of dependents,
refresh of the goal) is part of the action, evaluated on the row values its
earlier statements wrote. An operation that throws changes nothing, so its
throwing branch is the negation of its guard. `failTask` is two actions, one per
branch. `cancel_goal`, the reset that precedes a replan and `updateGoalStatus`
write the tables from outside `task-graph.ts` and are actions as well.

`detectCycles` is modelled by what its depth-first search decides: there is a
cycle iff some non-empty set of tasks has no member without an edge into the
set.

Taken alone, the module lets any caller do anything the operations allow, in any
order. That makes it the abstract specification of whoever uses the tables:
`Orchestrator` is shown to implement it.

### Orchestrator

`tick` is the running call of `tick()`: `pc` says at which await or between
which two statements it is, `mem` is the state it loaded (and will return),
`todo`, `task`, `agent`, `results` are the locals of the executing phase. `kv`
is the saved state. `pc` is "none" between two calls.

| Code | Actions |
|---|---|
| `handleIdlePhase` | `TickIdle` |
| `handleClassifyingPhase` | `TickClassifying`, await, `Classified` |
| `handlePlanningPhase` | `TickPlanning`, await, `Planned` |
| `handlePlanReviewPhase` | `TickPlanReview` |
| `handleExecutingPhase` | `TickExecuting`, per ready task `Match`, await, `Assign`, `Dispatch`, then `CollectResults`, per result `ApplyResult`, at last `Evaluate` |
| `handleFailure` | `HandleFailure` within `Assign`, `Dispatch`, `ApplyResult`; `Report` for its second half |
| `handleReplanningPhase` | `TickReplanning`, await, `ResetTasks`, `ReopenGoal`, `Replanned` |
| `handleCompletePhase`, `handleFailedPhase` | `TickComplete`, `TickFailed` |
| the catch of `tick()`, `saveState` | `Catch`, `SaveState` |
| the tools | `CreateGoal`, `CancelGoal`, `ResolveTask` |
| `LocalWorkerPool` | a spawn within `Match`, `WorkerEnds` |
| a child | `ReadOrder`, `Answer` (external) |
| a kill and a start | `Restart` |

`Yielded` holds at the awaits: only there may a worker end. Steps of the tick at
the places in `Unbroken` follow one another without one; they are steps of their
own because a restart may fall between the statements. The tools need `pc` to be
"none", since the agent loop awaits the tick before it runs the turn.

Choices the model leaves open, because they depend on data that is left out:
which active goal (when the saved one is not active), whether a goal is planned
or done in one step, which plan, which idle agent, in which order ready tasks
and results are taken, and whether a spawn gives a sandbox or a local worker. A
plan is any non-empty acyclic set of new tasks that depend on one another, as
`validatePlannerOutput` guarantees; the single task that stands in for a failed
inference is one of them.

`Incidents` selects what may go wrong: goals are cancelled, tasks resolved by the
agent, spawns refused, orders not delivered (funding or sending fails), the
process killed.

### HeartbeatScheduler

One process at a time over the rows of `heartbeat_schedule`. Of a row remain
whether the task is `due` (its cron expression has an instant since its last
run), its `retry` (`next_run_at`) and its `lease`; of `heartbeat_history` the
`failures` in a row; of `wake_events` whether one is not consumed. In memory are
`ticking` (`tickInProgress`), one `call` of `tick()` for the start and one for the
timer, the `run` (call of `executeTask`) of each of them and of `forceRun`, and
the `late` bodies. `Implemented` are the tasks whose name the task map has a function
for: an entry the user adds to `heartbeat.yml`, or a row a migration took over, is
seeded, listed and skipped in every tick like any other row without one.

| Code | Actions |
|---|---|
| seeding, `start()` and the first half of its tick | `Start` (`SeedRows`) |
| `shutdown`, or a kill | `Exit` |
| `tick()`, to the await of the balances | `TimerTick` (an overlapping call returns, a stutter) |
| `getDueTasks` | `ListDueTasks` |
| `executeTask`, to the await of the race | `ExecuteNext`, `SkipNext` (no function, or no lease), `ForceRun` |
| `recordSuccess`, wake events | `Succeeds` |
| `recordFailure`, `scheduleRetry` | `Fails`, `TimesOut` (leaves a late body) |
| `releaseTaskLease` in the finally block | `Release` |
| the end of `tick()` | `TickEnds` |
| the main loop of `index.ts`, the drain in `loop.ts` | `AgentSleeps`, `AgentWakes`, `SleepEnds`, `AgentStarts` |

Leases need time, and dates. Time is counted in half minutes, the largest unit
in which the 30 s of a run and the 60 s of a lease are whole. `TimePasses` takes
one unit from every lease and from the day, and waits while a timer is due: a
race is over at the latest when its time-out fires. The lease helpers compare
`lease_expires_at`, an ISO text with a `T`, with `datetime('now')`, which has a
space there, so that a lease counts as expired exactly when the UTC day of its
expiry is over; `getDueTasks` compares the same column as a date.

### AgentLoop

`loop` is the running call of `runAgentLoop()`: `pc` is the await it stands at,
the other fields are its locals (`pendingInput`, `claimedMessages`, the counters
of errors, idle and repeated turns). The rows of `inbox_messages` have `status`
and `claims` (`retry_count`); `routed` are those with `processed_at` set, which
is all that `processInbox` writes.

| Code | Actions |
|---|---|
| start of `runAgentLoop()`, wake-up input | `StartLoop`, `WakeUp` |
| `sleep_until`, `claimInboxMessages` | `StaySleeping`, `BeginTurn` |
| balances, `orchestrator.tick()` with `processInbox` | `ReadBalance`, `OrchestratorTick` |
| inference | `AskModel`, `ModelAnswers` |
| tool calls, the end of the turn in one transaction, loop detection | `SleepTool`, `EndTurn` (`Acknowledged`, `Detected`, `IdleTurns`) |
| the catch of a turn | `TurnFails` |
| `index.ts` around it | `WakeOrTimeUp` |
| `check_social_inbox` | `Poll`, `PollCutShort` |
| a kill | `Exit`, `PollCutShort` |

A row that a killed process had claimed, or that the poll had not inserted yet,
is lost to the loop: the ghost `orphans` says which, so that the properties name
the loss instead of hiding it.

### Spending

One tool call at a time (`call`: its place, tool and amount) against the windows of
`spend_tracking` (`hourSpent`, `daySpent`) and the balance at the service
(`credits`). `moved` and `unrecorded` are ghosts: what the service has really
moved in the day, and the part whose answer was lost.

A buyer of credits decides on what it reads (`ReadsLow`), which need not be the balance:
the start and the heartbeat take a failed reading for 0, and the loop falls back on the
last balance it could read (`lowCached`). A purchase decided on a right balance is in
`buying`, one on a wrong balance in `blind`, and one whose request ended without an answer,
or whose process was killed, may still be carried out (`late`). The ghost `excess` counts
the packs that blind and late payments have bought since the balance was last below the
threshold.

| Code | Actions |
|---|---|
| `executeTool`, the rules of `financial.ts` in the engine's order | `Deny`, `CallTransfer`, `CallFundChild` (`Allowed`) |
| `transfer_credits`, `fund_child` | `SelfPreservation`, `Move`, `Refused`, `Record`, `AnswerLost` |
| the turn | `EndTurn` |
| `getFinancialState()` of the loop | `LoopReads` |
| `topup.ts` at the start, in the loop and in `check_usdc_balance` | `DecideToBuy` (`MayBuy`), `Buy`, `BuyFails`, `LatePayment`, `CooldownEnds` |
| clocks and other costs | `HourEnds`, `DayEnds`, `OtherSpending`, `Killed` |

### Colony

A child is known by two records that are written apart: `event`, the last row of
`child_lifecycle_events`, which validates transitions, and `status`, the column of
`children`. Four calls may be under way: one of the `agent` (a spawn or a tool),
one `prune` each of agent and heartbeat, one `probe` and one `heal`. Yielding is
as in `Orchestrator`: what has no await in it is one step.

| Code | Actions |
|---|---|
| `spawnChild()` | `Spawn`, `SandboxCreated`, `RuntimeInstalled`, `WalletVerified`, `SpawnThrows`, `SpawnUndone` |
| `fund_child`, `start_child` | `FundChild`, `Funded`, `StartChild`, `Started`, `ToolThrows` |
| `pruneDeadChildren()`, `cleanup()` | `PruneBegins`, `PruneNext`, `SandboxDeleted` |
| `check_child_health` | `ProbeBegins`, `ProbeEnds` |
| `checkAll()`, `autoHeal()` | `CheckAll`, `StopAgent`, `FundAgent`, `RestartAndReassign` |
| `agent_pool_optimize` | `Cull` |
| tracker and task rows | `Assign`, `TaskEnds` |

A prune and a heal hold the set of rows and reports they still have to treat, and
take from it as the code's arrays are ordered: the oldest row first (`IsNext`), the
report of the newest row first (`IsWorkedOff`), since `getChildren` lists the newest
first.

The ghost `blamed` holds sandboxes that an answer of the service, lost or bad, or a
stop without an event let go.

### Inference

Two ways to a model that share nothing but the process: the turn's, through
`InferenceRouter` and the `ResilientHttpClient` (`failures`, `open`, one `req` per
caller, `hourCost`), and that of planner and orchestrator through
`UnifiedInferenceClient` and `ProviderRegistry` (`breaker`, `disabled`, `chat`). The
agent loop does one of them at a time; workers use the HTTP client beside it.

| Code | Actions |
|---|---|
| `route()`, `checkBudget()` | `Route` |
| a worker's inference | `AskAsWorker` |
| `request()` with its retries | `Send`, `Fail`, `Resend`, `Respond` |
| `chat()` over `resolveCandidates()` | `StartChat`, `TryNext`, `Answered`, `FailTransient`, `FailHard`, `Wake` |
| the ends of periods | `Tick`, `HourEnds`, `PeriodEnds` |

### Interventions

`row` is `manual_interventions`; `entry` is `pendingRequests`, `waiter` the promise of
each `awaitResponse()`; `todo` are the rows a `checkTimeouts()` has still to handle, and
`call` is the call of `handleTimeout()` that a timer or a `checkTimeouts()` has made: at
its import, or at the action it awaits (`acting`), after which it writes the row without
looking again. Calls that one import releases may pass these places in between each other;
everything else waits until none is `acting` (`Quiet`), because an action awaits nothing
but promises that are resolved already. `checkTimeouts()` may be called while an
earlier call of it still awaits (`Sweeps`). A project id that a report has made up is in
`Unknown`: an action that cancels it throws (`Throws`), and the row stays pending. The
ghosts `answered` and `timedOut` say which rows a human has decided in time, and in which
a time-out has been recorded.

| Code | Actions |
|---|---|
| `createRequest`, `handleErrorReport`, `handleBlockers` | the same names, each an `Insert` |
| `awaitResponse`, `recordResponse` | the same names |
| the timer of a promise | `TimerFires` |
| `checkTimeouts`, `handleTimeout` | the same names |
| `executeTimeoutAction` up to its await, and from there on | `executeTimeoutAction` (`executeAction`), `MarkTimeout` |
| `stop`, a kill | `Stop`, `Killed` (also between the action and its row) |

### NanobotCron and NanobotSession

`NanobotCron`: the store in memory (`jobs`), in `jobs.json` (`file`), the timer task
(`timer`) and what it is doing (`tick`). A time is kept as its relation to the clock.

| Code (`src/nanobot/nanobot`) | Actions |
|---|---|
| `agent/tools/cron.py` in another turn, in the job's own turn, in its last iteration | `ToolEdits`, `JobEdits`, `JobEditsLast` |
| `cli/commands.py` | `CliEdits` |
| `_on_timer`, `_execute_job`, `_arm_timer` | `TimerFires`, `ExecuteJob`, `JobEnds`, `TickEnds` |
| the clock, a kill, `start()` | `TimeComes`, `Kill`, `Start` |

`NanobotSession`: `session` and its copy on `disk`, the `turn` under way, the
`background` consolidation, the `lock` they share and the mark `consolidating`.

| Code (`src/nanobot/nanobot`) | Actions |
|---|---|
| `_process_message`, system messages, `_save_turn` | `MessageArrives`, `SystemMessageArrives`, `TurnEnds` |
| `_consolidate_and_unlock`, `consolidate` | `BackgroundEnds` (`Write`) |
| `/new` | `NewArrives`, `NewHasLock`, `NewEnds` (`Cleared`) |
| a kill | `Restarted` |

They share no state, so `MCNanobot` lets one move while the other is at rest
(`part`), which adds their state spaces instead of multiplying them.

## 3. Runs

| Run | Instance | Checks |
|---|---|---|
| `task_graph` | 2 goals, 3 tasks, 1 agent, 1 retry | `TypeOK`, `DepsAcyclic`, `NoOrphans`, `BlockedHasReason`, `BusyHasInputs`, `FailureBlocksDependents`, `AssignmentMatchesStatus`, `CompletedGoalIsDone`, `GoalCanProgress`, `ResultsAreFinal` |
| `orchestrator` | 2 goals, 3 tasks, 1 worker, 1 child, 1 retry, 1 replan, plans of up to 2, no crash | `PlannedOnce`, `ImplementsTaskGraph` |
| `orchestrator_restart` | the same with 1 goal and crashes | `OneExecutor`, `PhaseMatchesTables` |
| `orchestrator_live` | 1 goal, 3 tasks, 2 workers, 1 child, no cancelling | `GoalSettles` |
| `heartbeat` | 1 configured task, 1 legacy row, 1 entry without a function, no retry, run 1, lease 2, day 3 units; restarts, runs of the second forced | `TypeOK`, `LeaseMatchesRun`, `RunsWhenDue`, `WakeNotLost`, `DueTaskRuns` |
| `agent_loop` | 1 message, 2 claims, batch 1, limits of errors and idle turns 2, of repeated turns 3, 1 kill | `RowsAccountedFor`, `ReadsWithinClaims`, `MessageSettles` |
| `spending` | amounts 1 to 3, single 2, hour 3, day 4, 2 transfers and 3 calls a turn, packs of 1 below 3, USDC for 2 | `RecordedWithinCaps`, `MovedWithinCap`, `AutoTopUpsBounded` |
| `colony` | 3 rows, 2 children, 1 dead row kept, 1 task, 1 retry; creations unanswered, deletions failing | `SandboxesHaveRows`, `ChildrenWithinLimit` |
| `inference` | 1 worker, threshold 3, 2 retries, period 2, 2 providers (one without a fast model), budget 4 an hour | `BreakersAgree`, `HourWithinBudget`, `CircuitCloses`, `CallsEnd` |
| `interventions` | 2 requests, 1 project and 1 without a row, 2 waiters, 1 periodic check, 1 stop or kill | `AnswerStands`, `WaitersReleased`, `OverdueSettles` |
| `nanobot` | a recurring job, a one-shot job that is deleted and one that is kept, 4 edits, 1 kill; window 4, turns of up to 3, 12 messages, 1 restart | `RemovedStaysSilent`, `DeliveredOncePerInstant`, `ArchivedOnce`, `DueJobRuns`, `NewGoesOn` |
| `one_shot_runs_once` | the same | see section 5 |

What the newer runs show, beyond the sentence each property carries in its module:

* `heartbeat`: neither hanging bodies nor a row that is never run, nor the lease of a
  process that is gone, keeps another due task from running.
* `agent_loop`: no way out of a turn forgets a claimed row, though a second consumer
  stamps the same rows and an input survives a failure before the model was asked;
  and an agent that goes on using tools after it was woken processes or gives up
  every message, unless a kill left it behind. An agent that answers each wake-up
  with text or with `sleep` never claims one: see section 5.
* `spending`: a check in one hour and a record in the next cannot break either cap,
  because windows only ever empty between them; what the service really moves
  exceeds the day's cap by lost answers only; three buyers with a cool-down each
  stay within three packs of the threshold but for packs bought on a wrong balance
  or by a payment given up, one pack for each.
* `colony`: rows are deleted by two pruning calls while spawns, probes and the
  monitor write the same columns, and no live sandbox is left without a row,
  but for those a bad or lost answer or a stop without an event let go (`blamed`).
* `inference`: an attempt under way may reopen a circuit, but it closes; the hour is
  overrun by at most one call's surprise.
* `interventions`: a human who answers in time has the last word against any timer
  and check under way; two of these may both record the time-out of a row nobody
  answered; a row whose action throws stays open and holds up no other.
* `nanobot`: cancelling the timer task mid-job neither revives a removed job nor
  doubles a result within one due time.

Every property of a passing run also fails when one definition is changed the way
a slip in the code would change it; those variants stand next to the original
and end in `_Bug`.

*Bounds.* Three tasks are enough for a chain, a fork, a join, a plan followed by
a second plan that depends on the first (task graph), and a plan of two with a
replacement of one (orchestrator). Two goals let one be replanned while another
is created. One retry separates "may retry" from "may not". One replan separates
the two outcomes of a failure. One worker and one child are what `OneExecutor`
needs, since it compares executors of different kinds and an executor with its
own past; the liveness run has two workers, so that one may be stale and one
alive. All sets are symmetric and declared so, except under liveness, where
symmetry would be unsound. Of the heartbeat's three tasks two are in the
configuration and one is not, because a start treats them differently, and one has
no function; two that can run are what a tick needs to be in the middle of its list. A day of three units is
the shortest in which a lease may end before midnight or after it, and a real
day only makes the wait for it longer. With the one retry that is seeded nothing is ever
retried, because the failure just recorded counts (`MayRetry`); none at all is the same
behaviour with fewer histories to tell apart. Retries proper are in the theorems.

The inbox properties speak of one row each, and rows interact through `Batch` only,
so one message with two claims meets every interleaving of the two consumers;
the theorems hold for any number. The limit of repeated turns is that of the code: a
warning is an input, and with a limit of two the two kinds of warning could take
turns and leave no turn that claims. The caps of `spending` lie so that each rule
can be the first to deny, that two transfers fill an hour and not a day, and that
the single limit alone does not imply the others. USDC for two packs is the
least with which blind payments lead above three packs over the threshold, so that
the bound on top-ups needs its exception. Three rows of `colony` are a
child with the orchestrator's second row and one more, which with a limit of two
reaches the limit and, with one dead row kept, the pruning. The HTTP client's
threshold is one more than the retries of a request, as in the code (5 and 3
there), so that the circuit opens under a request of somebody else; a period of
two ticks may be pushed out in its middle. Two requests and two waiters let a
second waiter replace the first and a timer clear another's entry; two timers and a
check are three calls at one row. The jobs are one of each kind that
`_execute_job` tells apart; four edits add all three and remove one. Twelve messages
give two windows of four, one in the background and one at `/new`, with turns
between.

*Deadlock* is checked for the heartbeat, the agent loop and inference, which never
stop. It is not for the others, whose instances may stop: the task graph when all
goals are pruned, the orchestrator when a plan needs an id and the bound on
`Tasks` or `Workers` has none left, the colony when its rows are used up, spending
when its day is over with everything spent, interventions when all are decided,
Nanobot when its edits are. `GoalSettles` names that case (`OutOfIds`) instead of
hiding it.

*Fairness* (`FairSpec`, or part of `Spec`).

* *Orchestrator*. The agent loop calls `tick()` in each of its turns and every await
  of a tick ends: inference and HTTP calls have time-outs (`WF Step`). A local
  worker is limited in turns and in time; its continuation is queued and runs at
  some await, which a tick repeatedly takes away from it (`SF WorkerEnds`). That a
  child answers an order it has read is an assumption on the child (`WF Answer`),
  and nothing is assumed of a child that has not read its order. Neither tools
  nor restarts are fair.
* *Heartbeat*. Timers fire, the calls a tick awaits return (they have time-outs), the
  `finally` block runs, and time goes by: `SF TimePasses`, since it is held up again
  and again by steps that take none. Not fair are the bodies of tasks, which may
  hang, the agent, and cron instants. `DueTaskRuns` therefore rests on the race with
  the time-out, on `finally`, and for a lease left by a killed process on midnight.
* *Agent loop*. `WF Turn`: timers fire and calls are answered or time out, nothing else.
  What the model answers is not fair. `MessageSettles` is therefore conditional: it is about
  runs in which the agent now and then ends a turn with tools other than `sleep`
  (`AgentKeepsWorking`), because only the turn after such a one claims messages: the first
  turn after each start has the wake-up as its input and claims nothing. In runs without
  the condition the model simply never reads its mail.
* *Inference*. Each attempt ends at its time-out (`WF Step`), pauses and periods pass
  (`WF ChatStep`, `WF Tick`). What an answer is stays open, and so does whether
  anybody asks again.
* *Interventions*. Deadlines come, timers fire, imports and actions end, and the periodic
  check runs; no human has to answer. `OverdueSettles` leaves out rows whose action throws,
  which stay open (section 5).
* *Nanobot*. Sleeps end, and so do turns and calls of the model, which are limited in
  iterations and time; nobody has to edit or write anything.

`GoalSettles` says that the only way for a goal to stay active is a task that is
marked as taken and that nobody executes (`Unattended`). Such tasks exist:
section 5 describes three ways to make one. The property is that everything else
ends: failures, retries, replans, exceptions and late answers.

## 4. Proofs

Every invariant and every action property of the passing runs is a theorem, for
every value of the constants that meets the named assumptions of the modules, and
so is the refinement of `TaskGraph` by `Orchestrator`. `PlannedOnce` is so in the
form the run checks it in, without kills. What stays with TLC are the
liveness properties.

`TaskGraphProofs` proves, for every number of goals, tasks, agents and retries,
all properties that `task_graph` checks:

| Theorem | Property |
|---|---|
| `TypeCorrect` | `TypeOK` |
| `GraphIsAcyclic` | `DepsAcyclic` |
| `ReferencesHold` | `NoOrphans` |
| `NoUnblockLost` | `BlockedHasReason` |
| `InputsAreThere` | `BusyHasInputs` |
| `FailureReaches` | `FailureBlocksDependents` |
| `OwnersAreTrue` | `AssignmentMatchesStatus` |
| `CompletedGoalsAreDone` | `CompletedGoalIsDone` |
| `GraphNeverWedges` | `GoalCanProgress` |
| `ResultsFinal` | `ResultsAreFinal` |

The assumptions are those on the constants: `MaxRetries` is a natural number,
`NoAgent` and `NoGoal` are not an agent or a goal.

The inductive invariant `IInv` is the conjunction of the invariants with
`FreshRows`: an id that was never inserted is depended on by nobody. Without it
the induction fails where a batch is inserted. `detectCycles` looks at the new
batch only; that no cycle runs through old and new tasks holds because no old
task can point to a new id, so a set that closes a cycle would lie in the batch
or, without the batch, in the old graph (step `DepsAcyclic'` of
`DecomposeGoalInv`). `FreshRows` also gives that new tasks start without an
owner. The conjuncts support one another: that a task in progress keeps its
inputs (`BusyHasInputs`) needs that a reset leaves completed tasks alone, and
that a failed task has no dependent in progress (`FailureBlocksDependents`)
needs that such a dependent has its inputs.

Each operation has a lemma `<Operation>Inv` with one step per conjunct;
`RefreshFacts` says once what a refresh of a goal's status may do, which four of
them use. `NextInv` collects them and `InvariantHolds` is the induction.
`GoalCanProgress` is not inductive and follows from `IInv` (`InvImpliesProgress`):
among the open tasks of a goal, acyclicity gives one without an open dependency,
and that one is not blocked, hence ready or busy. `ResultsFinal` is proved step by
step under `IInv`.

`HeartbeatProofs` proves the safety properties of the heartbeat for any tasks,
any time-out, term of a lease and length of a day:

| Theorem | Property |
|---|---|
| `HeartbeatTypes` | `TypeOK` |
| `LeasesExclude` | `LeaseMatchesRun` |
| `TicksRunWhatIsDue` | `RunsWhenDue` |

They rest on `LeaseOutlivesRun`: the time-out is shorter than `LEASE_TTL_MS`,
and that shorter than a day. In the code this holds for the default of 30 s
against 60 s; nothing enforces it for a `timeout_ms` written to the table.

Here `LeaseMatchesRun` is not inductive, because an expired lease may be taken
over: it must be shown that the lease of a task that is running has not expired.
`LeaseCoversRun` says that such a lease and its run age together, so that some of
the lease is left until the time-out; `DatesFit` says that the day of an expiry
is past only when the time of the lease is over, which is what ties the text
comparison to time (`HeldLeaseIsLive` combines the two). `RunShape` and `OneTick`
describe the calls: of the two chains of ticks one at most is past
`tickInProgress`, and it is in its loop while it executes a task. `LeaseFits`
states the invariant for one task; the lemmas `ExecuteFits`, `ReleaseFits` and
`TimePassesFits` treat the three steps that change a lease and a run together.
`TicksRunWhatIsDue` needs `ListedIsDue` besides: what a tick has listed and not
yet executed stays due until it is executed, because the only runs that could
end meanwhile are of a forced task or of the task the tick took off its list.

`AgentLoopProofs` proves, for any finite set of messages, any batch and any limits:

| Theorem | Property |
|---|---|
| `LoopTypes` | `TypeOK` of `AgentLoop` |
| `RowsNeverLost` | `RowsAccountedFor` |
| `ReadsBounded` | `ReadsWithinClaims` |

The assumptions are those of the module: `Messages` is finite (a batch is a set of
given size) and the limits are positive. `ReadsWithinClaims` is not inductive: a
turn that ends adds a read and no claim. `ReadsLeft` counts the reading that a message
is still to get, from the input that waits or from the one at the model, together with
those it got: each claim pays for one. `ClaimedIsShown` says which of the two inputs
holds the claimed rows, so that a turn marks as processed only what the model has seen;
`AbsentUnclaimed` says that a row not yet inserted was never claimed, and `ErrorsLeft`
keeps the counter of errors in its range, which is what `LoopTypes` needs.

`SpendingProofs` proves, for any caps, amounts and prices:

| Theorem | Property |
|---|---|
| `SpendingTypes` | `TypeOK` of `Spending` |
| `CapsHold` | `RecordedWithinCaps` |
| `TransfersCapped` | `MovedWithinCap` |
| `TopUpsBounded` | `AutoTopUpsBounded` |

They rest on `TiersOrdered`: a pack buys something, and the threshold of a top-up lies
above the tiers. No cap is inductive by itself. `CallFits` joins the amount that is
checked and the amount that is recorded: from the check to the record it still fits
into both windows, because calls follow one another and windows only empty.
`MovedAccounted` says that what was moved is what the table has, what was lost with
an answer, and what the call under way has moved and not yet recorded. For
`AutoTopUpsBounded`, `OneEach` says that a buyer with a purchase under way, on a right or a
wrong balance, is in its cool-down: a decision on a right balance is taken below the
threshold and makes at most three packs outstanding, and a payment moves a pack from there
to the balance. A blind or late payment adds one pack to the balance and to `excess`,
unless the balance is still below the threshold with it, where the bound holds anyway.

`OrchestratorProofs` proves, for any goals, tasks, workers, children, limits and any
choice of `Incidents`:

| Theorem | Property |
|---|---|
| `Refinement` | `ImplementsTaskGraph`, that is `Graph!Spec` |
| `TablesCorrect` | the inductive invariant of `TaskGraphProofs`, for the tables of `Orchestrator` |
| `ExecutionNeverWedges` | `GoalCanProgress` of the tables of `Orchestrator` |
| `ResultsStay` | `ResultsAreFinal` of the same |
| `NoTwoExecutors` | `OneExecutor` |
| `PhaseFits` | `PhaseMatchesTables` |
| `PlannedOnlyOnce` | `PlannedOnce`, if `"crash"` is not an incident |
| `TypeCorrect` | `TypeOK` of `Orchestrator` |

The assumptions: limits are natural numbers, plans are not empty, addresses of
workers and children differ from one another and from the sentinels
(`AddressesDistinct`, `SentinelsFresh`). `IInv` contains the invariant of the task
graph, whose preservation is not proved again: each step of the tables is an
operation of `Graph`, and `NextInv` of `TaskGraphProofs`, instantiated, does the rest. What is added says why the operation is legal at that moment:

* `OneToken`. Whoever may come to execute a task holds a token of it: a local worker,
  an order in the table, a child, an answer, a result in the tick's hands. A task has
  one token at most, none while it is blocked or failed, and one while it is `pending`
  only in the gap between the start of a local worker and `assignTask` (`Starting`).
  `OneExecutor` alone is not inductive: an order that waits is nobody's execution yet.
* `TodoReady`, `TaskHeld`. What a tick has read and not used is still so: the tasks in
  `todo` are ready and nobody has them; the task at hand has its inputs, and its row
  says what each place of `pc` allows. The dependencies of a ready task stay satisfied
  because results are final.
* `Fits`, `PhaseOfTick`. The phase fits the tables both as saved and as held by the tick;
  the places at which tasks are inserted hold what is saved.

The lemma `Simulates` is the step of the refinement: a step of `Orchestrator` is a step of `Graph`
or leaves its variables alone. For `PlannedOnlyOnce`, `NotPlannedYet` is added: a goal
to be planned has no tasks, which a kill after `decomposeGoal` and before the save
breaks: a start then plans the goal again, beside the tasks it has.

`HeartbeatProofs` has `WakesAreKept` (`WakeNotLost`) besides: each action but those of
the agent's start and waking keeps a wake event that is there.

`ColonyProofs` proves, for any number of rows and children, any samples and incidents:

| Theorem | Property |
|---|---|
| `NoSandboxLeaks` | `SandboxesHaveRows` |
| `LimitHolds` | `ChildrenWithinLimit` |

Both hold because of the relation between the two records of a child. `RowFits` states it
for one row: the column says what the last event says, or was written by one of the three
who write no event (the tracker's "running", the monitor's "starting" and "stopped"), and
a column "stopped" without its event blames the sandbox. `PrunedFits` says of the rows a
prune still has to delete that they have failed by their events or that their sandbox is
blamed, so that deleting one loses no sandbox that is not deleted first. For the limit,
no child is in its life by its event and counted out by its column; the second row of the
orchestrator's spawn has no event and a spawn for it leaves room (`CallTypes`). `KeptStep`
reduces a step to what it does to one row (`RowKept`), so that each action's lemma
speaks of one row only. An earlier form of the model kept the rows of a prune as a sorted
sequence, of which the provers know nothing; a set and "the oldest of it" say the same.

`ServicesProofs` proves, for any providers, workers, thresholds, budgets, estimates, costs,
requests and waiters:

| Theorem | Property |
|---|---|
| `TwoBooksAgree` | `BreakersAgree` |
| `HourIsBounded` | `HourWithinBudget` |
| `AnswersStand` | `AnswerStands` |

`AskedIsClosed`: a provider is asked while its circuit is closed, so that a failure that
opens it finds its entry in the registry enabled. `RoomForTurn`: from the check of the
budget to the record there is room for the estimate, because only a turn adds to the
hour and one turn runs at a time. `DecidedRows`: a row that was answered in time
or timed out is not open any more, and no call is at the action for one that was answered: a
call that looks at such a row after its import leaves it alone, and an answer does not
come while one is between its action and its write (`Quiet`). The assumption `WorkersNamed` tells the turn from the workers.

`NanobotProofs` proves, for any jobs, edits, kills, windows and lengths:

| Theorem | Property |
|---|---|
| `RemovedIsSilent` | `RemovedStaysSilent` |
| `OneResultPerInstant` | `DeliveredOncePerInstant` |
| `WrittenOnce` | `ArchivedOnce` |

`TakenAreDue`: the jobs that a running timer task has taken and not finished are enabled
and due in the store, because every edit ends that task; this is the same cancelling
that breaks `OneShotRunsOnce`. `DueNotDelivered`: a due job has delivered nothing since
it became due. For sessions, `LockFits` and `PlaceFits` say that whoever writes holds
the lock and begins behind `last_consolidated`, and `WrittenBehind` that all that is
written lies before it, until a kill.

Only model-checked: `GoalSettles`, `DueTaskRuns`, `MessageSettles`, `CircuitCloses`,
`CallsEnd`, `WaitersReleased`, `OverdueSettles`, `DueJobRuns` and `NewGoesOn`. They are
liveness under fairness, which the proof system does not reach.

## 5. What the code does not do as documented

One disagreement has a run of its own:

* `OneShotRunsOnce` ("One-time - runs once at a specific time, then auto-deletes",
  `src/nanobot/nanobot/skills/cron/SKILL.md`): every edit of the jobs re-arms the
  timer by cancelling `_timer_task`, which while jobs run is the task that awaits
  their turns. A one-shot job cut short is neither deleted nor disabled, its time
  is past, and the timer just armed starts it again.

The others were met while reading the code for the models, and no run states the
sentence. The models follow the code in each case that concerns their state.

Task graph and orchestrator:

* "Only 1 goal at a time": a task fails for good, which makes its goal failed;
  `create_goal` accepts a second goal; the replan of the first sets it active again.
* "Local workers receive their task directly at spawn time": the row of a worker that
  has ended stays `running`, `getIdle` returns it, and the next task is assigned to
  an address at which nothing runs.
* "Works for parent-child communication": the tick that inserts an order into
  `inbox_messages` marks it processed when it collects results, because
  `processInbox` does not look at `to_address`. A result that the agent loop has
  acknowledged first is likewise not seen by `processInbox`.
* "will pick this up on the next tick": after `cancel_goal` in the executing phase, no
  task is failed and not all are completed, so the phase never ends and the next
  goal is never started.
* "Stops all execution for this goal": a goal cancelled before its plan was inserted
  gets the plan nevertheless, and becomes active again.

Heartbeat:

* "Acquire lease (60s TTL, prevents double-execution)": the time-out of a task settles
  a race and releases the lease; the body goes on, and the next run starts beside it.
* "Clear any expired leases first": because of the comparison of texts, the lease of a
  killed process is cleared on a later day only. A start resets the leases of
  configured tasks, which hides it for these.
* `daemon.ts` says it seeds `heartbeat_schedule` "from config entries if not already
  present" (line 114) but replaces the rows at every start, with no last run, so that
  tasks run again. `modify_heartbeat` writes `heartbeat_entries`, which the scheduler
  does not read, so the schedule cannot be modified "at runtime", as
  `src/automaton/DOCUMENTATION.md` (line 457) has it.
* `heartbeat.yml` may have entries of the user's own (`heartbeat/config.ts:174`), which are
  seeded like the others. `executeTask` looks up its function by the name of the entry and
  returns without a record when there is none (`scheduler.ts:175`): the task stays due
  and never runs. The field `task` of the entry is not looked at.
* With `maxRetries` 1, as seeded, nothing is retried (`scheduler.ts:218` counts the
  failure just recorded), and a failure without a retry leaves an old `next_run_at`.

Agent loop and spending:

* "Force sleep after N turns with no real work" (`loop.ts:323`): each warning of the loop
  detection is an input, and a turn with an input starts the count anew.
* New messages wake the agent, but the first turn after a start has the
  wake-up as its input and does not claim them (`loop.ts:355`). An agent that answers it with
  text, or calls `sleep`, ends the loop and is woken again without having read them.
* A turn that fails before the model was asked leaves its input pending and returns
  its rows, so a message may be shown twice for one claim.
* Rows claimed by a killed process stay in progress for ever; the branch of `index.ts`
  (line 422) that waits for funding when the agent is dead is not reached, since the
  loop has set the state to sleeping.
* "Only triggers when credits are below threshold AND USDC covers the minimum tier"
  (`conway/topup.ts:78`): a balance that cannot be read counts as 0 at the start
  (`index.ts:332`) and in the heartbeat (`heartbeat/tick-context.ts:50`), and the loop goes by
  the last one it could read (`agent/loop.ts:816`). Credits are bought whatever the balance
  is, by the heartbeat every five minutes for as long as the reads fail
  (`DecideToBuy`, `blind`); `AutoTopUpsBounded` counts these packs as excess.
* The rule `minimum_reserve` never denies. `fund_child` is neither capped nor recorded.

Colony and inference:

* `config.maxChildren` is ignored for a constant of 3. A child is entered twice when the
  orchestrator spawns it. A failed spawn keeps its row with an empty address.
* The health check runs its command in the sandbox of the parent. "stopped" is written to
  the column and never as an event, so a child that was healthy is never cleaned up.
* `last_checked` is UTC and read as local time. `recallCredits` transfers from the parent to
  itself. An agent in an error loop is stopped and its tasks are not reassigned.
* The time-outs of the router never fire, since `conway/inference.ts` ignores the signal. The
  failure counter of the HTTP client is reset by every status that is not retried, though
  `http-client.ts:142` says "truly successful". One circuit stands for all hosts.
* `UnifiedInferenceClient` does not fail over on errors of the network. Workers' inference is
  neither budgeted nor recorded.

Freelance and Nanobot:

* A `dispute_l3` rejects after 72 h, where the detailed design says approve after 168 h; a
  timed-out row is stored as rejected, where the schema has `timeout`.
* A human's answer after a time-out rewrites the row although the project was cancelled. A
  second `awaitResponse` replaces the first, which is told "timeout" whatever the answer.
  A report sent again asks again. Two calls of `handleTimeout` released by one import
  both act and both record the time-out.
* "Automatically handles timeout actions for expired requests"
  (`freelance/intervention.ts:292`): the action of a time-out throws when the project has no
  row (`freelance/repository.ts:282`), which a report may name. The error is dropped, and the
  row stays pending and is tried in vain in every round (`Throws`, which `OverdueSettles`
  excepts).
* The action of a time-out and its row are two writes (`intervention-timeout.ts:199`); the
  design marks the row first, the code acts first.
* `last_consolidated` is set from the length of the session after the model has answered
  (`memory.py:145`), so messages of a turn that ended meanwhile never reach the memory.
* One-shot jobs that were due while the gateway was down never run and stay in the list.
  Edits by the command line are overwritten by the gateway's next save. With
  `memory_window` 1 nothing is consolidated.

## 6. Not modelled

* *In the modelled components*: texts and prompts; priorities and roles; the turns
  of a local worker (only how it ends); retries inside `send`; the rejection of
  malformed messages; message types other than orders and results; `cancel_goal` as
  two statements; `todo.md`; a batch that asks for tasks which are final, assigned or
  running from the start (`task-graph.ts:532`), as no caller in the runtime does. Plan review is in mode `auto`, the only one the
  orchestrator passes, and approves. `pruneCompletedGoals` has no caller in the
  orchestrator and is in `TaskGraph` only. `LocalWorkerPool.shutdown` has no caller.
* *Heartbeat*: the bodies of most tasks, errors of the database, two processes on one
  database, table `heartbeat_entries`, `interval_ms` and `tier_minimum` (null and
  `dead` in every row the daemon writes), the reading of `heartbeat.yml`.
* *Compositions*: `Orchestrator`, `AgentLoop` and `Colony` share tables. Each module has
  the others' writes that reach its own state (`OrchestratorTick` in `AgentLoop`, `Assign`
  and `TaskEnds` in `Colony`), not their whole control. The properties of `Orchestrator`
  are about a colony without the health monitor, whose unguarded writes are in `Colony`.
* *Policy*: rules about the text of a call, rate limits, x402 payments (recorded with
  amount 0) and the tool `topup_credits`, whose amount the model chooses.
* *Interventions*: more than one `checkTimeouts()` at a time is in the module and the
  theorem, for any number; the run has one beside the two timers. Requests without a
  project, for which the action writes nothing.
* *Inference*: the choice of a model, token counts, the session budget.
* *Inter-agent services and transport* (`interagent/`): classes that only tests construct,
  so there is no caller whose interleavings could be modelled. Most write without a
  guard (`updateTaskStatus` takes any state to any other), so that no invariant of their
  own is there to check. One thing is plain from reading: `LeaseManager.markExpired` deletes
  the entry of the task whoever holds it by then, so a lease taken over before the clean-up
  can be taken over again.
* *ANP, identity, registry, skills, soul, self-modification, memory, setup, channels,
  observability, types, command lines*: text, cryptography and I/O with one write per
  operation. They are more than half of the code, and the reason the map covers a small
  share of it.
* *Nanobot*: the bus, sub-agents, the tools of a turn (among them the message tool, one
  object for concurrent turns), channels, providers, a kill in the middle of writing a file.

`PROJECT.json` has the status and the reason of each component.

## 7. Plan

Done: the ten modules above, with proofs about each; every safety property of the runs is a
theorem. What is left, in this order:

1. Facts behind the liveness properties that are themselves safety and can be proved: for
   `GoalSettles` that the replan count only grows until the goal is left
   (`ExecutionNeverWedges` is its other half); for `MessageSettles` that each reading uses up a claim.
2. `Interventions`: that an entry of `pendingRequests` belongs to a waiter that waits.
3. `Inference`: that a retry is never sent without its pause, and that the number of attempts
   of one request is bounded.
