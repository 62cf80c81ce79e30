---------------------------- MODULE Orchestrator ----------------------------
(***************************************************************************)
(* The orchestrator (automaton/src/orchestration/orchestrator.ts) over the *)
(* tables of TaskGraph, together with everyone else who writes them while  *)
(* a tick waits: the local workers (local-worker.ts), the children that    *)
(* answer through the inbox (messaging.ts), the tools the agent calls      *)
(* between two ticks (agent/tools.ts) and a restart of the process.        *)
(*                                                                         *)
(* JavaScript runs one thing at a time: other actors act only while a tick *)
(* is at an await.  The steps of a tick between two awaits run unbroken,   *)
(* but each statement commits on its own, so a restart may fall between    *)
(* them.  The health monitor and the pool optimiser of the heartbeat,      *)
(* which write the same tables, and the agent loop's own reading of the    *)
(* inbox are not part of this module.                                      *)
(*                                                                         *)
(* Definitions whose name ends in _Bug are variants with a bug a change of *)
(* the code could introduce.  No action uses them; checked in place of the *)
(* definition that follows, each violates one of the properties below.     *)
(***************************************************************************)
EXTENDS Integers, FiniteSets

CONSTANTS
  Goals, NoGoal, Tasks, NoAgent, MaxRetries,   \* see TaskGraph
  NoTask,
  Workers,      \* bound: the addresses local://... a spawn can create
  Children,     \* bound: the addresses of sandboxes, existing or to be created
  Self,         \* the address of the agent itself
  MaxReplans,   \* config.maxReplans
  MaxPlan,      \* bound: tasks in one plan
  Incidents     \* which of AllIncidents may happen

AllIncidents == {"cancel", "resolve", "unspawned", "undelivered", "crash"}

ASSUME RetriesNat == MaxRetries \in Nat
ASSUME ReplansNat == MaxReplans \in Nat
ASSUME PlanBound == MaxPlan \in Nat \ {0}
ASSUME IncidentsKnown == Incidents \subseteq AllIncidents
ASSUME AddressesDistinct ==
  /\ Workers \cap Children = {}
  /\ Self \notin Workers \union Children

Agents == Workers \union Children \union {Self}

ASSUME SentinelsFresh ==
  NoGoal \notin Goals /\ NoTask \notin Tasks /\ NoAgent \notin Agents

VARIABLES
  goalStatus, status, goalOf, deps, assignedTo, retryCount,  \* the tables
  kv,          \* the row orchestrator.state of table kv
  tick,        \* the running call of tick(): its place and its locals
  crew,        \* agents with a row running or healthy in table children
  job,         \* the task each live local worker is busy with
  inbox,       \* unprocessed rows of table inbox_messages
  underWay     \* <<child, task>>: orders a child has read and not answered

tables == <<goalStatus, status, goalOf, deps, assignedTo, retryCount>>
vars == <<goalStatus, status, goalOf, deps, assignedTo, retryCount,
          kv, tick, crew, job, inbox, underWay>>

\* The orchestrator keeps its tasks in the tables of TaskGraph, with the agents
\* it knows as those a task may be assigned to.
Graph == INSTANCE TaskGraph WITH
  Agents <- Agents, goalStatus <- goalStatus, status <- status, goalOf <- goalOf,
  deps <- deps, assignedTo <- assignedTo, retryCount <- retryCount

Phases == {"idle", "classifying", "planning", "plan_review", "executing",
           "replanning", "complete", "failed"}

\* DEFAULT_STATE.
DefaultState == [phase |-> "idle", goal |-> NoGoal, replans |-> 0]

NoTick == [pc |-> "none", mem |-> DefaultState, todo |-> {}, task |-> NoTask,
           agent |-> NoAgent, collected |-> FALSE, results |-> {}]

\* Places inside a synchronous stretch of a tick.
Unbroken == {"save", "report", "reopen", "insert"}
Places == Unbroken \union
  {"none", "classify", "plan", "replan", "match", "assign", "dispatch", "apply"}

\* Other code of the process runs only where the tick awaits.
Yielded == tick.pc \notin Unbroken

TasksOf(g) == Graph!TasksOf(status, g)
ActiveGoals == {g \in Goals : goalStatus[g] = "active"}
Unused == {t \in Tasks : status[t] = "unused"}
Idle == {a \in crew : \A t \in Tasks :
           status[t] \in Graph!BusyStatus => assignedTo[t] # a}

Order(c, t) == [type |-> "task_assignment", agent |-> c, task |-> t, ok |-> TRUE]
Result(c, t, ok) == [type |-> "task_result", agent |-> c, task |-> t, ok |-> ok]
Messages == {Order(c, t) : c \in Children, t \in Tasks} \union
            {Result(c, t, ok) : c \in Children, t \in Tasks, ok \in BOOLEAN}

-----------------------------------------------------------------------------
Init ==
  /\ Graph!Init
  /\ kv = DefaultState
  /\ tick = NoTick
  /\ crew \in SUBSET Children
  /\ job = [w \in Workers |-> NoTask]
  /\ inbox = {}
  /\ underWay = {}

(***************************************************************************)
(* One tick.  It loads the state, runs the handler of its phase and saves  *)
(* the state the handler returns; nothing it returns is saved earlier.     *)
(***************************************************************************)
Begin(phase) ==
  /\ tick.pc = "none"
  /\ kv.phase = phase

Await(pc) == tick' = [NoTick EXCEPT !.pc = pc, !.mem = kv]

Return(state) == tick' = [NoTick EXCEPT !.pc = "save", !.mem = state]

SaveState ==
  /\ tick.pc = "save"
  /\ kv' = tick.mem
  /\ tick' = NoTick
  /\ UNCHANGED <<tables, crew, job, inbox, underWay>>

\* The catch of tick(): the goal of the tick fails, whosever the error was.
Catch ==
  /\ Graph!UpdateGoalStatus(tick.mem.goal, "failed")
  /\ Return([tick.mem EXCEPT !.phase = "failed"])
  /\ UNCHANGED kv

TickIdle ==
  /\ Begin("idle")
  /\ IF ActiveGoals = {}
       THEN Return([kv EXCEPT !.goal = NoGoal])
       ELSE \E g \in ActiveGoals :
              /\ kv.goal \in ActiveGoals => g = kv.goal
              /\ Return([kv EXCEPT !.phase = "classifying", !.goal = g])
  /\ UNCHANGED <<tables, kv, crew, job, inbox, underWay>>

\* Goals that have tasks already are classified too.
TickClassifying_Bug ==
  /\ Begin("classifying")
  /\ Await("classify")
  /\ UNCHANGED <<tables, kv, crew, job, inbox, underWay>>

TickClassifying ==
  /\ Begin("classifying")
  /\ IF TasksOf(kv.goal) # {}
       THEN Return([kv EXCEPT !.phase = "executing"])
       ELSE Await("classify")
  /\ UNCHANGED <<tables, kv, crew, job, inbox, underWay>>

\* After the inference: hand over to the planner, or insert one task.
Classified ==
  /\ tick.pc = "classify"
  /\ \/ /\ Return([tick.mem EXCEPT !.phase = "planning"])
        /\ UNCHANGED tables
     \/ \E t \in Unused :
          /\ Graph!DecomposeGoal(tick.mem.goal, {t}, [u \in {t} |-> {}])
          /\ Return([tick.mem EXCEPT !.phase = "executing"])
  /\ UNCHANGED <<kv, crew, job, inbox, underWay>>

TickPlanning ==
  /\ Begin("planning")
  /\ Await("plan")
  /\ UNCHANGED <<tables, kv, crew, job, inbox, underWay>>

\* The planner's answer (or the single task that stands in for none): tasks
\* that depend on one another only, without a cycle.
InsertPlan(g) ==
  \E batch \in SUBSET Unused :
    /\ Cardinality(batch) \in 1 .. MaxPlan
    /\ \E newDeps \in [batch -> SUBSET batch] :
         Graph!DecomposeGoal(g, batch, newDeps)

\* An empty plan is taken as it is.
Planned_Bug ==
  /\ tick.pc = "plan"
  /\ InsertPlan(tick.mem.goal) \/ UNCHANGED tables
  /\ Return([tick.mem EXCEPT !.phase = "plan_review"])
  /\ UNCHANGED <<kv, crew, job, inbox, underWay>>

Planned ==
  /\ tick.pc = "plan"
  /\ InsertPlan(tick.mem.goal)
  /\ Return([tick.mem EXCEPT !.phase = "plan_review"])
  /\ UNCHANGED <<kv, crew, job, inbox, underWay>>

\* reviewPlan in mode "auto" approves.
TickPlanReview ==
  /\ Begin("plan_review")
  /\ Return([kv EXCEPT !.phase = "executing"])
  /\ UNCHANGED <<tables, kv, crew, job, inbox, underWay>>

\* Whatever waits is assigned.
Ready_Bug(g) == {t \in TasksOf(g) : status[t] = "pending"}

Ready(g) == Graph!ReadyTasks \cap TasksOf(g)

TickExecuting ==
  /\ Begin("executing")
  /\ tick' = [NoTick EXCEPT !.pc = "match", !.mem = kv,
                            !.todo = Ready(kv.goal)]
  /\ UNCHANGED <<tables, kv, crew, job, inbox, underWay>>

\* matchTaskToAgent: an idle child, else a new one (a sandbox, or a local
\* worker that starts at once).  When none can be spawned (disableSpawn), a
\* busy one, else the agent itself.  Which child, and in which order the tasks
\* are taken, depends on roles and priorities.
Match(t) ==
  /\ tick.pc = "match"
  /\ t \in tick.todo
  /\ \E a \in Agents :
       /\ tick' = [tick EXCEPT !.pc = "assign", !.task = t, !.agent = a,
                               !.todo = @ \ {t}]
       /\ \/ /\ a \in Idle
             /\ UNCHANGED <<crew, job>>
          \/ /\ Idle = {}
             /\ a \in (Workers \union Children) \ crew
             /\ crew' = crew \union {a}
             /\ job' = [w \in Workers |-> IF w = a THEN t ELSE job[w]]
          \/ /\ Idle = {}
             /\ "unspawned" \in Incidents
             /\ a \in IF crew # {} THEN crew ELSE {Self}
             /\ UNCHANGED <<crew, job>>
  /\ UNCHANGED <<tables, kv, inbox, underWay>>

\* The loop of the executing phase the tick is in.
Loop == IF tick.collected THEN "apply" ELSE "match"

\* handleFailure.  failTask throws for a task that is over, which ends the
\* tick; a task that fails for good is reported in the next step.  Unless it
\* threw, the tick goes on as the record resume.
HandleFailure(t, resume) ==
  \/ /\ status[t] \in Graph!TerminalStatus
     /\ Catch
  \/ /\ Graph!FailTaskForRetry(t, TRUE)
     /\ tick' = [resume EXCEPT !.pc = Loop]
     /\ UNCHANGED kv
  \/ /\ Graph!FailTaskForGood(t, TRUE)
     /\ tick' = [resume EXCEPT !.pc = "report", !.task = t]
     /\ UNCHANGED kv

MayReplan(state) == state.replans < MaxReplans

\* The rest of handleFailure: the goal of the task is reopened for a replan.
\* The state it saves is overwritten when the tick ends.
Report ==
  /\ tick.pc = "report"
  /\ LET g == goalOf[tick.task]
     IN  IF MayReplan(kv)
           THEN /\ Graph!UpdateGoalStatus(g, "active")
                /\ kv' = [kv EXCEPT !.phase = "replanning", !.goal = g]
           ELSE /\ kv' = [kv EXCEPT !.phase = "failed", !.goal = g]
                /\ UNCHANGED tables
  /\ tick' = [tick EXCEPT !.pc = Loop]
  /\ UNCHANGED <<crew, job, inbox, underWay>>

\* assignTask throws if the task is not pending any more.
Assign ==
  /\ tick.pc = "assign"
  /\ \/ /\ Graph!AssignTask(tick.task, tick.agent)
        /\ tick' = [tick EXCEPT !.pc = IF tick.agent \in Children THEN "dispatch"
                                                                  ELSE "match"]
        /\ UNCHANGED kv
     \/ /\ status[tick.task] # "pending"
        /\ HandleFailure(tick.task, tick)
  /\ UNCHANGED <<crew, job, inbox, underWay>>

\* A child is funded and the order inserted into its inbox.
Dispatch ==
  /\ tick.pc = "dispatch"
  /\ \/ /\ inbox' = inbox \union {Order(tick.agent, tick.task)}
        /\ tick' = [tick EXCEPT !.pc = "match"]
        /\ UNCHANGED <<tables, kv>>
     \/ /\ "undelivered" \in Incidents
        /\ HandleFailure(tick.task, tick)
        /\ UNCHANGED inbox
  /\ UNCHANGED <<crew, job, underWay>>

\* collectResults: processInbox marks every row processed, whoever it is
\* addressed to; only the results are looked at.
CollectResults ==
  /\ tick.pc = "match"
  /\ tick.todo = {}
  /\ inbox' = {}
  /\ tick' = [tick EXCEPT !.pc = "apply", !.collected = TRUE,
                          !.results = {m \in inbox : m.type = "task_result"}]
  /\ UNCHANGED <<tables, kv, crew, job, underWay>>

ApplyResult(r) ==
  /\ tick.pc = "apply"
  /\ r \in tick.results
  /\ \/ /\ r.ok
        /\ Graph!CompleteTask(r.task)
        /\ tick' = [tick EXCEPT !.results = @ \ {r}]
        /\ UNCHANGED kv
     \/ /\ r.ok => status[r.task] \in Graph!TerminalStatus
        /\ HandleFailure(r.task, [tick EXCEPT !.results = @ \ {r}])
  /\ UNCHANGED <<crew, job, inbox, underWay>>

\* Failures are left to the handler that saw them.
Evaluate_Bug ==
  /\ tick.pc = "apply"
  /\ tick.results = {}
  /\ LET T == TasksOf(tick.mem.goal)
     IN  IF T # {} /\ \A t \in T : status[t] = "completed"
           THEN /\ Graph!UpdateGoalStatus(tick.mem.goal, "completed")
                /\ Return([tick.mem EXCEPT !.phase = "complete"])
           ELSE Return(tick.mem) /\ UNCHANGED tables
  /\ UNCHANGED <<kv, crew, job, inbox, underWay>>

\* The end of the executing phase: what the counts of the goal's tasks say.
Evaluate ==
  /\ tick.pc = "apply"
  /\ tick.results = {}
  /\ LET T == TasksOf(tick.mem.goal)
         next == IF MayReplan(tick.mem) THEN "replanning" ELSE "failed"
     IN  IF T # {} /\ \A t \in T : status[t] = "completed"
           THEN /\ Graph!UpdateGoalStatus(tick.mem.goal, "completed")
                /\ Return([tick.mem EXCEPT !.phase = "complete"])
           ELSE /\ Return(IF \E t \in T : status[t] = "failed"
                            THEN [tick.mem EXCEPT !.phase = next] ELSE tick.mem)
                /\ UNCHANGED tables
  /\ UNCHANGED <<kv, crew, job, inbox, underWay>>

\* The goal has a failed task then, the one the replanner is told of.
TickReplanning ==
  /\ Begin("replanning")
  /\ Await("replan")
  /\ UNCHANGED <<tables, kv, crew, job, inbox, underWay>>

\* After the inference: reset the tasks, reopen the goal, insert the new plan.
ResetTasks ==
  /\ tick.pc = "replan"
  /\ Graph!ResetTasks(tick.mem.goal)
  /\ tick' = [tick EXCEPT !.pc = "reopen"]
  /\ UNCHANGED <<kv, crew, job, inbox, underWay>>

ReopenGoal ==
  /\ tick.pc = "reopen"
  /\ Graph!UpdateGoalStatus(tick.mem.goal, "active")
  /\ tick' = [tick EXCEPT !.pc = "insert"]
  /\ UNCHANGED <<kv, crew, job, inbox, underWay>>

Replanned ==
  /\ tick.pc = "insert"
  /\ InsertPlan(tick.mem.goal)
  /\ Return([tick.mem EXCEPT !.phase = "plan_review", !.replans = @ + 1])
  /\ UNCHANGED <<kv, crew, job, inbox, underWay>>

TickComplete ==
  /\ Begin("complete")
  /\ Return(DefaultState)
  /\ UNCHANGED <<tables, kv, crew, job, inbox, underWay>>

TickFailed ==
  /\ Begin("failed")
  /\ Graph!UpdateGoalStatus(kv.goal, "failed")
  /\ Return(DefaultState)
  /\ UNCHANGED <<kv, crew, job, inbox, underWay>>

Step ==
  \/ SaveState
  \/ TickIdle \/ TickClassifying \/ Classified \/ TickPlanning \/ Planned
  \/ TickPlanReview
  \/ TickExecuting \/ Assign \/ Dispatch \/ CollectResults \/ Report \/ Evaluate
  \/ \E t \in Tasks : Match(t)
  \/ \E m \in Messages : ApplyResult(m)
  \/ TickReplanning \/ ResetTasks \/ ReopenGoal \/ Replanned
  \/ TickComplete \/ TickFailed

-----------------------------------------------------------------------------
(***************************************************************************)
(* Everyone else.                                                          *)
(***************************************************************************)

\* The tools run in the agent's turn, which waits for the tick to end.
CreateGoal(g) ==
  /\ tick.pc = "none"
  /\ Graph!CreateGoal(g)
  /\ UNCHANGED <<kv, tick, crew, job, inbox, underWay>>

CancelGoal(g) ==
  /\ "cancel" \in Incidents
  /\ tick.pc = "none"
  /\ Graph!CancelGoal(g)
  /\ UNCHANGED <<kv, tick, crew, job, inbox, underWay>>

\* The complete_task tool.
ResolveTask(t) ==
  /\ "resolve" \in Incidents
  /\ tick.pc = "none"
  /\ Graph!CompleteTask(t)
  /\ UNCHANGED <<kv, tick, crew, job, inbox, underWay>>

\* A local worker ends: it completes its task, or fails it (timeout, failed
\* inference, crash), and ignores that the task may be over.
WorkerEnds(w) ==
  /\ Yielded
  /\ job[w] # NoTask
  /\ \/ Graph!CompleteTask(job[w])
     \/ Graph!FailTask(job[w], TRUE)
     \/ /\ status[job[w]] \in Graph!TerminalStatus
        /\ UNCHANGED tables
  /\ job' = [job EXCEPT ![w] = NoTask]
  /\ UNCHANGED <<kv, tick, crew, inbox, underWay>>

\* A child shares the database, reads its orders and answers each once.
ReadOrder(c, t) ==
  /\ Order(c, t) \in inbox
  /\ inbox' = inbox \ {Order(c, t)}
  /\ underWay' = underWay \union {<<c, t>>}
  /\ UNCHANGED <<tables, kv, tick, crew, job>>

Answer(c, t, ok) ==
  /\ <<c, t>> \in underWay
  /\ underWay' = underWay \ {<<c, t>>}
  /\ inbox' = inbox \union {Result(c, t, ok)}
  /\ UNCHANGED <<tables, kv, tick, crew, job>>

\* Tasks that were assigned are queued again.
Restart_Bug ==
  /\ "crash" \in Incidents
  /\ tick' = NoTick
  /\ job' = [w \in Workers |-> NoTask]
  /\ status' = [t \in Tasks |-> IF status[t] = "assigned" THEN "pending" ELSE status[t]]
  /\ UNCHANGED <<goalStatus, goalOf, deps, assignedTo, retryCount>>
  /\ UNCHANGED <<kv, crew, inbox, underWay>>

\* The process is killed and started again: what it held in memory is gone.
Restart ==
  /\ "crash" \in Incidents
  /\ tick' = NoTick
  /\ job' = [w \in Workers |-> NoTask]
  /\ UNCHANGED <<tables, kv, crew, inbox, underWay>>

Next ==
  \/ Step
  \/ \E g \in Goals : CreateGoal(g) \/ CancelGoal(g)
  \/ \E t \in Tasks : ResolveTask(t)
  \/ \E w \in Workers : WorkerEnds(w)
  \/ \E c \in Children, t \in Tasks : ReadOrder(c, t)
  \/ \E c \in Children, t \in Tasks, ok \in BOOLEAN : Answer(c, t, ok)
  \/ Restart

Spec == Init /\ [][Next]_vars

\* The agent loop calls tick() in every turn; inference calls and transfers
\* end (they have timeouts).  So does a worker (limits of turns and time), and
\* its continuation is queued until it gets its turn: strong fairness, as a
\* tick keeps disabling it.  A child that has read an order is supposed to
\* answer.
Fairness ==
  /\ WF_vars(Step)
  /\ \A w \in Workers : SF_vars(WorkerEnds(w))
  /\ \A c \in Children, t \in Tasks :
       WF_vars(\E ok \in BOOLEAN : Answer(c, t, ok))

FairSpec == Spec /\ Fairness

-----------------------------------------------------------------------------
(***************************************************************************)
(* Properties.                                                             *)
(***************************************************************************)
States == [phase : Phases, goal : Goals \union {NoGoal}, replans : 0 .. MaxReplans]

\* The saved state and the locals of a tick are well formed; in particular no
\* goal is replanned more often than MaxReplans between two resets.
TypeOK ==
  /\ Graph!TypeOK
  /\ kv \in States
  /\ tick \in [pc : Places, mem : States, todo : SUBSET Tasks,
               task : Tasks \union {NoTask}, agent : Agents \union {NoAgent},
               collected : BOOLEAN, results : SUBSET Messages]
  /\ crew \subseteq Workers \union Children
  /\ job \in [Workers -> Tasks \union {NoTask}]
  /\ inbox \subseteq Messages
  /\ underWay \subseteq Children \X Tasks

\* Whatever the interleaving, every write to the tables is an operation of
\* TaskGraph: the orchestrator assigns only tasks that are ready then, closes
\* only goals whose tasks are done, and inserts only plans that are valid.
ImplementsTaskGraph == Graph!Spec

\* Who is executing t: live workers, and children that were sent an order the
\* answer to which has not been applied.
Executors(t) ==
  {w \in Workers : job[w] = t} \union
  {c \in Children : \/ <<c, t>> \in underWay
                    \/ \E m \in inbox \union tick.results :
                         m.agent = c /\ m.task = t}

\* Two agents never execute the same task at the same time, not even when one
\* of them has just reported a failure and the task is assigned again, or when
\* the process was restarted and forgot its workers.
OneExecutor == \A t \in Tasks : Cardinality(Executors(t)) <= 1

\* The saved phase fits the tables: there is a goal unless the phase is idle,
\* it has tasks when they are to be executed, and none is open at the end.
PhaseMatchesTables ==
  /\ kv.phase = "idle" <=> kv.goal = NoGoal
  /\ kv.phase \in {"plan_review", "executing", "replanning", "complete"} =>
       TasksOf(kv.goal) # {}
  /\ kv.phase = "complete" => \A t \in TasksOf(kv.goal) : status[t] = "completed"

\* A goal is not planned twice from scratch: while its plan is being made it
\* has no tasks, even if the call to make it took long.
PlannedOnce == tick.pc \in {"classify", "plan"} => TasksOf(tick.mem.goal) = {}

\* A task counts as taken but nobody executes it.  (The agent itself may still
\* resolve it, nothing makes it do so.)
Unattended(g) ==
  \E t \in TasksOf(g) : status[t] \in Graph!BusyStatus /\ Executors(t) = {}

\* The tick needs a task id or an address and the bounds leave it none.
OutOfIds ==
  \/ tick.pc \in {"plan", "insert"} /\ Unused = {}
  \/ /\ tick.pc = "match" /\ tick.todo # {}
     /\ Idle = {} /\ Workers \union Children \subseteq crew

\* The only way for an active goal to stay active is a task that nobody
\* executes: everything else (an agent that fails, a plan that has to be
\* replaced, a tick that throws) ends with the goal completed or failed.
GoalSettles ==
  \A g \in Goals :
    goalStatus[g] = "active" ~>
      goalStatus[g] # "active" \/ Unattended(g) \/ OutOfIds

=============================================================================
