------------------------- MODULE OrchestratorProofs -------------------------
(***************************************************************************)
(* Safety of module Orchestrator, for any goals, tasks, workers, children  *)
(* and limits: every step of it is a step of TaskGraph, and with it every  *)
(* invariant of TaskGraph holds of the tables; a task has at most one      *)
(* executor; the saved phase fits the tables.                              *)
(*                                                                         *)
(* What makes these inductive is where the work on a task is.  A token is  *)
(* a claim on a task that somebody outside the tables holds: a live worker *)
(* that is busy with it, an order or a result in the inbox, an order under *)
(* way, a result the tick has taken.  OneToken says that a task has at     *)
(* most one, and none while its row says that nobody works on it; a tick   *)
(* hands out only tasks that have none (TodoReady).                        *)
(***************************************************************************)
EXTENDS Orchestrator, FiniteSetTheorems, TLAPS

\* The proofs about TaskGraph, for the tables of the orchestrator.
GraphProofs == INSTANCE TaskGraphProofs WITH
  Agents <- Agents, goalStatus <- goalStatus, status <- status, goalOf <- goalOf,
  deps <- deps, assignedTo <- assignedTo, retryCount <- retryCount

-----------------------------------------------------------------------------
(***************************************************************************)
(* The inductive invariant.                                                *)
(***************************************************************************)
Tokens(t) ==
  {<<"job", w>> : w \in {v \in Workers : job[v] = t}} \union
  {<<"way", c>> : c \in {d \in Children : <<d, t>> \in underWay}} \union
  {<<"in", m>> : m \in {n \in inbox : n.task = t}} \union
  {<<"res", m>> : m \in {n \in tick.results : n.task = t}}

\* Nobody works on a task whose row has one of these.
Quiet == {"blocked", "failed", "unused", "pruned"}

\* A worker that was just spawned for t begins before t is assigned to it.
Starting(t) ==
  /\ tick.pc = "assign" /\ tick.task = t
  /\ tick.agent \in Workers /\ job[tick.agent] = t

OneToken ==
  \A t \in Tasks :
    /\ \A x, y \in Tokens(t) : x = y
    /\ status[t] \in Quiet => Tokens(t) = {}
    /\ status[t] = "pending" /\ Tokens(t) # {} => Starting(t)

Satisfied(t) == Graph!DependenciesSatisfied(status, deps[t])

TodoReady ==
  /\ \A t \in tick.todo : status[t] = "pending" /\ Satisfied(t) /\ Tokens(t) = {}
  /\ tick.pc = "none" => tick.todo = {}

\* What a tick knows of the task it is at.
TaskHeld ==
  /\ tick.pc \in {"assign", "dispatch", "report"} => tick.task \in Tasks
  /\ tick.pc = "assign" =>
       /\ tick.task \notin tick.todo
       /\ tick.agent \in Agents
       /\ Satisfied(tick.task)
       /\ status[tick.task] \in {"pending", "completed", "failed"}
  /\ tick.pc = "dispatch" =>
       /\ tick.agent \in Children
       /\ status[tick.task] = "assigned"
       /\ Tokens(tick.task) = {}
  /\ tick.pc = "report" => status[tick.task] = "failed"

\* PhaseMatchesTables, of the saved state and of the one a tick works with.
Fits(s) ==
  /\ s.phase = "idle" <=> s.goal = NoGoal
  /\ s.phase \in {"plan_review", "executing", "replanning", "complete"} =>
       TasksOf(s.goal) # {}
  /\ s.phase = "complete" => \A t \in TasksOf(s.goal) : status[t] = "completed"
  /\ s.phase = "replanning" => MayReplan(s)

PhaseOf(pc) ==
  IF pc = "classify" THEN "classifying"
  ELSE IF pc = "plan" THEN "planning"
  ELSE IF pc \in {"replan", "reopen", "insert"} THEN "replanning"
  ELSE "executing"

\* A tick inserts tasks only in the phases that plan, and works on what is
\* saved then.
PhaseOfTick ==
  /\ tick.pc \notin {"none", "save"} => tick.mem.phase = PhaseOf(tick.pc)
  /\ tick.pc \in {"classify", "plan", "replan", "reopen", "insert"} => tick.mem = kv

IInv ==
  /\ TypeOK
  /\ Graph!IInv
  /\ OneToken
  /\ TodoReady
  /\ TaskHeld
  /\ Fits(kv) /\ Fits(tick.mem)
  /\ PhaseOfTick

\* Without a crash: a goal that is to be planned from scratch has no tasks.
NotPlannedYet ==
  /\ tick.pc \in {"none", "plan"} /\ kv.phase = "planning" => TasksOf(kv.goal) = {}
  /\ tick.pc = "save" /\ tick.mem.phase = "planning" => TasksOf(tick.mem.goal) = {}
  /\ tick.pc = "classify" => TasksOf(tick.mem.goal) = {}

-----------------------------------------------------------------------------
(***************************************************************************)
(* The tables: what TaskGraphProofs proves, and what each operation does   *)
(* to a row.                                                               *)
(***************************************************************************)

\* TaskGraph and the module of its proofs are the same specification.
LEMMA SameInv == Graph!IInv <=> GraphProofs!IInv
<1> QED  BY DEF Graph!IInv, GraphProofs!IInv, Graph!TypeOK, GraphProofs!TypeOK,
      Graph!FreshRows, GraphProofs!FreshRows, Graph!NoOrphans, GraphProofs!NoOrphans,
      Graph!DepsAcyclic, GraphProofs!DepsAcyclic, Graph!Acyclic, GraphProofs!Acyclic,
      Graph!BlockedHasReason, GraphProofs!BlockedHasReason,
      Graph!BusyHasInputs, GraphProofs!BusyHasInputs,
      Graph!FailureBlocksDependents, GraphProofs!FailureBlocksDependents,
      Graph!AssignmentMatchesStatus, GraphProofs!AssignmentMatchesStatus,
      Graph!CompletedGoalIsDone, GraphProofs!CompletedGoalIsDone,
      Graph!TasksOf, GraphProofs!TasksOf,
      Graph!DependenciesSatisfied, GraphProofs!DependenciesSatisfied,
      Graph!NoRow, GraphProofs!NoRow, Graph!BusyStatus, GraphProofs!BusyStatus,
      Graph!TaskStatus, GraphProofs!TaskStatus, Graph!GoalStatus, GraphProofs!GoalStatus

LEMMA SameNext == [Graph!Next]_tables <=> [GraphProofs!Next]_GraphProofs!vars
<1> QED  BY DEF tables, GraphProofs!vars, Graph!Next, GraphProofs!Next,
      Graph!CreateGoal, GraphProofs!CreateGoal, Graph!CancelGoal, GraphProofs!CancelGoal,
      Graph!ResetTasks, GraphProofs!ResetTasks, Graph!TasksToReset, GraphProofs!TasksToReset,
      Graph!UpdateGoalStatus, GraphProofs!UpdateGoalStatus,
      Graph!PruneCompletedGoals, GraphProofs!PruneCompletedGoals,
      Graph!CompleteTask, GraphProofs!CompleteTask, Graph!FailTask, GraphProofs!FailTask,
      Graph!FailTaskForRetry, GraphProofs!FailTaskForRetry,
      Graph!FailTaskForGood, GraphProofs!FailTaskForGood,
      Graph!AssignTask, GraphProofs!AssignTask, Graph!ReadyTasks, GraphProofs!ReadyTasks,
      Graph!Decompose, GraphProofs!Decompose, Graph!DecomposeGoal, GraphProofs!DecomposeGoal,
      Graph!StatusWithBatch, GraphProofs!StatusWithBatch,
      Graph!DetectCycles, GraphProofs!DetectCycles, Graph!Acyclic, GraphProofs!Acyclic,
      Graph!ValidReferences, GraphProofs!ValidReferences,
      Graph!UnblockReadyBlockedTasks, GraphProofs!UnblockReadyBlockedTasks,
      Graph!DependentsToBlock, GraphProofs!DependentsToBlock,
      Graph!RefreshGoalStatus, GraphProofs!RefreshGoalStatus,
      Graph!ProgressStatus, GraphProofs!ProgressStatus,
      Graph!CanRetry, GraphProofs!CanRetry, Graph!RetryStatus, GraphProofs!RetryStatus,
      Graph!TasksOf, GraphProofs!TasksOf,
      Graph!DependenciesSatisfied, GraphProofs!DependenciesSatisfied,
      Graph!NoRow, GraphProofs!NoRow, Graph!BusyStatus, GraphProofs!BusyStatus,
      Graph!TerminalStatus, GraphProofs!TerminalStatus

LEMMA SameInit == Graph!Init => GraphProofs!Init
<1> QED  BY DEF Graph!Init, GraphProofs!Init

LEMMA GraphInit == Graph!Init => Graph!IInv
<1> QED  BY SameInit, SameInv, GraphProofs!InitInv, RetriesNat, SentinelsFresh

LEMMA GraphStep == Graph!IInv /\ [Graph!Next]_tables => Graph!IInv'
<1>1. GraphProofs!IInv' => Graph!IInv'
  BY SameInv, PTL
<1> QED  BY <1>1, SameInv, SameNext, GraphProofs!NextInv, RetriesNat, SentinelsFresh

\* What every step keeps of the rows that are there.
RowsStay ==
  \A t \in Tasks :
    /\ status[t] \notin Graph!NoRow =>
         status'[t] \notin Graph!NoRow /\ goalOf'[t] = goalOf[t] /\ deps'[t] = deps[t]
    /\ status[t] = "completed" => status'[t] = "completed"

NoRowIsNew == \A t \in Tasks : status'[t] \notin Graph!NoRow => status[t] \notin Graph!NoRow

\* A task that is not blocked keeps its status, unless it is t.
OthersStay(t) ==
  \A u \in Tasks \ {t} : \/ status'[u] = status[u]
                         \/ status[u] = "blocked" /\ status'[u] = "pending"

LEMMA CompleteTaskRows ==
  ASSUME Graph!IInv, NEW t \in Tasks, Graph!CompleteTask(t)
  PROVE  RowsStay /\ NoRowIsNew /\ OthersStay(t) /\ status'[t] = "completed"
<1>1. /\ status \in [Tasks -> Graph!TaskStatus \union Graph!NoRow]
      /\ status[t] \notin Graph!NoRow \union Graph!TerminalStatus
      /\ UNCHANGED <<goalOf, deps>>
  BY DEF Graph!IInv, Graph!TypeOK, Graph!CompleteTask
<1> DEFINE done == [status EXCEPT ![t] = "completed"]
<1>2. \A u \in Tasks : done[u] = IF u = t THEN "completed" ELSE status[u]
  BY <1>1
<1>3. \A u \in Tasks :
        status'[u] = IF done[u] = "blocked" /\ Graph!DependenciesSatisfied(done, deps[u])
                       THEN "pending" ELSE done[u]
  BY DEF Graph!CompleteTask, Graph!UnblockReadyBlockedTasks
<1> HIDE DEF done
<1> QED  BY <1>1, <1>2, <1>3 DEF RowsStay, NoRowIsNew, OthersStay, Graph!NoRow

LEMMA RetryRows ==
  ASSUME Graph!IInv, NEW t \in Tasks, Graph!FailTaskForRetry(t, TRUE)
  PROVE  /\ RowsStay /\ NoRowIsNew /\ OthersStay(t)
         /\ status[t] \notin {"completed", "failed", "cancelled", "unused", "pruned"}
         /\ status'[t] = IF Satisfied(t) THEN "pending" ELSE "blocked"
<1> QED  BY DEF Graph!IInv, Graph!TypeOK, Graph!FailTaskForRetry, RowsStay, NoRowIsNew,
     OthersStay, Graph!RetryStatus, Satisfied, Graph!NoRow, Graph!TerminalStatus

\* The dependents that are blocked were waiting, and as t is one of their
\* dependencies none of them was ready.
LEMMA FailRows ==
  ASSUME Graph!IInv, NEW t \in Tasks, Graph!FailTaskForGood(t, TRUE)
  PROVE  /\ RowsStay /\ NoRowIsNew
         /\ status[t] \notin {"completed", "failed", "cancelled", "unused", "pruned"}
         /\ status'[t] = "failed"
         /\ \A u \in Tasks \ {t} :
              \/ status'[u] = status[u]
              \/ status[u] = "pending" /\ ~Satisfied(u) /\ status'[u] = "blocked"
<1>1. /\ status \in [Tasks -> Graph!TaskStatus \union Graph!NoRow]
      /\ deps \in [Tasks -> SUBSET Tasks]
      /\ status[t] \notin Graph!NoRow \union Graph!TerminalStatus
      /\ UNCHANGED <<goalOf, deps>>
  BY DEF Graph!IInv, Graph!TypeOK, Graph!FailTaskForGood
<1>2. \A u \in Tasks : status'[u] = IF u = t THEN "failed"
                                    ELSE IF u \in Graph!DependentsToBlock(t) THEN "blocked"
                                    ELSE status[u]
  BY DEF Graph!FailTaskForGood
<1>3. status[t] \notin {"completed", "failed", "cancelled", "unused", "pruned"}
  BY <1>1 DEF Graph!NoRow, Graph!TerminalStatus
<1>4. \A u \in Graph!DependentsToBlock(t) : u \in Tasks /\ ~Satisfied(u)
  BY <1>3 DEF Graph!DependentsToBlock, Satisfied, Graph!DependenciesSatisfied
<1>5. \A u \in Graph!DependentsToBlock(t) : status[u] = "pending"
  BY <1>4 DEF Graph!IInv, Graph!BusyHasInputs, Graph!DependentsToBlock, Graph!BusyStatus,
     Satisfied
<1> QED  BY <1>1, <1>2, <1>3, <1>4, <1>5 DEF RowsStay, NoRowIsNew, Graph!NoRow

LEMMA AssignRows ==
  ASSUME Graph!IInv, NEW t \in Tasks, NEW a, Graph!AssignTask(t, a)
  PROVE  /\ RowsStay /\ NoRowIsNew /\ OthersStay(t)
         /\ status[t] = "pending" /\ status'[t] = "assigned"
<1> QED  BY DEF Graph!IInv, Graph!TypeOK, Graph!AssignTask, RowsStay, NoRowIsNew,
     OthersStay, Graph!NoRow

LEMMA DecomposeRows ==
  ASSUME Graph!IInv, NEW g \in Goals, NEW batch \in SUBSET Tasks,
         NEW newDeps \in [batch -> SUBSET Tasks],
         Graph!DecomposeGoal(g, batch, newDeps)
  PROVE  /\ RowsStay
         /\ \A t \in Tasks \ batch : status'[t] = status[t] /\ goalOf'[t] = goalOf[t]
         /\ \A t \in batch : /\ status[t] = "unused" /\ goalOf'[t] = g
                             /\ status'[t] \in {"pending", "blocked"}
         /\ TasksOf(g)' # {}
<1> DEFINE inserted == [t \in Tasks |->
                         IF t \notin batch THEN status[t]
                         ELSE IF Graph!DependenciesSatisfied(status, newDeps[t])
                           THEN "pending" ELSE "blocked"]
<1>1. /\ batch # {}
      /\ \A t \in batch : t \in Tasks /\ status[t] = "unused"
      /\ \A t \in Tasks : goalOf'[t] = IF t \in batch THEN g ELSE goalOf[t]
      /\ \A t \in Tasks : deps'[t] = IF t \in batch THEN newDeps[t] ELSE deps[t]
      /\ \A t \in Tasks : deps[t] \subseteq Tasks
  BY DEF Graph!DecomposeGoal, Graph!IInv, Graph!TypeOK
<1>2. \A t \in Tasks :
        status'[t] = IF /\ inserted[t] = "blocked"
                        /\ \A d \in deps'[t] : inserted[d] = "completed"
                       THEN "pending" ELSE inserted[t]
  BY DEF Graph!DecomposeGoal, Graph!StatusWithBatch, Graph!UnblockReadyBlockedTasks,
         Graph!DependenciesSatisfied
<1>3. \A d \in Tasks : inserted[d] = "completed" <=> status[d] = "completed"
  BY <1>1
<1>4. ASSUME NEW t \in Tasks, t \notin batch PROVE status'[t] = status[t]
  <2>1. inserted[t] = status[t] /\ deps'[t] = deps[t] /\ deps[t] \subseteq Tasks
    BY <1>1, <1>4
  <2>2. status[t] = "blocked" => ~ \A d \in deps[t] : inserted[d] = "completed"
    BY <1>3, <2>1 DEF Graph!IInv, Graph!BlockedHasReason, Graph!DependenciesSatisfied
  <2> HIDE DEF inserted
  <2> QED  BY <1>2, <2>1, <2>2
<1>5. \A t \in batch : status'[t] \in {"pending", "blocked"}
  <2>1. \A t \in batch : inserted[t] \in {"pending", "blocked"}
    BY <1>1
  <2> HIDE DEF inserted
  <2> QED  BY <1>1, <1>2, <2>1
<1> HIDE DEF inserted
<1>6. RowsStay
  BY <1>1, <1>4, <1>5 DEF RowsStay, Graph!NoRow
<1>7. TasksOf(g)' # {}
  BY <1>1, <1>5 DEF TasksOf, Graph!TasksOf, Graph!NoRow
<1> QED  BY <1>1, <1>4, <1>5, <1>6, <1>7

LEMMA CancelRows ==
  ASSUME Graph!IInv, NEW g \in Goals, Graph!CancelGoal(g)
  PROVE  /\ RowsStay /\ NoRowIsNew
         /\ \A t \in Tasks : status'[t] \in {status[t], "cancelled"}
<1> QED  BY DEF Graph!IInv, Graph!TypeOK, Graph!CancelGoal, RowsStay, NoRowIsNew,
     Graph!NoRow, Graph!BusyStatus

LEMMA ResetRows ==
  ASSUME Graph!IInv, NEW g \in Goals, Graph!ResetTasks(g)
  PROVE  /\ RowsStay /\ NoRowIsNew
         /\ \A t \in Tasks : \/ status'[t] = status[t]
                             \/ status[t] \in {"failed", "blocked"} /\ status'[t] = "pending"
<1> QED  BY DEF Graph!IInv, Graph!TypeOK, Graph!ResetTasks, RowsStay, NoRowIsNew,
     Graph!NoRow, Graph!TasksToReset

LEMMA SameRows ==
  ASSUME UNCHANGED <<status, goalOf, deps>>
  PROVE  RowsStay /\ NoRowIsNew
<1> QED  BY DEF RowsStay, NoRowIsNew

-----------------------------------------------------------------------------
(***************************************************************************)
(* How the parts of the invariant survive a step.                          *)
(***************************************************************************)

\* Rows that stay keep a phase that fits, and no new row spoils a complete one.
LEMMA FitsKept ==
  ASSUME RowsStay, NEW s, Fits(s), NoRowIsNew \/ s.phase # "complete"
  PROVE  Fits(s)'
<1>1. TasksOf(s.goal) \subseteq TasksOf(s.goal)'
  BY DEF RowsStay, TasksOf, Graph!TasksOf
<1>2. NoRowIsNew => TasksOf(s.goal)' \subseteq TasksOf(s.goal)
  BY DEF RowsStay, NoRowIsNew, TasksOf, Graph!TasksOf
<1>3. s.phase = "complete" => \A t \in TasksOf(s.goal)' : status'[t] = "completed"
  BY <1>2 DEF Fits, RowsStay, TasksOf, Graph!TasksOf
<1> QED  BY <1>1, <1>3 DEF Fits, MayReplan

LEMMA SatisfiedKept ==
  ASSUME Graph!IInv, RowsStay, NEW t \in Tasks, status[t] \notin Graph!NoRow, Satisfied(t)
  PROVE  Satisfied(t)'
<1>1. deps'[t] = deps[t] /\ deps[t] \subseteq Tasks
  BY DEF RowsStay, Graph!IInv, Graph!TypeOK
<1> QED  BY <1>1 DEF Satisfied, Graph!DependenciesSatisfied, RowsStay

\* Nothing takes up a task: a row that changes had no tokens, has none left or
\* is over.
LEMMA TokensKept ==
  ASSUME OneToken,
         \A t \in Tasks : Tokens(t)' \subseteq Tokens(t),
         \A t \in Tasks : \/ Tokens(t)' = {}
                          \/ status'[t] \notin Quiet \union {"pending"}
                          \/ status[t] \in Quiet
                          \/ status[t] = "pending" /\ ~Starting(t)
                          \/ status'[t] = status[t] /\ (Starting(t) => Starting(t)')
  PROVE  OneToken'
<1> SUFFICES ASSUME NEW t \in Tasks
             PROVE  /\ \A x, y \in Tokens(t)' : x = y
                    /\ status'[t] \in Quiet => Tokens(t)' = {}
                    /\ status'[t] = "pending" /\ Tokens(t)' # {} => Starting(t)'
  BY DEF OneToken
<1>1. Tokens(t)' \subseteq Tokens(t)
  OBVIOUS
<1>2. /\ \A x, y \in Tokens(t) : x = y
      /\ status[t] \in Quiet => Tokens(t) = {}
      /\ status[t] = "pending" /\ Tokens(t) # {} => Starting(t)
  BY DEF OneToken
<1>3. \A x, y \in Tokens(t)' : x = y
  BY <1>1, <1>2
<1>4. CASE status[t] \in Quiet \/ (status[t] = "pending" /\ ~Starting(t))
  BY <1>1, <1>2, <1>3, <1>4
<1>5. CASE Tokens(t)' = {} \/ status'[t] \notin Quiet \union {"pending"}
  BY <1>3, <1>5
<1>6. CASE status'[t] = status[t] /\ (Starting(t) => Starting(t)')
  BY <1>1, <1>2, <1>3, <1>6
<1> QED  BY <1>4, <1>5, <1>6

\* Tokens, by kind.
LEMMA TokenKinds ==
  ASSUME NEW t
  PROVE  /\ \A w : <<"job", w>> \in Tokens(t) <=> w \in Workers /\ job[w] = t
         /\ \A c : <<"way", c>> \in Tokens(t) <=> c \in Children /\ <<c, t>> \in underWay
         /\ \A m : <<"in", m>> \in Tokens(t) <=> m \in inbox /\ m.task = t
         /\ \A m : <<"res", m>> \in Tokens(t) <=> m \in tick.results /\ m.task = t
         /\ \A x \in Tokens(t) : \E y : x \in {<<"job", y>>, <<"way", y>>, <<"in", y>>, <<"res", y>>}
<1> QED  BY DEF Tokens

LEMMA TokenKindsNext ==
  ASSUME NEW t
  PROVE  /\ \A w : <<"job", w>> \in Tokens(t)' <=> w \in Workers /\ job'[w] = t
         /\ \A c : <<"way", c>> \in Tokens(t)' <=> c \in Children /\ <<c, t>> \in underWay'
         /\ \A m : <<"in", m>> \in Tokens(t)' <=> m \in inbox' /\ m.task = t
         /\ \A m : <<"res", m>> \in Tokens(t)' <=> m \in tick'.results /\ m.task = t
         /\ \A x \in Tokens(t)' : \E y : x \in {<<"job", y>>, <<"way", y>>, <<"in", y>>, <<"res", y>>}
<1> QED  BY DEF Tokens

\* A task that is about to be assigned has no token but its new worker's.
LEMMA StartingToken ==
  ASSUME OneToken, NEW t \in Tasks, Starting(t)
  PROVE  Tokens(t) = {<<"job", tick.agent>>}
<1>1. <<"job", tick.agent>> \in Tokens(t)
  BY TokenKinds DEF Starting
<1>2. \A x, y \in Tokens(t) : x = y
  BY DEF OneToken
<1> QED  BY <1>1, <1>2

-----------------------------------------------------------------------------
(***************************************************************************)
(* Every step is a step of TaskGraph, or leaves its tables alone.          *)
(***************************************************************************)
LEMMA GoalOfTick ==
  ASSUME IInv, tick.pc \notin {"none", "save"}
  PROVE  tick.mem.goal \in Goals
<1>1. tick.mem \in States /\ tick.mem.phase # "idle"
  BY DEF IInv, TypeOK, PhaseOfTick, PhaseOf
<1> QED  BY <1>1 DEF States, IInv, Fits

LEMMA UpdateSimulates ==
  ASSUME NEW g \in Goals, NEW s \in {"active", "completed", "failed"},
         Graph!UpdateGoalStatus(g, s)
  PROVE  Graph!Next
<1> QED  BY DEF Graph!Next

LEMMA InsertPlanSimulates ==
  ASSUME NEW g \in Goals, InsertPlan(g)
  PROVE  /\ Graph!Next
         /\ \E batch \in SUBSET Tasks : \E newDeps \in [batch -> SUBSET Tasks] :
              Graph!DecomposeGoal(g, batch, newDeps)
<1>1. PICK batch \in SUBSET Unused :
        \E newDeps \in [batch -> SUBSET batch] : Graph!DecomposeGoal(g, batch, newDeps)
  BY DEF InsertPlan
<1>2. PICK newDeps \in [batch -> SUBSET batch] : Graph!DecomposeGoal(g, batch, newDeps)
  BY <1>1
<1>3. batch \in SUBSET Tasks /\ newDeps \in [batch -> SUBSET Tasks]
  BY DEF Unused
<1>4. \E b \in SUBSET Tasks : \E d \in [b -> SUBSET Tasks] : Graph!DecomposeGoal(g, b, d)
  BY <1>2, <1>3
<1> QED  BY <1>4 DEF Graph!Next, Graph!Decompose

LEMMA HandleFailureSimulates ==
  ASSUME IInv, tick.pc \notin {"none", "save"}, NEW t \in Tasks, NEW r,
         HandleFailure(t, r)
  PROVE  Graph!Next
<1>1. CASE Catch
  BY <1>1, GoalOfTick, UpdateSimulates DEF Catch
<1>2. CASE Graph!FailTaskForRetry(t, TRUE) \/ Graph!FailTaskForGood(t, TRUE)
  BY <1>2 DEF Graph!Next, Graph!FailTask
<1> QED  BY <1>1, <1>2 DEF HandleFailure

LEMMA StepSimulates ==
  ASSUME IInv, Step
  PROVE  Graph!Next \/ UNCHANGED tables
<1>1. CASE SaveState \/ TickIdle \/ TickClassifying \/ TickPlanning \/ TickPlanReview
           \/ TickExecuting \/ CollectResults \/ TickReplanning \/ TickComplete
  BY <1>1 DEF SaveState, TickIdle, TickClassifying, TickPlanning, TickPlanReview,
     TickExecuting, CollectResults, TickReplanning, TickComplete
<1>2. ASSUME NEW t \in Tasks, Match(t) PROVE UNCHANGED tables
  BY <1>2 DEF Match
<1>3. CASE Classified
  <2>1. tick.mem.goal \in Goals
    BY <1>3, GoalOfTick DEF Classified
  <2>2. ASSUME NEW t \in Unused,
               Graph!DecomposeGoal(tick.mem.goal, {t}, [u \in {t} |-> {}])
        PROVE  Graph!Next
    <3>1. {t} \in SUBSET Tasks /\ [u \in {t} |-> {}] \in [{t} -> SUBSET Tasks]
      BY DEF Unused
    <3> QED  BY <2>1, <2>2, <3>1 DEF Graph!Next, Graph!Decompose
  <2> QED  BY <1>3, <2>2 DEF Classified
<1>4. CASE Planned \/ Replanned
  BY <1>4, GoalOfTick, InsertPlanSimulates DEF Planned, Replanned
<1>5. CASE Assign
  <2>1. tick.task \in Tasks /\ Satisfied(tick.task) /\ tick.agent \in Agents
    BY <1>5 DEF Assign, IInv, TaskHeld
  <2>2. CASE Graph!AssignTask(tick.task, tick.agent)
    <3>1. tick.task \in Graph!ReadyTasks
      BY <2>1, <2>2 DEF Graph!ReadyTasks, Graph!AssignTask, Satisfied
    <3> QED  BY <2>1, <2>2, <3>1 DEF Graph!Next
  <2> QED  BY <1>5, <2>1, <2>2, HandleFailureSimulates DEF Assign
<1>6. CASE Dispatch
  <2>1. tick.task \in Tasks
    BY <1>6 DEF Dispatch, IInv, TaskHeld
  <2> QED  BY <1>6, <2>1, HandleFailureSimulates DEF Dispatch
<1>7. CASE Report
  <2>1. tick.task \in Tasks /\ status[tick.task] \notin Graph!NoRow
    BY <1>7 DEF Report, IInv, TaskHeld, Graph!NoRow
  <2>2. goalOf[tick.task] \in Goals
    BY <2>1 DEF IInv, Graph!IInv, Graph!NoOrphans
  <2> QED  BY <1>7, <2>2, UpdateSimulates DEF Report
<1>8. ASSUME NEW m \in Messages, ApplyResult(m) PROVE Graph!Next
  <2>1. m.task \in Tasks
    BY DEF Messages, Order, Result
  <2>2. tick.pc = "apply"
    BY <1>8 DEF ApplyResult
  <2>3. CASE Graph!CompleteTask(m.task)
    BY <2>1, <2>3 DEF Graph!Next
  <2> QED  BY <1>8, <2>1, <2>2, <2>3, HandleFailureSimulates DEF ApplyResult
<1>9. CASE Evaluate
  BY <1>9, GoalOfTick, UpdateSimulates DEF Evaluate
<1>10. CASE ResetTasks
  BY <1>10, GoalOfTick DEF ResetTasks, Graph!Next
<1>11. CASE ReopenGoal
  BY <1>11, GoalOfTick, UpdateSimulates DEF ReopenGoal
<1>12. CASE TickFailed
  <2>1. kv.goal \in Goals
    BY <1>12 DEF TickFailed, Begin, IInv, TypeOK, States, Fits
  <2> QED  BY <1>12, <2>1, UpdateSimulates DEF TickFailed
<1> QED  BY <1>1, <1>2, <1>3, <1>4, <1>5, <1>6, <1>7, <1>8, <1>9, <1>10, <1>11, <1>12
     DEF Step

LEMMA Simulates ==
  ASSUME IInv, [Next]_vars
  PROVE  [Graph!Next]_tables
<1>1. ASSUME NEW g \in Goals, CreateGoal(g) \/ CancelGoal(g) PROVE Graph!Next
  BY <1>1 DEF CreateGoal, CancelGoal, Graph!Next
<1>2. ASSUME NEW t \in Tasks, ResolveTask(t) PROVE Graph!Next
  BY <1>2 DEF ResolveTask, Graph!Next
<1>3. ASSUME NEW w \in Workers, WorkerEnds(w) PROVE Graph!Next \/ UNCHANGED tables
  <2>1. job[w] \in Tasks
    BY <1>3 DEF WorkerEnds, IInv, TypeOK
  <2> QED  BY <1>3, <2>1 DEF WorkerEnds, Graph!Next
<1>4. ASSUME NEW c \in Children, NEW t \in Tasks, ReadOrder(c, t)
      PROVE  UNCHANGED tables
  BY <1>4 DEF ReadOrder
<1>5. ASSUME NEW c \in Children, NEW t \in Tasks, NEW ok \in BOOLEAN, Answer(c, t, ok)
      PROVE  UNCHANGED tables
  BY <1>5 DEF Answer
<1>6. CASE Restart \/ UNCHANGED vars
  BY <1>6 DEF Restart, vars, tables
<1> QED  BY <1>1, <1>2, <1>3, <1>4, <1>5, <1>6, StepSimulates DEF Next

LEMMA GraphKept ==
  ASSUME IInv, [Next]_vars
  PROVE  Graph!IInv'
<1> QED  BY Simulates, GraphStep DEF IInv

-----------------------------------------------------------------------------
(***************************************************************************)
(* The steps that end or begin a tick: it is at no task then.              *)
(***************************************************************************)
Ticks == [pc : Places, mem : States, todo : SUBSET Tasks,
          task : Tasks \union {NoTask}, agent : Agents \union {NoAgent},
          collected : BOOLEAN, results : SUBSET Messages]

LEMMA DefaultFits ==
  /\ DefaultState \in States /\ NoTick \in Ticks
  /\ DefaultState.phase = "idle" /\ DefaultState.goal = NoGoal
<1>1. DefaultState \in States
  BY ReplansNat DEF DefaultState, States, Phases
<1> QED  BY <1>1 DEF DefaultState, NoTick, Ticks, Places, Unbroken

\* The tick returns the state m, which fits the tables as they are then.
LEMMA ReturnInv ==
  ASSUME IInv, [Next]_vars, RowsStay, NEW m \in States, Return(m),
         UNCHANGED <<crew, job, inbox, underWay>>, kv' = kv,
         Fits(m)', Fits(kv)',
         \A t \in Tasks : status'[t] = status[t] \/ status[t] \in Quiet,
         tick.pc = "assign" => status[tick.task] # "pending"
  PROVE  IInv'
<1>1. tick' = [pc |-> "save", mem |-> m, todo |-> {}, task |-> NoTask,
               agent |-> NoAgent, collected |-> FALSE, results |-> {}]
  BY DEF Return, NoTick
<1>2. TypeOK' /\ Graph!IInv'
  <2>1. Graph!IInv' /\ Graph!TypeOK'
    BY GraphKept DEF Graph!IInv
  <2>2. tick' \in Ticks
    BY <1>1 DEF Ticks, Places, Unbroken
  <2> QED  BY <2>1, <2>2 DEF TypeOK, IInv, Ticks
<1>3. OneToken'
  <2>1. \A t \in Tasks : Tokens(t)' \subseteq Tokens(t)
    BY <1>1 DEF Tokens
  <2>2. \A t \in Tasks : status[t] # "pending" \/ ~Starting(t)
    BY DEF Starting
  <2>3. ASSUME NEW t \in Tasks
        PROVE  \/ Tokens(t)' = {}
               \/ status'[t] \notin Quiet \union {"pending"}
               \/ status[t] \in Quiet
               \/ status[t] = "pending" /\ ~Starting(t)
               \/ status'[t] = status[t] /\ (Starting(t) => Starting(t)')
    BY <2>2 DEF Quiet
  <2> QED  BY <2>1, <2>3, TokensKept DEF IInv
<1>4. TodoReady' /\ TaskHeld' /\ PhaseOfTick'
  BY <1>1 DEF TodoReady, TaskHeld, PhaseOfTick
<1>5. Fits(kv)' /\ Fits(tick.mem)'
  BY <1>1
<1> QED  BY <1>2, <1>3, <1>4, <1>5 DEF IInv

\* The tick only returns, or writes a goal's row besides.
LEMMA ReturnSameRows ==
  ASSUME IInv, [Next]_vars, UNCHANGED <<status, goalOf, deps>>, NEW m \in States,
         Return(m), UNCHANGED <<crew, job, inbox, underWay>>, kv' = kv, Fits(m),
         tick.pc # "assign" \/ status[tick.task] # "pending"
  PROVE  IInv'
<1>1. RowsStay /\ NoRowIsNew
  BY SameRows
<1>2. Fits(m)' /\ Fits(kv)'
  BY <1>1, FitsKept DEF IInv
<1> QED  BY <1>1, <1>2, ReturnInv

LEMMA CatchInv ==
  ASSUME IInv, [Next]_vars, Catch, tick.pc \notin {"none", "save"},
         UNCHANGED <<crew, job, inbox, underWay>>,
         tick.pc # "assign" \/ status[tick.task] # "pending"
  PROVE  IInv'
<1> DEFINE m == [tick.mem EXCEPT !.phase = "failed"]
<1>1. tick.mem \in States /\ tick.mem.goal \in Goals
  BY GoalOfTick DEF IInv, TypeOK
<1>2. m \in States /\ m.phase = "failed" /\ m.goal \in Goals
  BY <1>1 DEF States, Phases
<1>3. Return(m) /\ kv' = kv /\ UNCHANGED <<status, goalOf, deps>>
  BY DEF Catch, Graph!UpdateGoalStatus
<1> HIDE DEF m
<1>4. Fits(m)
  BY <1>2, SentinelsFresh DEF Fits
<1> QED  BY <1>2, <1>3, <1>4, ReturnSameRows

LEMMA ReturnsInv ==
  ASSUME IInv, [Next]_vars, TickIdle \/ TickPlanReview \/ TickComplete \/ TickFailed
  PROVE  IInv'
<1>1. /\ kv \in States /\ Fits(kv)
      /\ kv.phase \in Phases /\ kv.goal \in Goals \union {NoGoal} /\ kv.replans \in 0 .. MaxReplans
  BY DEF IInv, TypeOK, States
<1>2. CASE TickIdle
  <2>1. CASE ActiveGoals = {}
    <3> DEFINE m == [kv EXCEPT !.goal = NoGoal]
    <3>1. Return(m) /\ UNCHANGED <<tables, kv, crew, job, inbox, underWay>> /\ tick.pc = "none"
      BY <1>2, <2>1 DEF TickIdle, Begin
    <3>2. m \in States /\ m.phase = "idle" /\ m.goal = NoGoal
      BY <1>1, <1>2 DEF TickIdle, Begin, States
    <3> HIDE DEF m
    <3>3. Fits(m)
      BY <3>2 DEF Fits
    <3> QED  BY <3>1, <3>2, <3>3, ReturnSameRows DEF tables
  <2>2. CASE ActiveGoals # {}
    <3>1. PICK g \in ActiveGoals : Return([kv EXCEPT !.phase = "classifying", !.goal = g])
      BY <1>2, <2>2 DEF TickIdle
    <3> DEFINE m == [kv EXCEPT !.phase = "classifying", !.goal = g]
    <3>2. Return(m) /\ UNCHANGED <<tables, kv, crew, job, inbox, underWay>> /\ tick.pc = "none"
      BY <1>2, <3>1 DEF TickIdle, Begin
    <3>3. m \in States /\ m.phase = "classifying" /\ m.goal \in Goals
      BY <1>1 DEF States, Phases, ActiveGoals
    <3> HIDE DEF m
    <3>4. Fits(m)
      BY <3>3, SentinelsFresh DEF Fits
    <3> QED  BY <3>2, <3>3, <3>4, ReturnSameRows DEF tables
  <2> QED  BY <2>1, <2>2
<1>3. CASE TickPlanReview
  <2> DEFINE m == [kv EXCEPT !.phase = "executing"]
  <2>1. Return(m) /\ UNCHANGED <<tables, kv, crew, job, inbox, underWay>> /\ tick.pc = "none"
    BY <1>3 DEF TickPlanReview, Begin
  <2>2. m \in States /\ m.phase = "executing" /\ m.goal = kv.goal /\ kv.phase = "plan_review"
    BY <1>1, <1>3 DEF TickPlanReview, Begin, States, Phases
  <2> HIDE DEF m
  <2>3. Fits(m)
    BY <1>1, <2>2 DEF Fits
  <2> QED  BY <2>1, <2>2, <2>3, ReturnSameRows DEF tables
<1>4. CASE TickComplete \/ TickFailed
  <2>1. /\ Return(DefaultState) /\ UNCHANGED <<status, goalOf, deps, kv, crew, job, inbox, underWay>>
        /\ tick.pc = "none"
    BY <1>4 DEF TickComplete, TickFailed, Begin, Graph!UpdateGoalStatus, tables
  <2>2. Fits(DefaultState)
    BY DefaultFits DEF Fits
  <2> QED  BY <2>1, <2>2, DefaultFits, ReturnSameRows
<1> QED  BY <1>2, <1>3, <1>4

Awaiting(p, S) == [pc |-> p, mem |-> kv, todo |-> S, task |-> NoTask,
                   agent |-> NoAgent, collected |-> FALSE, results |-> {}]

LEMMA AwaitIs ==
  ASSUME NEW p, Await(p)
  PROVE  tick' = Awaiting(p, {})
<1> QED  BY DEF Await, Awaiting, NoTick

\* The tick waits for the model, or begins to hand out the tasks in S.
LEMMA AwaitInv ==
  ASSUME IInv, [Next]_vars, tick.pc = "none",
         NEW p \in {"classify", "plan", "replan", "match"}, kv.phase = PhaseOf(p),
         NEW S \in SUBSET Tasks,
         \A t \in S : status[t] = "pending" /\ Satisfied(t),
         tick' = Awaiting(p, S),
         UNCHANGED <<tables, kv, crew, job, inbox, underWay>>
  PROVE  IInv'
<1>1. tick' = [pc |-> p, mem |-> kv, todo |-> S, task |-> NoTask,
               agent |-> NoAgent, collected |-> FALSE, results |-> {}]
  BY DEF Awaiting
<1>2. TypeOK' /\ Graph!IInv'
  <2>1. Graph!IInv' /\ Graph!TypeOK'
    BY GraphKept DEF Graph!IInv
  <2>2. tick' \in Ticks
    BY <1>1 DEF Ticks, Places, Unbroken, IInv, TypeOK
  <2> QED  BY <2>1, <2>2 DEF TypeOK, IInv, Ticks
<1>3. \A t \in Tasks : Tokens(t)' \subseteq Tokens(t)
  <2>1. tick'.results = {} /\ job' = job /\ inbox' = inbox /\ underWay' = underWay
    BY <1>1
  <2> QED  BY <2>1 DEF Tokens
<1>4. status' = status /\ deps' = deps
  BY DEF tables
<1>5. OneToken'
  <2>1. \A t \in Tasks : ~Starting(t)
    BY DEF Starting
  <2> QED  BY <1>3, <1>4, <2>1, TokensKept DEF IInv
<1>6. TodoReady'
  <2>1. \A t \in S : Tokens(t) = {}
    BY DEF IInv, OneToken, Starting
  <2>2. \A t \in S : Tokens(t)' = {}
    BY <1>3, <2>1
  <2> QED  BY <1>1, <1>4, <2>2 DEF TodoReady, Satisfied, Graph!DependenciesSatisfied
<1>7. TaskHeld' /\ PhaseOfTick'
  BY <1>1 DEF TaskHeld, PhaseOfTick
<1>8. Fits(kv)' /\ Fits(tick.mem)'
  <2>1. Fits(kv)'
    BY FitsKept, SameRows DEF IInv, tables
  <2> QED  BY <1>1, <2>1
<1> QED  BY <1>2, <1>5, <1>6, <1>7, <1>8 DEF IInv

LEMMA AwaitsInv ==
  ASSUME IInv, [Next]_vars,
         TickClassifying \/ TickPlanning \/ TickExecuting \/ TickReplanning
  PROVE  IInv'
<1>1. CASE TickClassifying
  <2>1. CASE TasksOf(kv.goal) # {}
    <3> DEFINE m == [kv EXCEPT !.phase = "executing"]
    <3>1. Return(m) /\ UNCHANGED <<tables, kv, crew, job, inbox, underWay>> /\ tick.pc = "none"
      BY <1>1, <2>1 DEF TickClassifying, Begin
    <3>2. /\ m \in States /\ m.phase = "executing" /\ m.goal = kv.goal
          /\ kv.phase = "classifying"
      BY <1>1 DEF TickClassifying, Begin, States, Phases, IInv, TypeOK
    <3> HIDE DEF m
    <3>3. Fits(m)
      BY <2>1, <3>2 DEF IInv, Fits
    <3> QED  BY <3>1, <3>2, <3>3, ReturnSameRows DEF tables
  <2>2. CASE TasksOf(kv.goal) = {}
    <3>1. /\ tick' = Awaiting("classify", {})
          /\ UNCHANGED <<tables, kv, crew, job, inbox, underWay>>
          /\ tick.pc = "none" /\ kv.phase = PhaseOf("classify")
      BY <1>1, <2>2, AwaitIs DEF TickClassifying, Begin, PhaseOf
    <3> QED  BY <3>1, AwaitInv
  <2> QED  BY <2>1, <2>2
<1>2. CASE TickPlanning
  <2>1. /\ tick' = Awaiting("plan", {})
        /\ UNCHANGED <<tables, kv, crew, job, inbox, underWay>>
        /\ tick.pc = "none" /\ kv.phase = PhaseOf("plan")
    BY <1>2, AwaitIs DEF TickPlanning, Begin, PhaseOf
  <2> QED  BY <2>1, AwaitInv
<1>3. CASE TickReplanning
  <2>1. /\ tick' = Awaiting("replan", {})
        /\ UNCHANGED <<tables, kv, crew, job, inbox, underWay>>
        /\ tick.pc = "none" /\ kv.phase = PhaseOf("replan")
    BY <1>3, AwaitIs DEF TickReplanning, Begin, PhaseOf
  <2> QED  BY <2>1, AwaitInv
<1>4. CASE TickExecuting
  <2>1. /\ tick' = Awaiting("match", Ready(kv.goal))
        /\ UNCHANGED <<tables, kv, crew, job, inbox, underWay>>
        /\ tick.pc = "none" /\ kv.phase = PhaseOf("match")
    BY <1>4 DEF TickExecuting, Begin, PhaseOf, Awaiting, NoTick
  <2>2. /\ Ready(kv.goal) \in SUBSET Tasks
        /\ \A t \in Ready(kv.goal) : status[t] = "pending" /\ Satisfied(t)
    BY DEF Ready, Graph!ReadyTasks, Satisfied
  <2> QED  BY <2>1, <2>2, AwaitInv
<1> QED  BY <1>1, <1>2, <1>3, <1>4

\* The tick is over: its state is saved, or it is lost with the workers.
LEMMA NoTickInv ==
  ASSUME IInv, [Next]_vars, SaveState \/ Restart
  PROVE  IInv'
<1>1. /\ UNCHANGED <<tables, crew, inbox, underWay>> /\ tick' = NoTick
      /\ kv' \in {kv, tick.mem}
      /\ \A w \in Workers : job'[w] \in {job[w], NoTask}
      /\ job' \in [Workers -> Tasks \union {NoTask}]
  BY DEF SaveState, Restart, IInv, TypeOK
<1>2. /\ tick'.results = {} /\ tick'.todo = {} /\ tick'.pc = "none" /\ tick'.mem = DefaultState
      /\ UNCHANGED <<status, goalOf, deps>>
  BY <1>1 DEF NoTick, tables
<1>3. TypeOK' /\ Graph!IInv'
  <2>1. Graph!IInv' /\ Graph!TypeOK'
    BY GraphKept DEF Graph!IInv
  <2>2. tick' \in Ticks /\ kv' \in States
    BY <1>1, DefaultFits DEF IInv, TypeOK
  <2> QED  BY <1>1, <2>1, <2>2 DEF TypeOK, IInv, Ticks
<1>4. \A t \in Tasks : Tokens(t)' \subseteq Tokens(t)
  BY <1>1, <1>2, SentinelsFresh DEF Tokens
<1>5. OneToken'
  <2>1. ASSUME NEW t \in Tasks, Starting(t) PROVE Tokens(t)' = {}
    <3>1. Restart
      BY <2>1 DEF SaveState, Starting
    <3>2. tick.agent \in Workers /\ job'[tick.agent] = NoTask
      BY <2>1, <3>1 DEF Starting, Restart
    <3>3. Tokens(t) = {<<"job", tick.agent>>}
      BY <2>1, StartingToken DEF IInv
    <3>4. <<"job", tick.agent>> \notin Tokens(t)'
      BY <3>2, SentinelsFresh DEF Tokens
    <3> QED  BY <1>4, <3>3, <3>4
  <2> QED  BY <1>2, <1>4, <2>1, TokensKept DEF IInv
<1>6. TodoReady' /\ TaskHeld' /\ PhaseOfTick'
  BY <1>2 DEF TodoReady, TaskHeld, PhaseOfTick
<1>7. Fits(kv)' /\ Fits(tick.mem)'
  <2>1. Fits(kv') /\ Fits(tick'.mem)
    BY <1>1, <1>2, DefaultFits DEF IInv, Fits
  <2> QED  BY <1>2, <2>1 DEF Fits, TasksOf, Graph!TasksOf, MayReplan
<1> QED  BY <1>3, <1>5, <1>6, <1>7 DEF IInv

\* The tick inserts tasks for its goal and returns m.
LEMMA InsertInv ==
  ASSUME IInv, [Next]_vars, tick.pc \in {"classify", "plan", "insert"},
         NEW batch \in SUBSET Tasks, NEW newDeps \in [batch -> SUBSET Tasks],
         Graph!DecomposeGoal(tick.mem.goal, batch, newDeps),
         NEW m \in States, Return(m), UNCHANGED <<crew, job, inbox, underWay>>, kv' = kv,
         m.phase \in {"executing", "plan_review"}, m.goal = tick.mem.goal
  PROVE  IInv'
<1>1. m.goal \in Goals
  BY GoalOfTick
<1>2. /\ RowsStay
      /\ \A t \in Tasks \ batch : status'[t] = status[t]
      /\ \A t \in batch : status[t] = "unused"
      /\ TasksOf(m.goal)' # {}
  BY <1>1, DecomposeRows DEF IInv
<1>3. Fits(m)'
  BY <1>1, <1>2, SentinelsFresh DEF Fits
<1>4. Fits(kv)'
  <2>1. kv.phase # "complete" /\ Fits(kv)
    BY DEF IInv, PhaseOfTick, PhaseOf
  <2> QED  BY <1>2, <2>1, FitsKept
<1>5. \A t \in Tasks : status'[t] = status[t] \/ status[t] \in Quiet
  BY <1>2 DEF Quiet
<1> QED  BY <1>2, <1>3, <1>4, <1>5, ReturnInv

LEMMA InsertsInv ==
  ASSUME IInv, [Next]_vars, Classified \/ Planned \/ Replanned
  PROVE  IInv'
<1>1. /\ tick.pc \in {"classify", "plan", "insert"} /\ UNCHANGED <<crew, job, inbox, underWay>>
      /\ kv' = kv /\ tick.mem \in States /\ tick.mem.goal \in Goals
      /\ tick.mem.goal \in Goals \union {NoGoal} /\ tick.mem.replans \in 0 .. MaxReplans
  BY GoalOfTick DEF Classified, Planned, Replanned, IInv, TypeOK, States
<1>2. CASE Classified
  <2>1. CASE Return([tick.mem EXCEPT !.phase = "planning"]) /\ UNCHANGED tables
    <3> DEFINE m == [tick.mem EXCEPT !.phase = "planning"]
    <3>1. m \in States /\ m.phase = "planning" /\ m.goal \in Goals /\ Return(m)
      BY <1>1, <2>1 DEF States, Phases
    <3> HIDE DEF m
    <3>2. Fits(m)
      BY <3>1, SentinelsFresh DEF Fits
    <3> QED  BY <1>1, <2>1, <3>1, <3>2, ReturnSameRows DEF tables
  <2>2. ASSUME NEW t \in Unused,
               Graph!DecomposeGoal(tick.mem.goal, {t}, [u \in {t} |-> {}]),
               Return([tick.mem EXCEPT !.phase = "executing"])
        PROVE  IInv'
    <3> DEFINE m == [tick.mem EXCEPT !.phase = "executing"]
    <3>1. m \in States /\ m.phase = "executing" /\ m.goal = tick.mem.goal /\ Return(m)
      BY <1>1, <2>2 DEF States, Phases
    <3>2. {t} \in SUBSET Tasks /\ [u \in {t} |-> {}] \in [{t} -> SUBSET Tasks]
      BY DEF Unused
    <3> HIDE DEF m
    <3> QED  BY <1>1, <2>2, <3>1, <3>2, InsertInv
  <2> QED  BY <1>2, <2>1, <2>2 DEF Classified
<1>3. CASE Planned
  <2> DEFINE m == [tick.mem EXCEPT !.phase = "plan_review"]
  <2>1. m \in States /\ m.phase = "plan_review" /\ m.goal = tick.mem.goal /\ Return(m)
    BY <1>1, <1>3 DEF Planned, States, Phases
  <2> HIDE DEF m
  <2>2. PICK batch \in SUBSET Tasks : \E newDeps \in [batch -> SUBSET Tasks] :
          Graph!DecomposeGoal(tick.mem.goal, batch, newDeps)
    BY <1>1, <1>3, InsertPlanSimulates DEF Planned
  <2> QED  BY <1>1, <2>1, <2>2, InsertInv
<1>4. CASE Replanned
  <2> DEFINE m == [tick.mem EXCEPT !.phase = "plan_review", !.replans = @ + 1]
  <2>1. tick.mem.replans < MaxReplans
    BY <1>4 DEF Replanned, IInv, PhaseOfTick, PhaseOf, Fits, MayReplan
  <2>2. tick.mem.replans + 1 \in 0 .. MaxReplans
    BY <1>1, <2>1, ReplansNat
  <2>3. m \in States /\ m.phase = "plan_review" /\ m.goal = tick.mem.goal /\ Return(m)
    BY <1>1, <1>4, <2>2 DEF Replanned, States, Phases
  <2> HIDE DEF m
  <2>4. PICK batch \in SUBSET Tasks : \E newDeps \in [batch -> SUBSET Tasks] :
          Graph!DecomposeGoal(tick.mem.goal, batch, newDeps)
    BY <1>1, <1>4, InsertPlanSimulates DEF Replanned
  <2> QED  BY <1>1, <2>3, <2>4, InsertInv
<1> QED  BY <1>2, <1>3, <1>4

-----------------------------------------------------------------------------
(***************************************************************************)
(* The steps in the course of a tick, and those of everyone else.          *)
(***************************************************************************)
LEMMA SameMemInv ==
  ASSUME IInv, [Next]_vars, RowsStay, NoRowIsNew,
         tick' \in Ticks, tick'.mem = tick.mem, kv' = kv,
         crew' \subseteq Workers \union Children,
         job' \in [Workers -> Tasks \union {NoTask}],
         inbox' \subseteq Messages, underWay' \subseteq Children \X Tasks,
         OneToken', TodoReady', TaskHeld', PhaseOfTick'
  PROVE  IInv'
<1>1. Graph!IInv' /\ Graph!TypeOK'
  BY GraphKept DEF Graph!IInv
<1>2. TypeOK'
  BY <1>1 DEF TypeOK, Ticks, IInv
<1>3. Fits(kv)' /\ Fits(tick.mem)'
  BY FitsKept DEF IInv
<1> QED  BY <1>1, <1>2, <1>3 DEF IInv

LEMMA TodoKept ==
  ASSUME IInv, RowsStay, tick'.todo \subseteq tick.todo,
         tick'.pc = "none" => tick'.todo = {},
         \A t \in tick'.todo : status'[t] = status[t] /\ Tokens(t)' \subseteq Tokens(t)
  PROVE  TodoReady'
<1>1. \A t \in tick'.todo : t \in Tasks /\ status[t] = "pending" /\ Satisfied(t) /\ Tokens(t) = {}
  BY DEF IInv, TodoReady, TypeOK
<1>2. \A t \in tick'.todo : Satisfied(t)'
  BY <1>1, SatisfiedKept DEF IInv, Graph!NoRow
<1> QED  BY <1>1, <1>2 DEF TodoReady

\* Tokens change their kind, or a task gets its first one.
LEMMA TokensMoved ==
  ASSUME OneToken, status' = status,
         \A t \in Tasks :
           /\ \A x, y \in Tokens(t)' : x = y
           /\ Starting(t) => Starting(t)'
           /\ \/ Tokens(t)' # {} => Tokens(t) # {}
              \/ status[t] \notin Quiet \union {"pending"}
              \/ status[t] = "pending" /\ Starting(t)'
  PROVE  OneToken'
<1> SUFFICES ASSUME NEW t \in Tasks
             PROVE  /\ \A x, y \in Tokens(t)' : x = y
                    /\ status'[t] \in Quiet => Tokens(t)' = {}
                    /\ status'[t] = "pending" /\ Tokens(t)' # {} => Starting(t)'
  BY DEF OneToken
<1>1. /\ \A x, y \in Tokens(t)' : x = y
      /\ Starting(t) => Starting(t)'
      /\ \/ Tokens(t)' # {} => Tokens(t) # {}
         \/ status[t] \notin Quiet \union {"pending"}
         \/ status[t] = "pending" /\ Starting(t)'
  OBVIOUS
<1>2. /\ status[t] \in Quiet => Tokens(t) = {}
      /\ status[t] = "pending" /\ Tokens(t) # {} => Starting(t)
  BY DEF OneToken
<1> QED  BY <1>1, <1>2 DEF Quiet

LEMMA GoalsInv ==
  ASSUME IInv, [Next]_vars, ReopenGoal \/ \E g \in Goals : CreateGoal(g)
  PROVE  IInv'
<1>1. /\ UNCHANGED <<status, goalOf, deps, kv, crew, job, inbox, underWay>>
      /\ \/ tick' = tick
         \/ tick.pc = "reopen" /\ tick' = [tick EXCEPT !.pc = "insert"]
  BY DEF ReopenGoal, CreateGoal, Graph!UpdateGoalStatus, Graph!CreateGoal
<1>2. tick \in Ticks
  BY DEF IInv, TypeOK, Ticks
<1>3. /\ tick' \in Ticks /\ tick'.mem = tick.mem /\ tick'.todo = tick.todo
      /\ tick'.results = tick.results
      /\ tick' = tick \/ (tick.pc = "reopen" /\ tick'.pc = "insert")
  BY <1>1, <1>2 DEF Ticks, Places, Unbroken
<1>4. \A t \in Tasks : Tokens(t)' = Tokens(t)
  BY <1>1, <1>3 DEF Tokens
<1>5. OneToken'
  <2>1. \A t \in Tasks : Starting(t) => Starting(t)'
    BY <1>1, <1>3 DEF Starting
  <2> QED  BY <1>1, <1>4, <2>1, TokensKept DEF IInv
<1>6. RowsStay /\ NoRowIsNew
  BY <1>1, SameRows
<1>7. TodoReady'
  <2>1. tick'.todo \subseteq Tasks /\ (tick'.pc = "none" => tick'.todo = {})
    BY <1>2, <1>3 DEF Ticks, IInv, TodoReady
  <2> QED  BY <1>1, <1>3, <1>4, <1>6, <2>1, TodoKept
<1>8. TaskHeld'
  <2>1. CASE tick' = tick
    BY <1>1, <1>4, <2>1 DEF IInv, TaskHeld, Satisfied, Graph!DependenciesSatisfied
  <2>2. CASE tick'.pc = "insert"
    BY <2>2 DEF TaskHeld
  <2> QED  BY <1>3, <2>1, <2>2
<1>9. PhaseOfTick'
  BY <1>1, <1>3 DEF IInv, PhaseOfTick, PhaseOf
<1> QED  BY <1>1, <1>3, <1>5, <1>6, <1>7, <1>8, <1>9, SameMemInv DEF IInv, TypeOK

LEMMA ResetTasksInv ==
  ASSUME IInv, [Next]_vars, ResetTasks
  PROVE  IInv'
<1>1. /\ UNCHANGED <<kv, crew, job, inbox, underWay>> /\ tick.pc = "replan"
      /\ tick' = [tick EXCEPT !.pc = "reopen"]
  BY DEF ResetTasks
<1>2. tick \in Ticks
  BY DEF IInv, TypeOK, Ticks
<1>3. /\ tick' \in Ticks /\ tick'.mem = tick.mem /\ tick'.todo = tick.todo
      /\ tick'.results = tick.results /\ tick'.pc = "reopen"
  BY <1>1, <1>2 DEF Ticks, Places, Unbroken
<1>4. \A t \in Tasks : Tokens(t)' = Tokens(t)
  BY <1>1, <1>3 DEF Tokens
<1>5. /\ RowsStay /\ NoRowIsNew
      /\ \A t \in Tasks : \/ status'[t] = status[t]
                          \/ status[t] \in {"failed", "blocked"}
  <2>1. tick.mem.goal \in Goals /\ Graph!ResetTasks(tick.mem.goal)
    BY <1>1, GoalOfTick DEF ResetTasks
  <2> QED  BY <2>1, ResetRows DEF IInv
<1>6. OneToken'
  <2>1. \A t \in Tasks : ~Starting(t)
    BY <1>1 DEF Starting
  <2> QED  BY <1>4, <1>5, <2>1, TokensKept DEF IInv, Quiet
<1>7. TodoReady'
  <2>1. \A t \in tick'.todo : t \in Tasks /\ status'[t] = status[t]
    BY <1>2, <1>3, <1>5 DEF IInv, TodoReady, Ticks
  <2> QED  BY <1>3, <1>4, <1>5, <2>1, TodoKept
<1>8. TaskHeld'
  BY <1>3 DEF TaskHeld
<1>9. PhaseOfTick'
  BY <1>1, <1>3 DEF IInv, PhaseOfTick, PhaseOf
<1> QED  BY <1>1, <1>3, <1>5, <1>6, <1>7, <1>8, <1>9, SameMemInv DEF IInv, TypeOK

LEMMA EvaluateInv ==
  ASSUME IInv, [Next]_vars, Evaluate
  PROVE  IInv'
<1>1. /\ tick.pc = "apply" /\ UNCHANGED <<kv, crew, job, inbox, underWay>>
      /\ tick.mem \in States /\ Fits(tick.mem) /\ tick.mem.phase = "executing"
      /\ tick.mem.goal \in Goals
  BY GoalOfTick DEF Evaluate, IInv, TypeOK, PhaseOfTick, PhaseOf
<1>2. ASSUME NEW p \in {"complete", "replanning", "failed"},
             Return([tick.mem EXCEPT !.phase = p]),
             UNCHANGED <<status, goalOf, deps>>,
             p = "complete" => \A t \in TasksOf(tick.mem.goal) : status[t] = "completed",
             p = "replanning" => MayReplan(tick.mem)
      PROVE  IInv'
  <2> DEFINE m == [tick.mem EXCEPT !.phase = p]
  <2>1. /\ m \in States /\ m.phase = p /\ m.goal = tick.mem.goal
        /\ m.replans = tick.mem.replans
    BY <1>1 DEF States, Phases
  <2>2. Return(m)
    BY <1>2
  <2> HIDE DEF m
  <2>3. Fits(m)
    BY <1>1, <1>2, <2>1, SentinelsFresh DEF Fits, MayReplan
  <2> QED  BY <1>1, <1>2, <2>1, <2>2, <2>3, ReturnSameRows
<1>3. CASE Return(tick.mem) /\ UNCHANGED tables
  BY <1>1, <1>3, ReturnSameRows DEF tables
<1>4. \/ /\ Graph!UpdateGoalStatus(tick.mem.goal, "completed")
         /\ Return([tick.mem EXCEPT !.phase = "complete"])
         /\ \A t \in TasksOf(tick.mem.goal) : status[t] = "completed"
      \/ Return([tick.mem EXCEPT !.phase = "replanning"]) /\ UNCHANGED tables /\ MayReplan(tick.mem)
      \/ Return([tick.mem EXCEPT !.phase = "failed"]) /\ UNCHANGED tables
      \/ Return(tick.mem) /\ UNCHANGED tables
  BY DEF Evaluate
<1> QED  BY <1>2, <1>3, <1>4 DEF tables, Graph!UpdateGoalStatus

LEMMA ReportInv ==
  ASSUME IInv, [Next]_vars, Report
  PROVE  IInv'
<1>1. /\ UNCHANGED <<status, goalOf, deps, crew, job, inbox, underWay>> /\ tick.pc = "report"
      /\ tick' = [tick EXCEPT !.pc = Loop]
      /\ Loop \in {"match", "apply"}
  BY DEF Report, Graph!UpdateGoalStatus, tables, Loop
<1>2. tick \in Ticks
  BY DEF IInv, TypeOK, Ticks
<1>3. /\ tick' \in Ticks /\ tick'.mem = tick.mem /\ tick'.todo = tick.todo
      /\ tick'.results = tick.results /\ tick'.pc \in {"match", "apply"}
  BY <1>1, <1>2 DEF Ticks, Places, Unbroken
<1>4. \A t \in Tasks : Tokens(t)' = Tokens(t)
  BY <1>1, <1>3 DEF Tokens
<1>5. RowsStay /\ NoRowIsNew
  BY <1>1, SameRows
<1>6. OneToken'
  <2>1. \A t \in Tasks : ~Starting(t)
    BY <1>1 DEF Starting
  <2> QED  BY <1>1, <1>4, <2>1, TokensKept DEF IInv
<1>7. TodoReady'
  <2>1. tick'.todo \subseteq Tasks
    BY <1>2, <1>3 DEF Ticks
  <2> QED  BY <1>1, <1>3, <1>4, <1>5, <2>1, TodoKept
<1>8. TaskHeld' /\ PhaseOfTick'
  BY <1>1, <1>3 DEF TaskHeld, IInv, PhaseOfTick, PhaseOf
<1>9. kv' \in States /\ Fits(kv)'
  <2> DEFINE g == goalOf[tick.task]
  <2>1. /\ tick.task \in Tasks /\ status[tick.task] = "failed"
        /\ g \in Goals /\ tick.task \in TasksOf(g)
    BY <1>1 DEF IInv, TaskHeld, Graph!IInv, Graph!NoOrphans, TasksOf, Graph!TasksOf,
       Graph!NoRow
  <2>2. \/ MayReplan(kv) /\ kv' = [kv EXCEPT !.phase = "replanning", !.goal = g]
        \/ kv' = [kv EXCEPT !.phase = "failed", !.goal = g]
    BY DEF Report
  <2>3. kv \in States
    BY DEF IInv, TypeOK
  <2>4. /\ kv' \in States /\ kv'.goal = g /\ kv'.replans = kv.replans
        /\ kv'.phase = "failed" \/ (kv'.phase = "replanning" /\ MayReplan(kv))
    BY <2>1, <2>2, <2>3 DEF States, Phases
  <2> HIDE DEF g
  <2>5. TasksOf(kv.goal)' # {}
    BY <1>1, <2>1, <2>4 DEF TasksOf, Graph!TasksOf
  <2> QED  BY <2>1, <2>4, <2>5, SentinelsFresh DEF Fits, MayReplan
<1>10. Fits(tick.mem)'
  BY <1>3, <1>5, FitsKept DEF IInv
<1>11. Graph!IInv' /\ Graph!TypeOK'
  BY GraphKept DEF Graph!IInv
<1>12. TypeOK'
  BY <1>1, <1>3, <1>9, <1>11 DEF TypeOK, IInv, Ticks
<1> QED  BY <1>6, <1>7, <1>8, <1>9, <1>10, <1>11, <1>12 DEF IInv

\* Task t is over or has failed, and whoever worked on it is done with it.
LEMMA TaskEnds ==
  ASSUME IInv, NEW t \in Tasks,
         \/ Graph!CompleteTask(t)
         \/ /\ Graph!FailTaskForRetry(t, TRUE) \/ Graph!FailTaskForGood(t, TRUE)
            /\ Tokens(t)' = {},
         \A u \in Tasks : Tokens(u)' \subseteq Tokens(u),
         \A u \in Tasks \ {t} : Starting(u) => Starting(u)',
         tick'.todo \subseteq tick.todo \ {t},
         tick'.pc = "none" => tick'.todo = {}
  PROVE  /\ RowsStay /\ NoRowIsNew /\ OneToken' /\ TodoReady'
         /\ \A u \in Tasks \ {t} :
              /\ status[u] # "blocked"
              /\ status[u] = "pending" => Satisfied(u)
              => status'[u] = status[u]
<1>1. /\ RowsStay /\ NoRowIsNew
      /\ status'[t] = "completed" \/ Tokens(t)' = {}
      /\ \A u \in Tasks \ {t} :
           \/ status'[u] = status[u]
           \/ status[u] = "blocked"
           \/ status[u] = "pending" /\ ~Satisfied(u)
  BY CompleteTaskRows, RetryRows, FailRows DEF OthersStay, IInv
<1>2. \A u \in Tasks : Starting(u) => Satisfied(u)
  BY DEF IInv, TaskHeld, Starting
<1>3. OneToken'
  <2>1. ASSUME NEW u \in Tasks
        PROVE  \/ Tokens(u)' = {}
               \/ status'[u] \notin Quiet \union {"pending"}
               \/ status[u] \in Quiet
               \/ status[u] = "pending" /\ ~Starting(u)
               \/ status'[u] = status[u] /\ (Starting(u) => Starting(u)')
    <3>1. CASE u = t
      BY <1>1, <3>1 DEF Quiet
    <3>2. CASE u # t
      BY <1>1, <1>2, <3>2 DEF Quiet
    <3> QED  BY <3>1, <3>2
  <2> QED  BY <2>1, TokensKept DEF IInv
<1>4. TodoReady'
  <2>1. ASSUME NEW u \in tick'.todo
        PROVE  status'[u] = status[u] /\ Tokens(u)' \subseteq Tokens(u)
    <3>1. u \in Tasks \ {t} /\ status[u] = "pending" /\ Satisfied(u)
      BY DEF IInv, TypeOK, TodoReady
    <3> QED  BY <1>1, <3>1
  <2> QED  BY <1>1, <2>1, TodoKept
<1> QED  BY <1>1, <1>3, <1>4

\* The tick sees t fail, of whom it held the last token, and goes on as r.
LEMMA HandleFailureInv ==
  ASSUME IInv, [Next]_vars, tick.pc \in {"dispatch", "apply"},
         NEW t \in Tasks, NEW r \in Ticks, HandleFailure(t, r),
         r.mem = tick.mem, r.todo \subseteq tick.todo \ {t},
         r.results \subseteq tick.results, \A m \in r.results : m.task # t,
         \A x \in Tokens(t) : \E m : x = <<"res", m>>,
         UNCHANGED <<crew, job, inbox, underWay>>
  PROVE  IInv'
<1>1. CASE Catch
  BY <1>1, CatchInv
<1>2. CASE ~Catch
  <2>1. /\ Graph!FailTaskForRetry(t, TRUE) \/ Graph!FailTaskForGood(t, TRUE)
        /\ kv' = kv
        /\ \/ tick' = [r EXCEPT !.pc = Loop]
           \/ Graph!FailTaskForGood(t, TRUE) /\ tick' = [r EXCEPT !.pc = "report", !.task = t]
    BY <1>2 DEF HandleFailure
  <2>2. Loop \in {"match", "apply"}
    BY DEF Loop
  <2>3. /\ tick' \in Ticks /\ tick'.mem = tick.mem /\ tick'.todo = r.todo
        /\ tick'.results = r.results
        /\ \/ tick'.pc \in {"match", "apply"}
           \/ Graph!FailTaskForGood(t, TRUE) /\ tick'.pc = "report" /\ tick'.task = t
    BY <2>1, <2>2 DEF Ticks, Places, Unbroken
  <2>4. \A u \in Tasks : Tokens(u)' \subseteq Tokens(u)
    BY <2>3 DEF Tokens
  <2>5. Tokens(t)' = {}
    <3>1. \A m : <<"res", m>> \notin Tokens(t)'
      BY <2>3 DEF Tokens
    <3> QED  BY <2>4, <3>1
  <2>6. \A u \in Tasks : ~Starting(u)
    BY DEF Starting
  <2>7. RowsStay /\ NoRowIsNew /\ OneToken' /\ TodoReady'
    BY <2>1, <2>3, <2>4, <2>5, <2>6, TaskEnds
  <2>8. TaskHeld'
    BY <2>3, FailRows DEF TaskHeld, IInv
  <2>9. PhaseOfTick'
    BY <2>1, <2>3 DEF IInv, PhaseOfTick, PhaseOf
  <2> QED  BY <2>1, <2>3, <2>7, <2>8, <2>9, SameMemInv DEF IInv, TypeOK
<1> QED  BY <1>1, <1>2

LEMMA AssignInv ==
  ASSUME IInv, [Next]_vars, Assign
  PROVE  IInv'
<1> DEFINE t == tick.task
<1>1. /\ tick.pc = "assign" /\ UNCHANGED <<crew, job, inbox, underWay>>
      /\ t \in Tasks /\ t \notin tick.todo
      /\ status[t] \in {"pending", "completed", "failed"}
      /\ tick \in Ticks
  BY DEF Assign, IInv, TaskHeld, TypeOK, Ticks
<1>2. CASE Graph!AssignTask(t, tick.agent)
  <2>1. /\ kv' = kv
        /\ tick' = [tick EXCEPT !.pc = IF tick.agent \in Children THEN "dispatch" ELSE "match"]
    BY <1>1, <1>2 DEF Assign, Graph!AssignTask
  <2>2. /\ tick' \in Ticks /\ tick'.mem = tick.mem /\ tick'.todo = tick.todo
        /\ tick'.results = tick.results /\ tick'.task = t /\ tick'.agent = tick.agent
        /\ tick'.pc = "match" \/ (tick'.pc = "dispatch" /\ tick.agent \in Children)
    BY <1>1, <2>1 DEF Ticks, Places, Unbroken
  <2>3. /\ RowsStay /\ NoRowIsNew /\ OthersStay(t)
        /\ status[t] = "pending" /\ status'[t] = "assigned"
    BY <1>1, <1>2, AssignRows DEF IInv
  <2>4. \A u \in Tasks : Tokens(u)' = Tokens(u)
    BY <1>1, <2>2 DEF Tokens
  <2>5. OneToken'
    <3>1. ASSUME NEW u \in Tasks
          PROVE  \/ status'[u] \notin Quiet \union {"pending"}
                 \/ status[u] \in Quiet
                 \/ status'[u] = status[u] /\ ~Starting(u)
      BY <2>3 DEF OthersStay, Quiet, Starting
    <3> QED  BY <2>4, <3>1, TokensKept DEF IInv
  <2>6. TodoReady'
    <3>1. ASSUME NEW u \in tick'.todo PROVE status'[u] = status[u] /\ Tokens(u)' \subseteq Tokens(u)
      <4>1. u \in Tasks \ {t} /\ status[u] = "pending"
        BY <1>1, <2>2 DEF Ticks, IInv, TodoReady
      <4> QED  BY <2>3, <2>4, <4>1 DEF OthersStay
    <3> QED  BY <2>2, <2>3, <3>1, TodoKept
  <2>7. TaskHeld'
    <3>1. tick.agent \in Children => Tokens(t) = {}
      BY <1>1, <2>3, AddressesDistinct DEF IInv, OneToken, Starting
    <3>2. tick.agent \in Children => Tokens(tick.task)' = {}
      BY <1>1, <2>2, <2>4, <3>1
    <3> QED  BY <1>1, <2>2, <2>3, <3>2 DEF TaskHeld
  <2>8. PhaseOfTick'
    BY <1>1, <2>1, <2>2 DEF IInv, PhaseOfTick, PhaseOf
  <2> QED  BY <1>1, <2>1, <2>2, <2>3, <2>5, <2>6, <2>7, <2>8, SameMemInv DEF IInv, TypeOK
<1>3. CASE status[t] # "pending" /\ HandleFailure(t, tick)
  <2>1. Catch
    BY <1>1, <1>3 DEF HandleFailure, Graph!FailTaskForRetry, Graph!FailTaskForGood,
       Graph!TerminalStatus
  <2> QED  BY <1>1, <1>3, <2>1, CatchInv
<1> QED  BY <1>2, <1>3 DEF Assign

LEMMA MatchInv ==
  ASSUME IInv, [Next]_vars, NEW t \in Tasks, Match(t)
  PROVE  IInv'
<1>1. PICK a \in Agents :
        /\ tick' = [tick EXCEPT !.pc = "assign", !.task = t, !.agent = a, !.todo = @ \ {t}]
        /\ \/ UNCHANGED <<crew, job>>
           \/ /\ a \in Workers \union Children
              /\ crew' = crew \union {a}
              /\ job' = [w \in Workers |-> IF w = a THEN t ELSE job[w]]
  BY DEF Match
<1>2. /\ tick.pc = "match" /\ t \in tick.todo /\ UNCHANGED <<tables, kv, inbox, underWay>>
      /\ UNCHANGED <<status, goalOf, deps>>
      /\ tick \in Ticks
      /\ status[t] = "pending" /\ Satisfied(t) /\ Tokens(t) = {}
  BY DEF Match, IInv, TodoReady, TypeOK, Ticks, tables
<1>3. /\ tick' \in Ticks /\ tick'.mem = tick.mem /\ tick'.todo = tick.todo \ {t}
      /\ tick'.results = tick.results /\ tick'.pc = "assign" /\ tick'.task = t
      /\ tick'.agent = a
  BY <1>1, <1>2 DEF Ticks, Places, Unbroken
<1>4. /\ \A u \in Tasks \ {t} : Tokens(u)' \subseteq Tokens(u)
      /\ Tokens(t)' \subseteq {<<"job", a>>}
      /\ a \notin Workers \/ job' = job => Tokens(t)' = {}
      /\ Tokens(t)' # {} => a \in Workers /\ job'[a] = t
  <2>1. CASE UNCHANGED <<crew, job>>
    <3>1. \A u \in Tasks : Tokens(u)' = Tokens(u)
      BY <1>2, <1>3, <2>1 DEF Tokens
    <3> QED  BY <1>2, <3>1
  <2>2. CASE job' = [w \in Workers |-> IF w = a THEN t ELSE job[w]]
    <3>1. \A u \in Tasks \ {t} : Tokens(u)' \subseteq Tokens(u)
      BY <1>2, <1>3, <2>2 DEF Tokens
    <3>2. \A w \in Workers : job[w] # t
      BY <1>2, TokenKinds
    <3>3. Tokens(t)' \subseteq Tokens(t) \union {<<"job", a>>}
      BY <1>2, <1>3, <2>2 DEF Tokens
    <3>4. \A w : <<"job", w>> \in Tokens(t)' => w \in Workers /\ job'[w] = t
      BY DEF Tokens
    <3> QED  BY <1>2, <2>2, <3>1, <3>2, <3>3, <3>4
  <2> QED  BY <1>1, <2>1, <2>2
<1>5. RowsStay /\ NoRowIsNew
  BY <1>2, SameRows
<1>6. OneToken'
  <2>1. ASSUME NEW u \in Tasks
        PROVE  /\ \A x, y \in Tokens(u)' : x = y
               /\ ~Starting(u)
               /\ \/ Tokens(u)' # {} => Tokens(u) # {}
                  \/ status[u] = "pending" /\ Starting(u)'
    <3>1. CASE u = t
      BY <1>2, <1>3, <1>4, <3>1 DEF Starting
    <3>2. CASE u # t
      <4>1. Tokens(u)' \subseteq Tokens(u) /\ \A x, y \in Tokens(u) : x = y
        BY <1>4, <3>2 DEF IInv, OneToken
      <4> QED  BY <1>2, <4>1 DEF Starting
    <3> QED  BY <3>1, <3>2
  <2> QED  BY <1>2, <2>1, TokensMoved DEF IInv
<1>7. TodoReady'
  <2>1. tick'.todo \subseteq tick.todo /\ tick'.todo \subseteq Tasks \ {t}
    BY <1>2, <1>3 DEF Ticks
  <2> QED  BY <1>2, <1>3, <1>4, <1>5, <2>1, TodoKept
<1>8. TaskHeld'
  <2>1. Satisfied(t)'
    BY <1>2 DEF Satisfied, Graph!DependenciesSatisfied
  <2>2. Satisfied(tick.task)'
    BY <1>3, <2>1
  <2> QED  BY <1>2, <1>3, <2>2 DEF TaskHeld
<1>9. PhaseOfTick'
  BY <1>2, <1>3 DEF IInv, PhaseOfTick, PhaseOf
<1>10. /\ crew' \subseteq Workers \union Children
       /\ job' \in [Workers -> Tasks \union {NoTask}]
  BY <1>1 DEF IInv, TypeOK
<1> QED  BY <1>2, <1>3, <1>5, <1>6, <1>7, <1>8, <1>9, <1>10, SameMemInv DEF IInv, TypeOK

LEMMA DispatchInv ==
  ASSUME IInv, [Next]_vars, Dispatch
  PROVE  IInv'
<1>0. PICK t \in Tasks : t = tick.task
  BY DEF Dispatch, IInv, TaskHeld
<1>1. /\ tick.pc = "dispatch" /\ UNCHANGED <<crew, job, underWay>>
      /\ tick.agent \in Children
      /\ status[t] = "assigned" /\ Tokens(t) = {}
      /\ tick \in Ticks
  BY <1>0 DEF Dispatch, IInv, TaskHeld, TypeOK, Ticks
<1>2. CASE HandleFailure(t, tick) /\ inbox' = inbox
  <2>1. t \notin tick.todo
    BY <1>1 DEF IInv, TodoReady
  <2>2. \A m \in tick.results : m.task # t
    BY <1>1, TokenKinds
  <2> QED  BY <1>1, <1>2, <2>1, <2>2, HandleFailureInv
<1>3. CASE /\ inbox' = inbox \union {Order(tick.agent, t)}
           /\ tick' = [tick EXCEPT !.pc = "match"] /\ UNCHANGED <<tables, kv>>
  <2>1. /\ tick' \in Ticks /\ tick'.mem = tick.mem /\ tick'.todo = tick.todo
        /\ tick'.results = tick.results /\ tick'.pc = "match"
    BY <1>1, <1>3 DEF Ticks, Places, Unbroken
  <2>2. PICK order \in Messages : order = Order(tick.agent, t)
    BY <1>1 DEF Messages
  <2>3. UNCHANGED <<status, goalOf, deps>>
    BY <1>3 DEF tables
  <2>4. /\ \A u \in Tasks \ {t} : Tokens(u)' = Tokens(u)
        /\ Tokens(t)' \subseteq Tokens(t) \union {<<"in", order>>}
    <3>1. order.task = t
      BY <2>2 DEF Order
    <3> QED  BY <1>1, <1>3, <2>1, <2>2, <3>1 DEF Tokens
  <2>5. OneToken'
    <3>1. ASSUME NEW u \in Tasks
          PROVE  /\ \A x, y \in Tokens(u)' : x = y
                 /\ ~Starting(u)
                 /\ \/ Tokens(u)' # {} => Tokens(u) # {}
                    \/ status[u] \notin Quiet \union {"pending"}
      <4>1. CASE u = t
        BY <1>1, <2>4, <4>1 DEF Starting, Quiet
      <4>2. CASE u # t
        <5>1. Tokens(u)' = Tokens(u)
          BY <2>4, <4>2
        <5>2. \A x, y \in Tokens(u) : x = y
          BY DEF IInv, OneToken
        <5> QED  BY <1>1, <5>1, <5>2 DEF Starting
      <4> QED  BY <4>1, <4>2
    <3> QED  BY <2>3, <3>1, TokensMoved DEF IInv
  <2>6. TodoReady'
    <3>1. \A u \in tick.todo : u \in Tasks /\ u # t
      BY <1>1 DEF IInv, TodoReady, Ticks
    <3> QED  BY <2>1, <2>3, <2>4, <3>1, TodoKept, SameRows
  <2>7. TaskHeld' /\ PhaseOfTick'
    BY <1>1, <1>3, <2>1 DEF TaskHeld, IInv, PhaseOfTick, PhaseOf
  <2> QED  BY <1>1, <1>3, <2>1, <2>2, <2>3, <2>5, <2>6, <2>7, SameRows, SameMemInv
           DEF IInv, TypeOK
<1> QED  BY <1>0, <1>2, <1>3 DEF Dispatch

LEMMA CollectInv ==
  ASSUME IInv, [Next]_vars, CollectResults
  PROVE  IInv'
<1>1. /\ tick.pc = "match" /\ tick.todo = {} /\ inbox' = {}
      /\ tick' = [tick EXCEPT !.pc = "apply", !.collected = TRUE,
                              !.results = {m \in inbox : m.type = "task_result"}]
      /\ UNCHANGED <<tables, kv, crew, job, underWay>>
      /\ UNCHANGED <<status, goalOf, deps>>
      /\ tick \in Ticks /\ inbox \subseteq Messages
  BY DEF CollectResults, tables, IInv, TypeOK, Ticks
<1>2. /\ tick' \in Ticks /\ tick'.mem = tick.mem /\ tick'.todo = {}
      /\ tick'.results \subseteq inbox /\ tick'.pc = "apply"
  BY <1>1 DEF Ticks, Places, Unbroken
<1>3. OneToken'
  <2>1. ASSUME NEW u \in Tasks
        PROVE  /\ \A x, y \in Tokens(u)' : x = y
               /\ Tokens(u)' # {} => Tokens(u) # {}
    <3>1. \A m : /\ <<"in", m>> \notin Tokens(u)'
                 /\ <<"res", m>> \in Tokens(u)' => <<"in", m>> \in Tokens(u)
      BY <1>1, <1>2, TokenKinds, TokenKindsNext
    <3>2. \A y : /\ <<"job", y>> \in Tokens(u)' => <<"job", y>> \in Tokens(u)
                 /\ <<"way", y>> \in Tokens(u)' => <<"way", y>> \in Tokens(u)
      BY <1>1, TokenKinds, TokenKindsNext
    <3>3. ASSUME NEW x \in Tokens(u)'
          PROVE  \E y : x \in {<<"job", y>>, <<"way", y>>, <<"res", y>>}
      <4>1. PICK y : x \in {<<"job", y>>, <<"way", y>>, <<"in", y>>, <<"res", y>>}
        BY TokenKindsNext
      <4>2. x # <<"in", y>>
        BY <3>1
      <4> QED  BY <4>1, <4>2
    <3>4. \A x, y \in Tokens(u) : x = y
      BY DEF IInv, OneToken
    <3>5. Tokens(u)' # {} => Tokens(u) # {}
      BY <3>1, <3>2, <3>3
    <3>6. ASSUME NEW x \in Tokens(u)', NEW y \in Tokens(u)' PROVE x = y
      <4>1. PICK a : x \in {<<"job", a>>, <<"way", a>>, <<"res", a>>}
        BY <3>3
      <4>2. PICK b : y \in {<<"job", b>>, <<"way", b>>, <<"res", b>>}
        BY <3>3
      <4> DEFINE Was(z, c) == IF z = <<"res", c>> THEN <<"in", c>> ELSE z
      <4>3. Was(x, a) \in Tokens(u) /\ Was(y, b) \in Tokens(u)
        BY <3>1, <3>2, <4>1, <4>2
      <4>4. Was(x, a) = Was(y, b)
        BY <3>4, <4>3
      <4> QED  BY <4>1, <4>2, <4>4
    <3> QED  BY <3>5, <3>6
  <2>2. \A u \in Tasks : ~Starting(u)
    BY <1>1 DEF Starting
  <2> QED  BY <1>1, <2>1, <2>2, TokensMoved DEF IInv
<1>4. TodoReady' /\ TaskHeld' /\ PhaseOfTick'
  BY <1>1, <1>2 DEF TodoReady, TaskHeld, IInv, PhaseOfTick, PhaseOf
<1> QED  BY <1>1, <1>2, <1>3, <1>4, SameRows, SameMemInv DEF IInv, TypeOK

LEMMA ApplyResultInv ==
  ASSUME IInv, [Next]_vars, NEW m \in Messages, ApplyResult(m)
  PROVE  IInv'
<1> DEFINE t == m.task
           rest == [tick EXCEPT !.results = @ \ {m}]
<1>1. /\ tick.pc = "apply" /\ m \in tick.results /\ UNCHANGED <<crew, job, inbox, underWay>>
      /\ t \in Tasks /\ tick \in Ticks
  BY DEF ApplyResult, Messages, Order, Result, IInv, TypeOK, Ticks
<1>2. Tokens(t) = {<<"res", m>>}
  <2>1. <<"res", m>> \in Tokens(t)
    BY <1>1, TokenKinds
  <2>2. \A x, y \in Tokens(t) : x = y
    BY <1>1 DEF IInv, OneToken
  <2> QED  BY <2>1, <2>2
<1>3. t \notin tick.todo
  BY <1>2 DEF IInv, TodoReady
<1>4. /\ rest \in Ticks /\ rest.mem = tick.mem /\ rest.todo = tick.todo
      /\ rest.results = tick.results \ {m} /\ rest.pc = "apply"
  BY <1>1 DEF Ticks
<1>5. \A n \in rest.results : n.task # t
  <2>1. \A n \in tick.results : n.task = t => <<"res", n>> \in Tokens(t)
    BY TokenKinds
  <2> QED  BY <1>2, <1>4, <2>1
<1>6. CASE HandleFailure(t, rest)
  <2> HIDE DEF t, rest
  <2> QED  BY <1>1, <1>2, <1>3, <1>4, <1>5, <1>6, HandleFailureInv
<1>7. CASE Graph!CompleteTask(t) /\ tick' = rest /\ kv' = kv
  <2> HIDE DEF t, rest
  <2>1. \A u \in Tasks : Tokens(u)' \subseteq Tokens(u)
    BY <1>1, <1>4, <1>7 DEF Tokens
  <2>2. \A u \in Tasks : ~Starting(u)
    BY <1>1 DEF Starting
  <2>3. RowsStay /\ NoRowIsNew /\ OneToken' /\ TodoReady'
    BY <1>1, <1>3, <1>4, <1>7, <2>1, <2>2, TaskEnds
  <2>4. TaskHeld' /\ PhaseOfTick'
    BY <1>1, <1>4, <1>7 DEF TaskHeld, IInv, PhaseOfTick, PhaseOf
  <2> QED  BY <1>1, <1>4, <1>7, <2>3, <2>4, SameMemInv DEF IInv, TypeOK
<1> QED  BY <1>6, <1>7 DEF ApplyResult

\* The tools, which run between two ticks.
LEMMA ToolsInv ==
  ASSUME IInv, [Next]_vars,
         (\E g \in Goals : CancelGoal(g)) \/ (\E t \in Tasks : ResolveTask(t))
  PROVE  IInv'
<1>1. /\ tick.pc = "none" /\ UNCHANGED <<kv, tick, crew, job, inbox, underWay>>
      /\ tick \in Ticks /\ tick.todo = {}
  BY DEF CancelGoal, ResolveTask, IInv, TodoReady, TypeOK, Ticks
<1>2. \A u \in Tasks : Tokens(u)' = Tokens(u)
  BY <1>1 DEF Tokens
<1>3. \A u \in Tasks : ~Starting(u)
  BY <1>1 DEF Starting
<1>4. RowsStay /\ NoRowIsNew /\ OneToken' /\ TodoReady'
  <2>1. ASSUME NEW g \in Goals, CancelGoal(g)
        PROVE  RowsStay /\ NoRowIsNew /\ OneToken' /\ TodoReady'
    <3>1. /\ RowsStay /\ NoRowIsNew
          /\ \A u \in Tasks : status'[u] \in {status[u], "cancelled"}
      BY <2>1, CancelRows DEF CancelGoal, IInv
    <3>2. ASSUME NEW u \in Tasks
          PROVE  \/ status'[u] \notin Quiet \union {"pending"}
                 \/ status'[u] = status[u] /\ (Starting(u) => Starting(u)')
      BY <1>3, <3>1 DEF Quiet
    <3>3. OneToken'
      BY <1>2, <3>2, TokensKept DEF IInv
    <3> QED  BY <1>1, <3>1, <3>3 DEF TodoReady
  <2>2. ASSUME NEW t \in Tasks, ResolveTask(t)
        PROVE  RowsStay /\ NoRowIsNew /\ OneToken' /\ TodoReady'
    BY <1>1, <1>2, <1>3, <2>2, TaskEnds DEF ResolveTask
  <2> QED  BY <2>1, <2>2
<1>5. TaskHeld' /\ PhaseOfTick'
  BY <1>1 DEF TaskHeld, IInv, PhaseOfTick
<1> QED  BY <1>1, <1>4, <1>5, SameMemInv DEF IInv, TypeOK

LEMMA WorkerEndsInv ==
  ASSUME IInv, [Next]_vars, NEW w \in Workers, WorkerEnds(w)
  PROVE  IInv'
<1> DEFINE t == job[w]
<1>1. /\ tick.pc \notin Unbroken /\ UNCHANGED <<kv, tick, crew, inbox, underWay>>
      /\ tick \in Ticks /\ t \in Tasks
      /\ job \in [Workers -> Tasks \union {NoTask}]
      /\ job' = [job EXCEPT ![w] = NoTask]
  BY DEF WorkerEnds, Yielded, IInv, TypeOK, Ticks
<1>2. PICK u \in Tasks : u = t
  BY <1>1
<1> HIDE DEF t
<1>3. /\ job' \in [Workers -> Tasks \union {NoTask}]
      /\ \A v \in Workers : job'[v] = IF v = w THEN NoTask ELSE job[v]
      /\ job[w] = u
  BY <1>1, <1>2 DEF t
<1>4. Tokens(u) = {<<"job", w>>}
  <2>1. <<"job", w>> \in Tokens(u)
    BY <1>3, TokenKinds
  <2>2. \A x, y \in Tokens(u) : x = y
    BY DEF IInv, OneToken
  <2> QED  BY <2>1, <2>2
<1>5. \A x \in Tasks : Tokens(x)' \subseteq Tokens(x)
  BY <1>1, <1>3, SentinelsFresh DEF Tokens
<1>6. Tokens(u)' = {}
  <2>1. <<"job", w>> \notin Tokens(u)'
    BY <1>3, SentinelsFresh, TokenKindsNext
  <2> QED  BY <1>4, <1>5, <2>1
<1>7. u \notin tick.todo
  BY <1>4 DEF IInv, TodoReady
<1>8. \A x \in Tasks \ {u} : Starting(x) => Starting(x)'
  BY <1>1, <1>3 DEF Starting
<1>9. PhaseOfTick'
  BY <1>1 DEF IInv, PhaseOfTick
\* The task may be over.
<1>10. CASE UNCHANGED tables
  <2>1. UNCHANGED <<status, goalOf, deps>>
    BY <1>10 DEF tables
  <2>2. RowsStay /\ NoRowIsNew
    BY <2>1, SameRows
  <2>3. OneToken'
    <3>1. ASSUME NEW x \in Tasks
          PROVE  \/ Tokens(x)' = {}
                 \/ status'[x] = status[x] /\ (Starting(x) => Starting(x)')
      BY <1>6, <1>8, <2>1
    <3> QED  BY <1>5, <3>1, TokensKept DEF IInv
  <2>4. TodoReady'
    <3>1. \A x \in tick'.todo : x \in Tasks /\ Tokens(x)' \subseteq Tokens(x)
      BY <1>1, <1>5 DEF Ticks
    <3> QED  BY <1>1, <2>1, <2>2, <3>1, TodoKept DEF IInv, TodoReady
  <2>5. TaskHeld'
    <3>1. tick.pc = "dispatch" => Tokens(tick.task)' = {}
      BY <1>1, <1>5 DEF IInv, TaskHeld
    <3> QED  BY <1>1, <2>1, <3>1
             DEF IInv, TaskHeld, Satisfied, Graph!DependenciesSatisfied
  <2> QED  BY <1>1, <1>3, <1>9, <2>2, <2>3, <2>4, <2>5, SameMemInv DEF IInv, TypeOK
<1>11. CASE Graph!CompleteTask(u) \/ Graph!FailTask(u, TRUE)
  <2>1. /\ RowsStay /\ NoRowIsNew /\ OneToken' /\ TodoReady'
        /\ \A x \in Tasks \ {u} :
             /\ status[x] # "blocked"
             /\ status[x] = "pending" => Satisfied(x)
             => status'[x] = status[x]
    <3>1. tick'.todo \subseteq tick.todo \ {u} /\ (tick'.pc = "none" => tick'.todo = {})
      BY <1>1, <1>7 DEF IInv, TodoReady
    <3> QED  BY <1>5, <1>6, <1>8, <1>11, <3>1, TaskEnds DEF Graph!FailTask
  <2>2. ASSUME tick.pc = "assign" PROVE TaskHeld'
    <3>1. PICK x \in Tasks : x = tick.task
      BY <2>2 DEF IInv, TaskHeld
    <3>2. /\ x \notin tick.todo /\ tick.agent \in Agents /\ Satisfied(x)
          /\ status[x] \in {"pending", "completed", "failed"}
      BY <2>2, <3>1 DEF IInv, TaskHeld
    <3>3. Satisfied(x)'
      BY <2>1, <3>2, SatisfiedKept DEF IInv, Graph!NoRow
    <3>4. status'[x] \in {"pending", "completed", "failed"}
      <4>1. CASE x = u
        BY <1>11, <3>2, <4>1, CompleteTaskRows, RetryRows, FailRows
           DEF IInv, Graph!FailTask
      <4>2. CASE x # u
        BY <2>1, <3>2, <4>2
      <4> QED  BY <4>1, <4>2
    <3> QED  BY <1>1, <2>2, <3>1, <3>2, <3>3, <3>4 DEF TaskHeld
  <2>3. ASSUME tick.pc = "dispatch" PROVE TaskHeld'
    <3>1. PICK x \in Tasks : x = tick.task
      BY <2>3 DEF IInv, TaskHeld
    <3>2. tick.agent \in Children /\ status[x] = "assigned" /\ Tokens(x) = {}
      BY <2>3, <3>1 DEF IInv, TaskHeld
    <3>3. x # u /\ Tokens(x)' = {}
      BY <1>4, <1>5, <3>2
    <3> QED  BY <1>1, <2>1, <2>3, <3>1, <3>2, <3>3 DEF TaskHeld
  <2>4. ASSUME tick.pc \notin {"assign", "dispatch"} PROVE TaskHeld'
    BY <1>1, <2>4 DEF TaskHeld, Unbroken
  <2> QED  BY <1>1, <1>3, <1>9, <2>1, <2>2, <2>3, <2>4, SameMemInv DEF IInv, TypeOK
<1> QED  BY <1>2, <1>10, <1>11 DEF WorkerEnds, t

\* The one token of a task changes its kind outside the process.
LEMMA MessageInv ==
  ASSUME IInv, [Next]_vars, UNCHANGED <<tables, kv, tick, crew, job>>,
         inbox' \subseteq Messages, underWay' \subseteq Children \X Tasks,
         NEW t \in Tasks, Tokens(t) # {}, NEW x, Tokens(t)' \subseteq {x},
         \A u \in Tasks \ {t} : Tokens(u)' = Tokens(u)
  PROVE  IInv'
<1>1. UNCHANGED <<status, goalOf, deps>> /\ tick \in Ticks
  BY DEF tables, IInv, TypeOK, Ticks
<1>2. RowsStay /\ NoRowIsNew
  BY <1>1, SameRows
<1>3. OneToken'
  <2>1. ASSUME NEW u \in Tasks
        PROVE  /\ \A y, z \in Tokens(u)' : y = z
               /\ Tokens(u)' # {} => Tokens(u) # {}
    <3>1. \A y, z \in Tokens(u) : y = z
      BY DEF IInv, OneToken
    <3> QED  BY <3>1
  <2>2. \A u \in Tasks : Starting(u) => Starting(u)'
    BY DEF Starting
  <2> QED  BY <1>1, <2>1, <2>2, TokensMoved DEF IInv
<1>4. TodoReady'
  <2>1. \A u \in tick.todo : u \in Tasks \ {t}
    BY <1>1 DEF IInv, TodoReady, Ticks
  <2> QED  BY <1>1, <1>2, <2>1, TodoKept DEF IInv, TodoReady
<1>5. TaskHeld'
  <2>1. tick.pc = "dispatch" => Tokens(tick.task)' = {}
    <3>1. ASSUME tick.pc = "dispatch" PROVE tick.task \in Tasks \ {t} /\ Tokens(tick.task) = {}
      BY <3>1 DEF IInv, TaskHeld
    <3> QED  BY <3>1
  <2> QED  BY <1>1, <2>1 DEF IInv, TaskHeld, Satisfied, Graph!DependenciesSatisfied
<1>6. PhaseOfTick'
  BY DEF IInv, PhaseOfTick
<1> QED  BY <1>1, <1>2, <1>3, <1>4, <1>5, <1>6, SameMemInv DEF IInv, TypeOK

LEMMA ReadOrderInv ==
  ASSUME IInv, [Next]_vars, NEW c \in Children, NEW t \in Tasks, ReadOrder(c, t)
  PROVE  IInv'
<1>1. PICK order \in Messages : order = Order(c, t)
  BY DEF Messages
<1>2. order.task = t
  BY <1>1 DEF Order
<1>3. /\ order \in inbox /\ inbox' = inbox \ {order} /\ underWay' = underWay \union {<<c, t>>}
      /\ UNCHANGED <<tables, kv, tick, crew, job>>
  BY <1>1 DEF ReadOrder
<1>4. Tokens(t) = {<<"in", order>>}
  <2>1. <<"in", order>> \in Tokens(t)
    BY <1>2, <1>3, TokenKinds
  <2>2. \A x, y \in Tokens(t) : x = y
    BY DEF IInv, OneToken
  <2> QED  BY <2>1, <2>2
<1>5. /\ Tokens(t)' \subseteq Tokens(t) \union {<<"way", c>>}
      /\ \A u \in Tasks \ {t} : Tokens(u)' = Tokens(u)
  BY <1>2, <1>3 DEF Tokens
<1>6. <<"in", order>> \notin Tokens(t)'
  BY <1>3, TokenKindsNext
<1>7. inbox' \subseteq Messages /\ underWay' \subseteq Children \X Tasks
  BY <1>3 DEF IInv, TypeOK
<1>8. Tokens(t)' \subseteq {<<"way", c>>} /\ Tokens(t) # {}
  BY <1>4, <1>5, <1>6
<1> QED  BY <1>3, <1>5, <1>7, <1>8, MessageInv

LEMMA AnswerInv ==
  ASSUME IInv, [Next]_vars, NEW c \in Children, NEW t \in Tasks, NEW ok \in BOOLEAN,
         Answer(c, t, ok)
  PROVE  IInv'
<1>1. PICK result \in Messages : result = Result(c, t, ok)
  BY DEF Messages
<1>2. result.task = t
  BY <1>1 DEF Result
<1>3. /\ <<c, t>> \in underWay /\ underWay' = underWay \ {<<c, t>>}
      /\ inbox' = inbox \union {result}
      /\ UNCHANGED <<tables, kv, tick, crew, job>>
  BY <1>1 DEF Answer
<1>4. Tokens(t) = {<<"way", c>>}
  <2>1. <<"way", c>> \in Tokens(t)
    BY <1>3, TokenKinds
  <2>2. \A x, y \in Tokens(t) : x = y
    BY DEF IInv, OneToken
  <2> QED  BY <2>1, <2>2
<1>5. /\ Tokens(t)' \subseteq Tokens(t) \union {<<"in", result>>}
      /\ \A u \in Tasks \ {t} : Tokens(u)' = Tokens(u)
  BY <1>2, <1>3 DEF Tokens
<1>6. <<"way", c>> \notin Tokens(t)'
  BY <1>3, TokenKindsNext
<1>7. inbox' \subseteq Messages /\ underWay' \subseteq Children \X Tasks
  BY <1>3 DEF IInv, TypeOK
<1>8. Tokens(t)' \subseteq {<<"in", result>>} /\ Tokens(t) # {}
  BY <1>4, <1>5, <1>6
<1> QED  BY <1>3, <1>5, <1>7, <1>8, MessageInv

-----------------------------------------------------------------------------
(***************************************************************************)
(* The theorems.                                                           *)
(***************************************************************************)
LEMMA StutterInv ==
  ASSUME IInv, UNCHANGED vars
  PROVE  IInv'
<1>1. /\ UNCHANGED <<status, goalOf, deps, kv, tick, crew, job, inbox, underWay>>
      /\ UNCHANGED tables
  BY DEF vars, tables
<1>2. \A t \in Tasks : Tokens(t)' = Tokens(t)
  BY <1>1 DEF Tokens
<1>3. \A t \in Tasks : (Starting(t) <=> Starting(t)') /\ (Satisfied(t) <=> Satisfied(t)')
  BY <1>1 DEF Starting, Satisfied, Graph!DependenciesSatisfied
<1>4. RowsStay /\ NoRowIsNew
  BY <1>1, SameRows
<1>5. OneToken'
  BY <1>1, <1>2, <1>3, TokensKept DEF IInv
<1>6. TodoReady'
  <2>1. tick.todo \subseteq Tasks
    BY DEF IInv, TypeOK
  <2> QED  BY <1>1, <1>2, <1>4, <2>1, TodoKept DEF IInv, TodoReady
<1>7. TaskHeld'
  <2>1. tick.pc = "dispatch" => Tokens(tick.task)' = {}
    BY <1>1, <1>2 DEF IInv, TaskHeld
  <2> QED  BY <1>1, <2>1 DEF IInv, TaskHeld, Satisfied, Graph!DependenciesSatisfied
<1>8. PhaseOfTick'
  BY <1>1 DEF IInv, PhaseOfTick
<1> QED  BY <1>1, <1>4, <1>5, <1>6, <1>7, <1>8, SameMemInv DEF IInv, TypeOK, Ticks

LEMMA InitInv == Init => IInv
<1> SUFFICES ASSUME Init PROVE IInv
  OBVIOUS
<1>1. Graph!IInv /\ Graph!TypeOK
  BY GraphInit DEF Init, Graph!IInv
<1>2. /\ kv = DefaultState /\ tick = NoTick /\ inbox = {} /\ underWay = {}
      /\ tick.pc = "none" /\ tick.todo = {} /\ tick.results = {} /\ tick.mem = DefaultState
  BY DEF Init, NoTick
<1>3. TypeOK
  BY <1>1, <1>2, DefaultFits DEF Init, TypeOK, Ticks
<1>4. \A t \in Tasks : Tokens(t) = {}
  BY <1>2, SentinelsFresh DEF Init, Tokens
<1>5. OneToken
  BY <1>4 DEF OneToken
<1>6. TodoReady /\ TaskHeld /\ PhaseOfTick
  BY <1>2 DEF TodoReady, TaskHeld, PhaseOfTick
<1>7. Fits(kv) /\ Fits(tick.mem)
  BY <1>2, DefaultFits DEF Fits
<1> QED  BY <1>1, <1>3, <1>5, <1>6, <1>7 DEF IInv

LEMMA StepInv == IInv /\ [Next]_vars => IInv'
<1> SUFFICES ASSUME IInv, [Next]_vars PROVE IInv'
  OBVIOUS
<1>1. CASE Step
  <2>1. CASE SaveState
    BY <2>1, NoTickInv
  <2>2. CASE TickIdle \/ TickPlanReview \/ TickComplete \/ TickFailed
    BY <2>2, ReturnsInv
  <2>3. CASE TickClassifying \/ TickPlanning \/ TickExecuting \/ TickReplanning
    BY <2>3, AwaitsInv
  <2>4. CASE Classified \/ Planned \/ Replanned
    BY <2>4, InsertsInv
  <2>5. CASE Assign
    BY <2>5, AssignInv
  <2>6. CASE Dispatch
    BY <2>6, DispatchInv
  <2>7. CASE CollectResults
    BY <2>7, CollectInv
  <2>8. CASE Report
    BY <2>8, ReportInv
  <2>9. CASE Evaluate
    BY <2>9, EvaluateInv
  <2>10. ASSUME NEW t \in Tasks, Match(t) PROVE IInv'
    BY <2>10, MatchInv
  <2>11. ASSUME NEW m \in Messages, ApplyResult(m) PROVE IInv'
    BY <2>11, ApplyResultInv
  <2>12. CASE ResetTasks
    BY <2>12, ResetTasksInv
  <2>13. CASE ReopenGoal
    BY <2>13, GoalsInv
  <2> QED  BY <1>1, <2>1, <2>2, <2>3, <2>4, <2>5, <2>6, <2>7, <2>8, <2>9, <2>10,
              <2>11, <2>12, <2>13 DEF Step
<1>2. ASSUME NEW g \in Goals, CreateGoal(g) PROVE IInv'
  BY <1>2, GoalsInv
<1>3. ASSUME NEW g \in Goals, CancelGoal(g) PROVE IInv'
  BY <1>3, ToolsInv
<1>4. ASSUME NEW t \in Tasks, ResolveTask(t) PROVE IInv'
  BY <1>4, ToolsInv
<1>5. ASSUME NEW w \in Workers, WorkerEnds(w) PROVE IInv'
  BY <1>5, WorkerEndsInv
<1>6. ASSUME NEW c \in Children, NEW t \in Tasks, ReadOrder(c, t) PROVE IInv'
  BY <1>6, ReadOrderInv
<1>7. ASSUME NEW c \in Children, NEW t \in Tasks, NEW ok \in BOOLEAN, Answer(c, t, ok)
      PROVE  IInv'
  BY <1>7, AnswerInv
<1>8. CASE Restart
  BY <1>8, NoTickInv
<1>9. CASE UNCHANGED vars
  BY <1>9, StutterInv
<1> QED  BY <1>1, <1>2, <1>3, <1>4, <1>5, <1>6, <1>7, <1>8, <1>9 DEF Next

THEOREM InvariantHolds == Spec => []IInv
<1> QED  BY InitInv, StepInv, PTL DEF Spec

\* The saved state and the locals of a tick are well formed; in particular a
\* goal is replanned at most MaxReplans times between two resets.
THEOREM TypeCorrect == Spec => []TypeOK
<1>1. IInv => TypeOK
  BY DEF IInv
<1> QED  BY <1>1, InvariantHolds, PTL

\* The orchestrator with all its actors implements TaskGraph: whatever ticks,
\* workers, children, tools and restarts do to the tables is an operation of
\* TaskGraph whose condition holds then.
THEOREM Refinement == Spec => ImplementsTaskGraph
<1>1. Init => Graph!Init
  BY DEF Init
<1>2. IInv /\ [Next]_vars => [Graph!Next]_Graph!vars
  BY Simulates DEF tables, Graph!vars
<1> QED  BY <1>1, <1>2, InvariantHolds, PTL DEF Spec, ImplementsTaskGraph, Graph!Spec

\* So everything proved of the tables in TaskGraphProofs holds here too.
THEOREM TablesCorrect == Spec => []Graph!IInv
<1>1. IInv => Graph!IInv
  BY DEF IInv
<1> QED  BY <1>1, InvariantHolds, PTL

\* A goal of the orchestrator that has open tasks, of which none failed or was
\* cancelled, has one that is ready or being worked on, whatever plans were added
\* to it while it was executed (orchestrator.ts:497 has something to do or to
\* wait for).
THEOREM ExecutionNeverWedges == Spec => []Graph!GoalCanProgress
<1>1. Graph!GoalCanProgress <=> GraphProofs!GoalCanProgress
  <2>1. Graph!ReadyTasks = GraphProofs!ReadyTasks /\ Graph!BusyStatus = GraphProofs!BusyStatus
    BY DEF Graph!ReadyTasks, GraphProofs!ReadyTasks, Graph!DependenciesSatisfied,
           GraphProofs!DependenciesSatisfied, Graph!BusyStatus, GraphProofs!BusyStatus
  <2>2. \A g \in Goals : Graph!TasksOf(status, g) = GraphProofs!TasksOf(status, g)
    BY DEF Graph!TasksOf, GraphProofs!TasksOf, Graph!NoRow, GraphProofs!NoRow
  <2> QED  BY <2>1, <2>2 DEF Graph!GoalCanProgress, GraphProofs!GoalCanProgress
<1>2. Graph!IInv => Graph!GoalCanProgress
  BY <1>1, SameInv, GraphProofs!InvImpliesProgress, RetriesNat, SentinelsFresh
<1> QED  BY <1>2, TablesCorrect, PTL

\* No tick, worker, child, tool or restart takes a completed or cancelled task
\* back: a replan resets the others only, a late answer changes nothing.
THEOREM ResultsStay == Spec => Graph!ResultsAreFinal
<1>1. Graph!Init => GraphProofs!Init
  BY SameInit
<1>2. [Graph!Next]_tables <=> [GraphProofs!Next]_GraphProofs!vars
  BY SameNext
<1>3. [Graph!Next]_Graph!vars <=> [Graph!Next]_tables
  BY DEF tables, Graph!vars
<1>4. Graph!Spec => GraphProofs!Spec
  BY <1>1, <1>2, <1>3, PTL DEF Graph!Spec, GraphProofs!Spec
<1>5. GraphProofs!Spec => GraphProofs!ResultsAreFinal
  BY GraphProofs!ResultsFinal, RetriesNat, SentinelsFresh
<1> QED  BY <1>4, <1>5, Refinement, PTL
         DEF ImplementsTaskGraph, Graph!ResultsAreFinal, GraphProofs!ResultsAreFinal,
             Graph!vars, GraphProofs!vars

\* The executors of a task are holders of different tokens of it.
LEMMA InvImpliesOneExecutor == IInv => OneExecutor
<1> SUFFICES ASSUME IInv, NEW t \in Tasks PROVE Cardinality(Executors(t)) <= 1
  BY DEF OneExecutor
<1>1. ASSUME NEW a \in Executors(t), NEW b \in Executors(t) PROVE a = b
  <2>1. \A x, y \in Tokens(t) : x = y
    BY DEF IInv, OneToken
  <2>2. \A e \in Executors(t) :
          \/ <<"job", e>> \in Tokens(t)
          \/ <<"way", e>> \in Tokens(t)
          \/ \E m : m.agent = e /\ (<<"in", m>> \in Tokens(t) \/ <<"res", m>> \in Tokens(t))
    BY TokenKinds DEF Executors
  <2>3. \/ <<"job", a>> \in Tokens(t)
        \/ <<"way", a>> \in Tokens(t)
        \/ \E m : m.agent = a /\ (<<"in", m>> \in Tokens(t) \/ <<"res", m>> \in Tokens(t))
    BY <2>2
  <2>4. \/ <<"job", b>> \in Tokens(t)
        \/ <<"way", b>> \in Tokens(t)
        \/ \E m : m.agent = b /\ (<<"in", m>> \in Tokens(t) \/ <<"res", m>> \in Tokens(t))
    BY <2>2
  <2> QED  BY <2>1, <2>3, <2>4
<1>2. CASE Executors(t) = {}
  BY <1>2, FS_EmptySet
<1>3. CASE Executors(t) # {}
  <2>1. PICK a \in Executors(t) : TRUE
    BY <1>3
  <2>2. Executors(t) = {a}
    BY <1>1, <2>1
  <2>3. Cardinality({a}) = 1
    BY FS_Singleton
  <2> QED  BY <2>2, <2>3
<1> QED  BY <1>2, <1>3

\* Two agents never execute the same task at the same time, however failures,
\* retries, answers and restarts interleave.
THEOREM NoTwoExecutors == Spec => []OneExecutor
<1> QED  BY InvariantHolds, InvImpliesOneExecutor, PTL

\* The phase the orchestrator would go on with fits the tables at all times,
\* after a crash between two of its writes as well.
THEOREM PhaseFits == Spec => []PhaseMatchesTables
<1>1. IInv => PhaseMatchesTables
  BY DEF IInv, Fits, PhaseMatchesTables
<1> QED  BY <1>1, InvariantHolds, PTL

-----------------------------------------------------------------------------
(***************************************************************************)
(* While nothing crashes, a goal is planned from scratch only once.        *)
(***************************************************************************)

PlanInv == IInv /\ NotPlannedYet

\* A step that inserts nothing adds no task to any goal.
LEMMA NoRowsNoTasks ==
  ASSUME RowsStay, NoRowIsNew
  PROVE  \A g : TasksOf(g)' = TasksOf(g)
<1> QED  BY DEF TasksOf, Graph!TasksOf, RowsStay, NoRowIsNew

LEMMA HandleFailureRows ==
  ASSUME IInv, NEW t \in Tasks, NEW r, HandleFailure(t, r)
  PROVE  RowsStay /\ NoRowIsNew
<1>1. CASE Catch
  BY <1>1, SameRows DEF Catch, Graph!UpdateGoalStatus
<1>2. CASE Graph!FailTaskForRetry(t, TRUE) \/ Graph!FailTaskForGood(t, TRUE)
  BY <1>2, RetryRows, FailRows DEF IInv
<1> QED  BY <1>1, <1>2 DEF HandleFailure

LEMMA NoNewTasks ==
  ASSUME IInv, [Next]_vars, ~(Classified \/ Planned \/ Replanned)
  PROVE  RowsStay /\ NoRowIsNew
<1>1. CASE SaveState \/ TickIdle \/ TickClassifying \/ TickPlanning \/ TickPlanReview
           \/ TickExecuting \/ CollectResults \/ TickReplanning \/ TickComplete
           \/ TickFailed \/ Report \/ Evaluate \/ ReopenGoal \/ Restart \/ UNCHANGED vars
  <2>1. UNCHANGED <<status, goalOf, deps>>
    BY <1>1 DEF SaveState, TickIdle, TickClassifying, TickPlanning, TickPlanReview,
       TickExecuting, CollectResults, TickReplanning, TickComplete, TickFailed, Report,
       Evaluate, ReopenGoal, Restart, vars, tables, Graph!UpdateGoalStatus
  <2> QED  BY <2>1, SameRows
<1>2. ASSUME NEW t \in Tasks, Match(t) PROVE RowsStay /\ NoRowIsNew
  BY <1>2, SameRows DEF Match, tables
<1>3. CASE Assign
  BY <1>3, AssignRows, HandleFailureRows DEF Assign, IInv, TaskHeld
<1>4. CASE Dispatch
  BY <1>4, HandleFailureRows, SameRows DEF Dispatch, IInv, TaskHeld, tables
<1>5. ASSUME NEW m \in Messages, ApplyResult(m) PROVE RowsStay /\ NoRowIsNew
  <2>1. m.task \in Tasks
    BY DEF Messages, Order, Result
  <2> QED  BY <1>5, <2>1, CompleteTaskRows, HandleFailureRows DEF ApplyResult, IInv
<1>6. CASE ResetTasks
  BY <1>6, GoalOfTick, ResetRows DEF ResetTasks, IInv
<1>7. ASSUME NEW g \in Goals, CreateGoal(g) \/ CancelGoal(g) PROVE RowsStay /\ NoRowIsNew
  BY <1>7, CancelRows, SameRows DEF CreateGoal, CancelGoal, Graph!CreateGoal, IInv
<1>8. ASSUME NEW t \in Tasks, ResolveTask(t) PROVE RowsStay /\ NoRowIsNew
  BY <1>8, CompleteTaskRows DEF ResolveTask, IInv
<1>9. ASSUME NEW w \in Workers, WorkerEnds(w) PROVE RowsStay /\ NoRowIsNew
  <2>1. job[w] \in Tasks
    BY <1>9 DEF WorkerEnds, IInv, TypeOK
  <2> QED  BY <1>9, <2>1, CompleteTaskRows, RetryRows, FailRows, SameRows
           DEF WorkerEnds, Graph!FailTask, tables, IInv
<1>10. ASSUME NEW c \in Children, NEW t \in Tasks, ReadOrder(c, t)
       PROVE  RowsStay /\ NoRowIsNew
  BY <1>10, SameRows DEF ReadOrder, tables
<1>11. ASSUME NEW c \in Children, NEW t \in Tasks, NEW ok \in BOOLEAN, Answer(c, t, ok)
       PROVE  RowsStay /\ NoRowIsNew
  BY <1>11, SameRows DEF Answer, tables
<1> QED  BY <1>1, <1>2, <1>3, <1>4, <1>5, <1>6, <1>7, <1>8, <1>9, <1>10, <1>11
         DEF Next, Step

\* What a step does to the place and the state of a tick, as far as planning is
\* concerned.
LEMMA PlanPlaces ==
  ASSUME IInv, [Next]_vars, "crash" \notin Incidents
  PROVE  \/ UNCHANGED <<kv, tick>>
         \/ tick'.pc \notin {"none", "plan", "save", "classify"}
         \/ tick'.pc = "save" /\ tick'.mem.phase # "planning"
         \/ SaveState
         \/ TickPlanning
         \/ TickClassifying /\ TasksOf(kv.goal) = {}
         \/ /\ Classified /\ UNCHANGED tables
            /\ Return([tick.mem EXCEPT !.phase = "planning"])
<1>1. kv \in States /\ tick.mem \in States /\ tick \in Ticks
  BY DEF IInv, TypeOK, Ticks
<1>3. \A m : Return(m) => tick'.pc = "save" /\ tick'.mem = m
  BY DEF Return, NoTick
<1>4. \A p : Await(p) => tick'.pc = p
  BY DEF Await, NoTick
<1>5. \A t, r : HandleFailure(t, r) =>
        \/ Catch
        \/ tick' = [r EXCEPT !.pc = Loop]
        \/ tick' = [r EXCEPT !.pc = "report", !.task = t]
  BY DEF HandleFailure
<1>6. Catch => tick'.pc = "save" /\ tick'.mem.phase = "failed"
  BY <1>1 DEF Catch, Return, NoTick, States
<1>7. Loop \in {"match", "apply"}
  BY DEF Loop
<1>8. ASSUME NEW r \in Ticks, NEW t, HandleFailure(t, r)
      PROVE  \/ tick'.pc \in {"match", "apply", "report"}
             \/ tick'.pc = "save" /\ tick'.mem.phase = "failed"
  <2>1. /\ [r EXCEPT !.pc = Loop].pc = Loop
        /\ [r EXCEPT !.pc = "report", !.task = t].pc = "report"
    BY DEF Ticks
  <2> QED  BY <1>5, <1>6, <1>7, <1>8, <2>1
<1> DEFINE Goal == \/ UNCHANGED <<kv, tick>>
                   \/ tick'.pc \notin {"none", "plan", "save", "classify"}
                   \/ tick'.pc = "save" /\ tick'.mem.phase # "planning"
                   \/ SaveState
                   \/ TickPlanning
                   \/ TickClassifying /\ TasksOf(kv.goal) = {}
                   \/ /\ Classified /\ UNCHANGED tables
                      /\ Return([tick.mem EXCEPT !.phase = "planning"])
<1>9. CASE TickIdle \/ TickPlanReview \/ TickComplete \/ TickFailed
  <2>1. CASE TickIdle
    <3>1. \/ Return([kv EXCEPT !.goal = NoGoal])
          \/ \E g \in Goals : Return([kv EXCEPT !.phase = "classifying", !.goal = g])
      BY <2>1 DEF TickIdle, ActiveGoals
    <3>2. [kv EXCEPT !.goal = NoGoal].phase = "idle"
      BY <1>1, <2>1 DEF TickIdle, Begin, States
    <3>3. \A g : [kv EXCEPT !.phase = "classifying", !.goal = g].phase = "classifying"
      BY <1>1 DEF States
    <3> QED  BY <1>3, <3>1, <3>2, <3>3
  <2>2. CASE TickPlanReview
    BY <1>1, <2>2 DEF TickPlanReview, Return, NoTick, States
  <2>3. CASE TickComplete \/ TickFailed
    BY <1>3, <2>3 DEF TickComplete, TickFailed, DefaultState
  <2> QED  BY <1>9, <2>1, <2>2, <2>3
<1>10. CASE TickClassifying
  <2>1. CASE TasksOf(kv.goal) # {}
    <3>1. Return([kv EXCEPT !.phase = "executing"])
      BY <1>10, <2>1 DEF TickClassifying
    <3>2. [kv EXCEPT !.phase = "executing"].phase = "executing"
      BY <1>1 DEF States
    <3> QED  BY <1>3, <3>1, <3>2
  <2> QED  BY <1>10, <2>1
<1>11. CASE Classified
  <2>1. CASE Return([tick.mem EXCEPT !.phase = "executing"])
    <3>1. [tick.mem EXCEPT !.phase = "executing"].phase = "executing"
      BY <1>1 DEF States
    <3> QED  BY <1>3, <2>1, <3>1
  <2> QED  BY <1>11, <2>1 DEF Classified
<1>12. CASE Planned \/ Replanned
  <2>1. /\ [tick.mem EXCEPT !.phase = "plan_review"].phase = "plan_review"
        /\ [tick.mem EXCEPT !.phase = "plan_review", !.replans = @ + 1].phase = "plan_review"
    BY <1>1 DEF States
  <2> QED  BY <1>3, <1>12, <2>1 DEF Planned, Replanned
<1>13. CASE TickExecuting \/ TickReplanning
  BY <1>4, <1>13 DEF TickExecuting, TickReplanning, NoTick
<1>14. CASE Assign
  <2>1. tick' = [tick EXCEPT !.pc = IF tick.agent \in Children THEN "dispatch" ELSE "match"]
          => tick'.pc \in {"dispatch", "match"}
    BY <1>1 DEF Ticks
  <2> QED  BY <1>1, <1>8, <1>14, <2>1 DEF Assign
<1>15. CASE Dispatch
  <2>1. tick' = [tick EXCEPT !.pc = "match"] => tick'.pc = "match"
    BY <1>1 DEF Ticks
  <2> QED  BY <1>1, <1>8, <1>15, <2>1 DEF Dispatch
<1>16. ASSUME NEW m \in Messages, ApplyResult(m) PROVE Goal
  <2> DEFINE rest == [tick EXCEPT !.results = @ \ {m}]
  <2>1. rest \in Ticks /\ (tick' = rest => tick'.pc = "apply")
    BY <1>1, <1>16 DEF ApplyResult, Ticks
  <2>2. tick' = rest \/ HandleFailure(m.task, rest)
    BY <1>16 DEF ApplyResult
  <2> HIDE DEF rest
  <2> QED  BY <1>8, <2>1, <2>2
<1>17. CASE Evaluate
  <2>1. tick.mem.phase = "executing"
    BY <1>17 DEF Evaluate, IInv, PhaseOfTick, PhaseOf
  <2>2. \/ Return(tick.mem)
        \/ \E p \in {"complete", "replanning", "failed"} : Return([tick.mem EXCEPT !.phase = p])
    BY <1>17 DEF Evaluate
  <2>3. tick'.pc = "save" /\ tick'.mem.phase # "planning"
    BY <1>1, <2>1, <2>2 DEF Return, NoTick, States
  <2> QED  BY <2>3
<1>18. CASE CollectResults \/ Report \/ ResetTasks \/ ReopenGoal \/ \E t \in Tasks : Match(t)
  <2>1. tick'.pc \in {"apply", "match", "reopen", "insert", "assign"}
    BY <1>1, <1>7, <1>18 DEF CollectResults, Report, ResetTasks, ReopenGoal, Match, Ticks
  <2> QED  BY <2>1
<1>19. CASE ~Step
  BY <1>19 DEF Next, CreateGoal, CancelGoal, ResolveTask, WorkerEnds, ReadOrder, Answer,
     Restart, vars
<1> QED  BY <1>9, <1>10, <1>11, <1>12, <1>13, <1>14, <1>15, <1>16, <1>17, <1>18, <1>19
         DEF Step

\* Only the steps that insert a plan give a goal new tasks, and the state they
\* return is not to be planned any more.
LEMMA PlanStep ==
  ASSUME PlanInv, [Next]_vars, "crash" \notin Incidents
  PROVE  NotPlannedYet'
<1> USE DEF PlanInv
<1>1. CASE tick'.pc = "save" /\ tick'.mem.phase # "planning"
  BY <1>1 DEF NotPlannedYet
<1>2. CASE tick'.pc \notin {"none", "plan", "save", "classify"}
  BY <1>2 DEF NotPlannedYet
<1>3. CASE Classified /\ UNCHANGED tables /\ Return([tick.mem EXCEPT !.phase = "planning"])
  <2>1. tick'.pc = "save" /\ tick'.mem.goal = tick.mem.goal /\ TasksOf(tick.mem.goal) = {}
    BY <1>3 DEF Classified, Return, NoTick, NotPlannedYet, IInv, TypeOK, States
  <2>2. TasksOf(tick.mem.goal)' = {}
    BY <1>3, <2>1 DEF tables, TasksOf, Graph!TasksOf
  <2> QED  BY <2>1, <2>2 DEF NotPlannedYet
<1>4. CASE UNCHANGED <<kv, tick>> \/ SaveState \/ TickPlanning
           \/ (TickClassifying /\ TasksOf(kv.goal) = {})
  <2>1. \/ UNCHANGED <<kv, tick>>
        \/ tick.pc = "save" /\ tick'.pc = "none" /\ kv' = tick.mem
        \/ /\ tick.pc = "none" /\ kv.phase = "planning" /\ tick'.pc = "plan" /\ kv' = kv
        \/ TasksOf(kv.goal) = {} /\ tick'.pc = "classify" /\ tick'.mem = kv
    <3>1. SaveState => tick.pc = "save" /\ tick'.pc = "none" /\ kv' = tick.mem
      BY DEF SaveState, NoTick
    <3>2. TickPlanning => /\ tick.pc = "none" /\ kv.phase = "planning"
                          /\ tick'.pc = "plan" /\ kv' = kv
      BY DEF TickPlanning, Begin, Await, NoTick
    <3>3. TickClassifying /\ TasksOf(kv.goal) = {} => tick'.pc = "classify" /\ tick'.mem = kv
      BY DEF TickClassifying, Await, NoTick
    <3> QED  BY <1>4, <3>1, <3>2, <3>3
  <2>2. ~(Classified \/ Planned \/ Replanned) => \A g : TasksOf(g)' = TasksOf(g)
    BY NoNewTasks, NoRowsNoTasks
  <2>3. ~(Classified \/ Planned \/ Replanned)
    BY <2>1 DEF Classified, Planned, Replanned, Return, NoTick
  <2> QED  BY <2>1, <2>2, <2>3 DEF NotPlannedYet
<1> QED  BY <1>1, <1>2, <1>3, <1>4, PlanPlaces

\* A goal is planned from scratch once only, unless the process is killed
\* between the insertion of the plan and the save of the state: a tick that
\* begins to plan has found no tasks, and none appear while it waits.
THEOREM PlannedOnlyOnce == "crash" \notin Incidents => (Spec => []PlannedOnce)
<1> SUFFICES ASSUME "crash" \notin Incidents PROVE Spec => []PlannedOnce
  OBVIOUS
<1>1. Init => PlanInv
  <2> SUFFICES ASSUME Init PROVE NotPlannedYet
    BY InitInv DEF PlanInv
  <2> QED  BY DEF Init, NotPlannedYet, NoTick, DefaultState
<1>2. PlanInv /\ [Next]_vars => PlanInv'
  BY StepInv, PlanStep DEF PlanInv
<1>3. PlanInv => PlannedOnce
  BY DEF PlanInv, IInv, PhaseOfTick, PhaseOf, NotPlannedYet, PlannedOnce
<1> QED  BY <1>1, <1>2, <1>3, PTL DEF Spec

=============================================================================
