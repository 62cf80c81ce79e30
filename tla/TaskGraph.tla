------------------------------ MODULE TaskGraph ------------------------------
(***************************************************************************)
(* The goal and task tables of the automaton (tables goals and task_graph, *)
(* automaton/src/state/schema.ts) under the operations of                  *)
(* automaton/src/orchestration/task-graph.ts and the statements that write *)
(* the tables from outside it: the create_goal and cancel_goal tools, the  *)
(* reset that precedes a replan and updateGoalStatus.  An operation is one *)
(* synchronous SQLite transaction or statement, hence one atomic action.   *)
(*                                                                         *)
(* Row identities are ULIDs and are never reused: a task or goal id starts *)
(* "unused" and, once its row is deleted, stays "pruned".                  *)
(*                                                                         *)
(* Definitions whose name ends in _Bug are variants with a bug a change of *)
(* the code could introduce.  No action uses them; checked in place of the *)
(* definition that follows, each violates one of the properties below.     *)
(***************************************************************************)
EXTENDS Integers

CONSTANTS
  Goals,        \* ids of rows of table goals
  NoGoal,       \* goal_id of a task that was never inserted
  Tasks,        \* ids of rows of table task_graph
  Agents,       \* addresses tasks are assigned to
  NoAgent,      \* assigned_to IS NULL
  MaxRetries    \* max_retries of every task (column default 3)

ASSUME MaxRetriesNat == MaxRetries \in Nat
ASSUME NoAgentFresh == NoAgent \notin Agents
ASSUME NoGoalFresh == NoGoal \notin Goals

VARIABLES
  goalStatus,   \* goals.status
  status,       \* task_graph.status
  goalOf,       \* task_graph.goal_id
  deps,         \* task_graph.dependencies
  assignedTo,   \* task_graph.assigned_to
  retryCount    \* task_graph.retry_count

vars == <<goalStatus, status, goalOf, deps, assignedTo, retryCount>>

TaskStatus == {"pending", "assigned", "running", "completed", "failed",
               "blocked", "cancelled"}
GoalStatus == {"active", "completed", "failed", "paused"}
NoRow == {"unused", "pruned"}

TerminalStatus == {"completed", "failed", "cancelled"}
BusyStatus == {"assigned", "running"}

-----------------------------------------------------------------------------
(***************************************************************************)
(* Helpers.  Those that take st (or dp) read the given status (or          *)
(* dependencies) column instead of the current one, as the later           *)
(* statements of a transaction do.                                         *)
(***************************************************************************)
TasksOf(st, g) == {t \in Tasks : st[t] \notin NoRow /\ goalOf[t] = g}

DependenciesSatisfied(st, dependencies) ==
  \A d \in dependencies : st[d] = "completed"

\* The query without its dependency clause.
ReadyTasks_Bug == {t \in Tasks : status[t] = "pending"}

ReadyTasks ==
  {t \in Tasks : status[t] = "pending" /\ DependenciesSatisfied(status, deps[t])}

\* The statement is forgotten.
UnblockReadyBlockedTasks_Bug(st, dp) == st

UnblockReadyBlockedTasks(st, dp) ==
  [t \in Tasks |->
     IF st[t] = "blocked" /\ DependenciesSatisfied(st, dp[t])
       THEN "pending" ELSE st[t]]

\* Only tasks in progress are taken out, queued ones are left.
DependentsToBlock_Bug(failed) ==
  {t \in Tasks : status[t] \in BusyStatus /\ failed \in deps[t]}

\* Direct dependents of a failed task that are waiting or being worked on.
DependentsToBlock(failed) ==
  {t \in Tasks : /\ status[t] \in {"pending"} \union BusyStatus
                 /\ failed \in deps[t]}

\* A task that is over counts as completed.
ProgressStatus_Bug(st, T) ==
  IF T # {} /\ \A t \in T : st[t] \in TerminalStatus THEN "completed" ELSE "active"

\* The status column a goal gets from the rows in T once they have status st.
ProgressStatus(st, T) ==
  IF \E t \in T : st[t] = "failed" THEN "failed"
  ELSE IF T # {} /\ \A t \in T : st[t] = "completed" THEN "completed"
  ELSE "active"

RefreshGoalStatus(st, T, g) ==
  IF goalStatus[g] \in NoRow \union {"paused"}
    THEN goalStatus
    ELSE [goalStatus EXCEPT ![g] = ProgressStatus(st, T)]

\* The depth-first search of detectCycles finds no back edge exactly when
\* every non-empty set of nodes has a member with no edge into the set.
Acyclic(nodes, edges) ==
  \A S \in SUBSET nodes : S # {} => \E t \in S : edges[t] \cap S = {}

\* The status column once the rows of batch are inserted: each new task waits
\* unless its dependencies are completed, then the blocked ones are reviewed.
\* Every caller in the runtime asks for "pending"; left out is that a requested
\* final, assigned or running status would be kept as it is.
StatusWithBatch(st, batch, newDeps, dp) ==
  LET inserted == [t \in Tasks |->
                     IF t \notin batch THEN st[t]
                     ELSE IF DependenciesSatisfied(st, newDeps[t]) THEN "pending"
                     ELSE "blocked"]
  IN  UnblockReadyBlockedTasks(inserted, dp)

\* Only a task that depends on itself is found.
DetectCycles_Bug(nodes, edges) == \E t \in nodes : t \in edges[t]

DetectCycles(nodes, edges) == ~Acyclic(nodes, edges)

\* The goal of the referenced row is not compared.
ValidReferences_Bug(g, batch, newDeps) ==
  \A t \in batch : \A d \in newDeps[t] : d \in batch \/ status[d] \notin NoRow

\* Dependencies refer to tasks of the batch or to rows the goal already has.
ValidReferences(g, batch, newDeps) ==
  \A t \in batch : newDeps[t] \subseteq batch \union TasksOf(status, g)

-----------------------------------------------------------------------------
Init ==
  /\ goalStatus = [g \in Goals |-> "unused"]
  /\ status = [t \in Tasks |-> "unused"]
  /\ goalOf = [t \in Tasks |-> NoGoal]
  /\ deps = [t \in Tasks |-> {}]
  /\ assignedTo = [t \in Tasks |-> NoAgent]
  /\ retryCount = [t \in Tasks |-> 0]

\* The create_goal tool: one active goal at a time.
CreateGoal(g) ==
  /\ goalStatus[g] = "unused"
  /\ \A h \in Goals : goalStatus[h] # "active"
  /\ goalStatus' = [goalStatus EXCEPT ![g] = "active"]
  /\ UNCHANGED <<status, goalOf, deps, assignedTo, retryCount>>

\* decomposeGoal: insert the rows of batch under goal g.  A plan with a cycle,
\* or with a reference to a row elsewhere, throws and changes nothing.
DecomposeGoal(g, batch, newDeps) ==
  /\ goalStatus[g] \notin NoRow
  /\ batch # {}
  /\ \A t \in batch : status[t] = "unused"
  /\ ~DetectCycles(batch, newDeps)
  /\ ValidReferences(g, batch, newDeps)
  /\ goalOf' = [t \in Tasks |-> IF t \in batch THEN g ELSE goalOf[t]]
  /\ deps' = [t \in Tasks |-> IF t \in batch THEN newDeps[t] ELSE deps[t]]
  /\ status' = StatusWithBatch(status, batch, newDeps, deps')
  /\ goalStatus' =
       RefreshGoalStatus(status', TasksOf(status, g) \union batch, g)
  /\ UNCHANGED <<assignedTo, retryCount>>

AssignTask(t, a) ==
  /\ status[t] = "pending"
  /\ status' = [status EXCEPT ![t] = "assigned"]
  /\ assignedTo' = [assignedTo EXCEPT ![t] = a]
  /\ UNCHANGED <<goalStatus, goalOf, deps, retryCount>>

\* completeTask asks only that the task is not terminal: the complete_task
\* tool may complete a task that is pending or still blocked.
CompleteTask(t) ==
  /\ status[t] \notin NoRow \union TerminalStatus
  /\ status' =
       UnblockReadyBlockedTasks([status EXCEPT ![t] = "completed"], deps)
  /\ goalStatus' =
       RefreshGoalStatus(status', TasksOf(status, goalOf[t]), goalOf[t])
  /\ UNCHANGED <<goalOf, deps, assignedTo, retryCount>>

\* Off by one.
CanRetry_Bug(t, shouldRetry) == shouldRetry /\ retryCount[t] <= MaxRetries

CanRetry(t, shouldRetry) == shouldRetry /\ retryCount[t] < MaxRetries

\* Retried tasks are parked whatever their dependencies.
RetryStatus_Bug(t) == "blocked"

RetryStatus(t) ==
  IF DependenciesSatisfied(status, deps[t]) THEN "pending" ELSE "blocked"

\* The owner is kept.
FailTaskForRetry_OwnerBug(t, shouldRetry) ==
  /\ status[t] \notin NoRow \union TerminalStatus
  /\ CanRetry(t, shouldRetry)
  /\ status' = [status EXCEPT ![t] = RetryStatus(t)]
  /\ retryCount' = [retryCount EXCEPT ![t] = @ + 1]
  /\ UNCHANGED <<goalStatus, goalOf, deps, assignedTo>>

FailTaskForRetry(t, shouldRetry) ==
  /\ status[t] \notin NoRow \union TerminalStatus
  /\ CanRetry(t, shouldRetry)
  /\ status' = [status EXCEPT ![t] = RetryStatus(t)]
  /\ retryCount' = [retryCount EXCEPT ![t] = @ + 1]
  /\ assignedTo' = [assignedTo EXCEPT ![t] = NoAgent]
  /\ UNCHANGED <<goalStatus, goalOf, deps>>

FailTaskForGood(t, shouldRetry) ==
  /\ status[t] \notin NoRow \union TerminalStatus
  /\ ~CanRetry(t, shouldRetry)
  /\ LET blocked == DependentsToBlock(t)
     IN  /\ status' = [u \in Tasks |-> IF u = t THEN "failed"
                                       ELSE IF u \in blocked THEN "blocked"
                                       ELSE status[u]]
         /\ assignedTo' = [u \in Tasks |-> IF u \in blocked \union {t}
                                             THEN NoAgent ELSE assignedTo[u]]
  /\ goalStatus' =
       RefreshGoalStatus(status', TasksOf(status, goalOf[t]), goalOf[t])
  /\ UNCHANGED <<goalOf, deps, retryCount>>

FailTask(t, shouldRetry) ==
  FailTaskForRetry(t, shouldRetry) \/ FailTaskForGood(t, shouldRetry)

\* pruneCompletedGoals: the cutoff on completed_at may hit any completed goal.
PruneCompletedGoals(G) ==
  /\ G # {}
  /\ \A g \in G : goalStatus[g] = "completed"
  /\ goalStatus' = [g \in Goals |-> IF g \in G THEN "pruned" ELSE goalStatus[g]]
  /\ status' = [t \in Tasks |->
                  IF status[t] \notin NoRow /\ goalOf[t] \in G
                    THEN "pruned" ELSE status[t]]
  /\ UNCHANGED <<goalOf, deps, assignedTo, retryCount>>

\* The cancel_goal tool: the goal fails, its open tasks are cancelled.
CancelGoal(g) ==
  /\ goalStatus[g] = "active"
  /\ goalStatus' = [goalStatus EXCEPT ![g] = "failed"]
  /\ status' = [t \in Tasks |->
                  IF /\ goalOf[t] = g
                     /\ status[t] \in {"pending", "blocked"} \union BusyStatus
                    THEN "cancelled" ELSE status[t]]
  /\ UNCHANGED <<goalOf, deps, assignedTo, retryCount>>

\* The reset takes every task that is not completed.
TasksToReset_Bug(g) == {t \in TasksOf(status, g) : status[t] # "completed"}

TasksToReset(g) ==
  {t \in TasksOf(status, g) : status[t] \in {"failed", "blocked"}}

\* The reset before a replan: failed and blocked tasks become pending again,
\* whatever their dependencies, with the retry count they had.
ResetTasks(g) ==
  /\ goalStatus[g] \notin NoRow
  /\ status' = [t \in Tasks |->
                  IF t \in TasksToReset(g) THEN "pending" ELSE status[t]]
  /\ assignedTo' = [t \in Tasks |->
                      IF t \in TasksToReset(g) THEN NoAgent ELSE assignedTo[t]]
  /\ UNCHANGED <<goalStatus, goalOf, deps, retryCount>>

\* updateGoalStatus, by which the orchestrator reopens a goal (active) or gives
\* it up (failed) whatever its status.  The statement has no condition; the
\* orchestrator writes "completed" only after getGoalProgress counted all tasks
\* as completed.
UpdateGoalStatus(g, s) ==
  /\ goalStatus[g] \notin NoRow
  /\ s = "completed" => /\ TasksOf(status, g) # {}
                        /\ \A t \in TasksOf(status, g) : status[t] = "completed"
  /\ goalStatus' = [goalStatus EXCEPT ![g] = s]
  /\ UNCHANGED <<status, goalOf, deps, assignedTo, retryCount>>

Decompose(g) ==
  \E batch \in SUBSET Tasks :
    \E newDeps \in [batch -> SUBSET Tasks] : DecomposeGoal(g, batch, newDeps)

Next ==
  \/ \E g \in Goals : CreateGoal(g) \/ CancelGoal(g) \/ ResetTasks(g)
  \/ \E g \in Goals, s \in {"active", "completed", "failed"} : UpdateGoalStatus(g, s)
  \/ \E G \in SUBSET Goals : PruneCompletedGoals(G)
  \/ \E t \in Tasks : CompleteTask(t)
  \/ \E t \in Tasks, shouldRetry \in BOOLEAN : FailTask(t, shouldRetry)
  \/ \E t \in ReadyTasks, a \in Agents : AssignTask(t, a)
  \/ \E g \in Goals : Decompose(g)

Spec == Init /\ [][Next]_vars

-----------------------------------------------------------------------------
(***************************************************************************)
(* Properties.                                                             *)
(***************************************************************************)

\* The columns hold the values the schema lists, and
\* no task has used more retries than it has.
TypeOK ==
  /\ goalStatus \in [Goals -> GoalStatus \union NoRow]
  /\ status \in [Tasks -> TaskStatus \union NoRow]
  /\ goalOf \in [Tasks -> Goals \union {NoGoal}]
  /\ deps \in [Tasks -> SUBSET Tasks]
  /\ assignedTo \in [Tasks -> Agents \union {NoAgent}]
  /\ retryCount \in [Tasks -> 0 .. MaxRetries]

\* The dependencies of all batches together, not only of the batch whose
\* cycles decomposeGoal looks for, form a DAG.
DepsAcyclic == Acyclic(Tasks, deps)

\* Every task belongs to an existing goal and depends on existing tasks of
\* that goal only: neither decomposing nor pruning a goal leaves an orphan.
NoOrphans ==
  \A t \in Tasks : status[t] \notin NoRow =>
    /\ goalOf[t] \in Goals
    /\ goalStatus[goalOf[t]] \notin NoRow
    /\ deps[t] \subseteq TasksOf(status, goalOf[t])

\* No lost unblock: a task is blocked only while a dependency is not
\* completed; completing, failing, resetting and replanning never leave a
\* blocked task behind that nothing will unblock.
BlockedHasReason ==
  \A t \in Tasks : status[t] = "blocked" => ~DependenciesSatisfied(status, deps[t])

\* Nobody works on a task whose inputs are missing.
BusyHasInputs ==
  \A t \in Tasks : status[t] \in BusyStatus => DependenciesSatisfied(status, deps[t])

\* After a task has failed for good no dependent of it waits in the queue or
\* is being worked on, whichever batch added it.
FailureBlocksDependents ==
  \A t, d \in Tasks :
    /\ status[t] \notin NoRow
    /\ d \in deps[t]
    /\ status[d] = "failed"
    => status[t] \notin {"pending"} \union BusyStatus

\* assigned_to names a worker while the task is busy and nobody while it waits,
\* so the trackers that query the column count each worker's load right.
AssignmentMatchesStatus ==
  \A t \in Tasks :
    /\ status[t] \in BusyStatus => assignedTo[t] # NoAgent
    /\ status[t] \in {"pending", "blocked", "failed"} => assignedTo[t] = NoAgent

\* A goal is reported complete only if it has tasks and all are completed:
\* neither a refresh from a partial view, nor a later plan, reset or failure
\* leaves a goal closed over open work.
CompletedGoalIsDone ==
  \A g \in Goals : goalStatus[g] = "completed" =>
    /\ TasksOf(status, g) # {}
    /\ \A t \in TasksOf(status, g) : status[t] = "completed"

\* The graph never wedges: a goal with open tasks, none failed or cancelled,
\* has a task that is ready to be assigned or is being worked on.
GoalCanProgress ==
  \A g \in Goals :
    /\ \E t \in TasksOf(status, g) : status[t] # "completed"
    /\ \A t \in TasksOf(status, g) : status[t] \notin {"failed", "cancelled"}
    => \E t \in TasksOf(status, g) : t \in ReadyTasks \/ status[t] \in BusyStatus

\* The result of a task is never taken back: a completed task stays completed,
\* and a cancelled one cancelled, until its goal is pruned.
ResultsAreFinal ==
  [][\A t \in Tasks :
       status[t] \in {"completed", "cancelled"} =>
         status'[t] \in {status[t], "pruned"}]_vars

-----------------------------------------------------------------------------
\* Ids that were never inserted are referred to by nobody.
FreshRows ==
  \A t \in Tasks : status[t] = "unused" =>
    /\ assignedTo[t] = NoAgent
    /\ \A u \in Tasks : t \notin deps[u]

\* The inductive invariant behind every invariant above but GoalCanProgress,
\* which follows from it.
IInv ==
  /\ TypeOK
  /\ FreshRows
  /\ NoOrphans
  /\ DepsAcyclic
  /\ BlockedHasReason
  /\ BusyHasInputs
  /\ FailureBlocksDependents
  /\ AssignmentMatchesStatus
  /\ CompletedGoalIsDone
=============================================================================
