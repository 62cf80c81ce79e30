--------------------------- MODULE TaskGraphProofs ---------------------------
(***************************************************************************)
(* Proofs about TaskGraph for any sets of goals, tasks and agents and any  *)
(* retry budget.                                                           *)
(***************************************************************************)
EXTENDS TaskGraph, TLAPS

-----------------------------------------------------------------------------
(***************************************************************************)
(* Lemmas about the helpers.                                               *)
(***************************************************************************)

\* A step that refreshes goal g from the rows in T changes no other goal, and
\* leaves g completed only if the rows are.
LEMMA RefreshFacts ==
  ASSUME goalStatus \in [Goals -> GoalStatus \union NoRow],
         NEW T \in SUBSET Tasks, NEW g \in Goals,
         goalStatus' = RefreshGoalStatus(status', T, g)
  PROVE  /\ goalStatus' \in [Goals -> GoalStatus \union NoRow]
         /\ \A h \in Goals : h # g => goalStatus'[h] = goalStatus[h]
         /\ \A h \in Goals : goalStatus'[h] \in NoRow <=> goalStatus[h] \in NoRow
         /\ goalStatus'[g] = "completed" =>
              T # {} /\ \A t \in T : status'[t] = "completed"
<1> DEFINE p == ProgressStatus(status', T)
<1>1. /\ p \in {"failed", "completed", "active"}
      /\ p = "completed" => T # {} /\ \A t \in T : status'[t] = "completed"
  BY DEF ProgressStatus
<1> HIDE DEF p
<1>2. goalStatus' =
        IF goalStatus[g] \in NoRow \union {"paused"} THEN goalStatus
        ELSE [goalStatus EXCEPT ![g] = p]
  BY DEF RefreshGoalStatus, p
<1> QED  BY <1>1, <1>2 DEF GoalStatus, NoRow

-----------------------------------------------------------------------------
(***************************************************************************)
(* The initial state.                                                      *)
(***************************************************************************)
LEMMA InitInv == Init => IInv
<1> SUFFICES ASSUME Init PROVE IInv
  OBVIOUS
<1> USE DEF Init, NoRow
<1>1. TypeOK
  BY MaxRetriesNat DEF TypeOK
<1>2. DepsAcyclic
  BY DEF DepsAcyclic, Acyclic
<1>3. FreshRows /\ NoOrphans
  BY DEF FreshRows, NoOrphans
<1>4. BlockedHasReason /\ BusyHasInputs
  BY DEF BlockedHasReason, BusyHasInputs, BusyStatus
<1>5. FailureBlocksDependents /\ AssignmentMatchesStatus /\ CompletedGoalIsDone
  BY DEF FailureBlocksDependents, AssignmentMatchesStatus, CompletedGoalIsDone,
         BusyStatus
<1> QED  BY <1>1, <1>2, <1>3, <1>4, <1>5 DEF IInv

-----------------------------------------------------------------------------
(***************************************************************************)
(* Each action preserves the inductive invariant.                          *)
(***************************************************************************)
LEMMA CreateGoalInv ==
  ASSUME IInv, NEW g \in Goals, CreateGoal(g)
  PROVE  IInv'
<1> USE DEF IInv, CreateGoal
<1>1. TypeOK'
  BY DEF TypeOK, GoalStatus
<1>2. FreshRows' /\ DepsAcyclic'
  BY DEF FreshRows, DepsAcyclic, Acyclic
<1>3. NoOrphans'
  BY DEF NoOrphans, TypeOK, NoRow, TasksOf
<1>4. BlockedHasReason' /\ BusyHasInputs'
  BY DEF BlockedHasReason, BusyHasInputs, DependenciesSatisfied
<1>5. FailureBlocksDependents' /\ AssignmentMatchesStatus'
  BY DEF FailureBlocksDependents, AssignmentMatchesStatus
<1>6. CompletedGoalIsDone'
  <2>1. TasksOf(status, g) = {}
    BY DEF NoOrphans, TasksOf, NoRow
  <2> QED  BY <2>1 DEF CompletedGoalIsDone, TypeOK, TasksOf
<1> QED  BY <1>1, <1>2, <1>3, <1>4, <1>5, <1>6

LEMMA AssignTaskInv ==
  ASSUME IInv, NEW t \in ReadyTasks, NEW a \in Agents, AssignTask(t, a)
  PROVE  IInv'
<1> USE DEF IInv, AssignTask
<1> t \in Tasks /\ DependenciesSatisfied(status, deps[t])
  BY DEF ReadyTasks
<1>1. TypeOK'
  BY DEF TypeOK, TaskStatus
<1>2. FreshRows' /\ DepsAcyclic'
  BY DEF FreshRows, DepsAcyclic, Acyclic, TypeOK
<1>3. NoOrphans'
  BY DEF NoOrphans, TypeOK, NoRow, TasksOf
<1>4. BlockedHasReason' /\ BusyHasInputs'
  BY DEF BlockedHasReason, BusyHasInputs, DependenciesSatisfied, TypeOK, BusyStatus
<1>5. FailureBlocksDependents'
  BY DEF FailureBlocksDependents, TypeOK, BusyStatus, NoRow, DependenciesSatisfied
<1>6. AssignmentMatchesStatus'
  BY NoAgentFresh DEF AssignmentMatchesStatus, TypeOK, BusyStatus
<1>7. CompletedGoalIsDone'
  BY DEF CompletedGoalIsDone, TypeOK, TasksOf, NoRow
<1> QED  BY <1>1, <1>2, <1>3, <1>4, <1>5, <1>6, <1>7

LEMMA CompleteTaskInv ==
  ASSUME IInv, NEW t \in Tasks, CompleteTask(t)
  PROVE  IInv'
<1> DEFINE done == [status EXCEPT ![t] = "completed"]
           g == goalOf[t]
<1> USE DEF IInv
<1>1. /\ done \in [Tasks -> TaskStatus \union NoRow]
      /\ status[t] \notin NoRow \union TerminalStatus
      /\ \A u \in Tasks : done[u] = IF u = t THEN "completed" ELSE status[u]
  BY DEF TypeOK, CompleteTask, TaskStatus
<1>2. \A u \in Tasks :
        status'[u] = IF done[u] = "blocked" /\ DependenciesSatisfied(done, deps[u])
                       THEN "pending" ELSE done[u]
  BY DEF CompleteTask, UnblockReadyBlockedTasks
<1>3. status' \in [Tasks -> TaskStatus \union NoRow]
  BY <1>1 DEF CompleteTask, UnblockReadyBlockedTasks, TaskStatus
<1>4. \A u \in Tasks : /\ status[u] \in NoRow <=> status'[u] \in NoRow
                       /\ status[u] = "unused" <=> status'[u] = "unused"
                       /\ status'[u] = "completed" <=> u = t \/ status[u] = "completed"
                       /\ status'[u] = "failed" => status[u] = "failed"
  BY <1>1, <1>2 DEF NoRow, TerminalStatus
<1> HIDE DEF done
<1>5. /\ goalStatus' = RefreshGoalStatus(status', TasksOf(status, g), g)
      /\ UNCHANGED <<goalOf, deps, assignedTo, retryCount>>
      /\ g \in Goals
  BY <1>1 DEF CompleteTask, NoOrphans, done
<1>6. /\ goalStatus' \in [Goals -> GoalStatus \union NoRow]
      /\ \A h \in Goals : h # g => goalStatus'[h] = goalStatus[h]
      /\ \A h \in Goals : goalStatus'[h] \in NoRow <=> goalStatus[h] \in NoRow
      /\ goalStatus'[g] = "completed" =>
           /\ TasksOf(status, g) # {}
           /\ \A u \in TasksOf(status, g) : status'[u] = "completed"
  <2>1. TasksOf(status, g) \in SUBSET Tasks
    BY DEF TasksOf
  <2>2. goalStatus \in [Goals -> GoalStatus \union NoRow]
    BY DEF TypeOK
  <2>3. g \in Goals /\ goalStatus' = RefreshGoalStatus(status', TasksOf(status, g), g)
    BY <1>5
  <2> HIDE DEF g
  <2> QED  BY <2>1, <2>2, <2>3, RefreshFacts
<1>7. \A h \in Goals : TasksOf(status, h)' = TasksOf(status, h)
  BY <1>4, <1>5 DEF TasksOf
<1>8. \A u \in Tasks : /\ deps[u] \subseteq Tasks
                       /\ DependenciesSatisfied(status, deps[u]) =>
                            DependenciesSatisfied(status, deps[u])'
                       /\ DependenciesSatisfied(status, deps[u])' =>
                            DependenciesSatisfied(done, deps[u])
  BY <1>1, <1>4, <1>5 DEF DependenciesSatisfied, TypeOK
<1>a. TypeOK'
  BY <1>3, <1>5, <1>6 DEF TypeOK
<1>b. FreshRows' /\ DepsAcyclic'
  BY <1>4, <1>5 DEF FreshRows, DepsAcyclic, Acyclic
<1>c. NoOrphans'
  BY <1>4, <1>5, <1>6, <1>7 DEF NoOrphans
<1>d. BlockedHasReason'
  BY <1>1, <1>2, <1>8 DEF BlockedHasReason
<1>e. BusyHasInputs'
  BY <1>1, <1>2, <1>8 DEF BusyHasInputs, BusyStatus
<1>f. FailureBlocksDependents'
  <2> SUFFICES ASSUME NEW u \in Tasks, NEW d \in Tasks, status'[u] \notin NoRow,
                      d \in deps[u], status'[d] = "failed"
               PROVE  status'[u] \notin {"pending"} \union BusyStatus
    BY <1>5 DEF FailureBlocksDependents
  <2>1. /\ status[d] = "failed"
        /\ status[u] \notin {"pending"} \union BusyStatus
    BY <1>1, <1>2, <1>4 DEF FailureBlocksDependents
  <2>2. ~DependenciesSatisfied(done, deps[u])
    BY <1>1, <2>1 DEF DependenciesSatisfied, TerminalStatus
  <2> QED  BY <1>1, <1>2, <2>1, <2>2 DEF BusyStatus
<1>g. AssignmentMatchesStatus'
  BY <1>1, <1>2, <1>5 DEF AssignmentMatchesStatus, BusyStatus
<1>h. CompletedGoalIsDone'
  <2> SUFFICES ASSUME NEW h \in Goals
               PROVE  /\ goalStatus'[h] = "completed" =>
                           /\ TasksOf(status, h) # {}
                           /\ \A u \in TasksOf(status, h) : status'[u] = "completed"
    BY <1>7 DEF CompletedGoalIsDone
  <2>1. CASE h = g
    BY <1>6, <2>1
  <2>2. CASE h # g
    BY <1>4, <1>6, <2>2 DEF CompletedGoalIsDone, TasksOf
  <2> QED  BY <2>1, <2>2
<1> QED  BY <1>a, <1>b, <1>c, <1>d, <1>e, <1>f, <1>g, <1>h

LEMMA FailTaskForRetryInv ==
  ASSUME IInv, NEW t \in Tasks, NEW shouldRetry \in BOOLEAN,
         FailTaskForRetry(t, shouldRetry)
  PROVE  IInv'
<1> USE DEF IInv
<1> DEFINE next == IF DependenciesSatisfied(status, deps[t]) THEN "pending" ELSE "blocked"
<1>1. /\ status[t] \notin NoRow \union TerminalStatus
      /\ retryCount[t] < MaxRetries
      /\ status' = [status EXCEPT ![t] = next]
      /\ retryCount' = [retryCount EXCEPT ![t] = @ + 1]
      /\ assignedTo' = [assignedTo EXCEPT ![t] = NoAgent]
      /\ UNCHANGED <<goalStatus, goalOf, deps>>
  BY DEF FailTaskForRetry, CanRetry, RetryStatus
<1>2. \A u \in Tasks : status'[u] = IF u = t THEN next ELSE status[u]
  BY <1>1 DEF TypeOK
<1>3. \A u \in Tasks : /\ status[u] \in NoRow <=> status'[u] \in NoRow
                       /\ status[u] = "unused" <=> status'[u] = "unused"
                       /\ status'[u] = "completed" <=> status[u] = "completed"
                       /\ status'[u] = "failed" <=> status[u] = "failed"
  BY <1>1, <1>2 DEF NoRow, TerminalStatus
<1>4. \A u \in Tasks : DependenciesSatisfied(status, deps[u])' <=>
                         DependenciesSatisfied(status, deps[u])
  BY <1>1, <1>3 DEF DependenciesSatisfied, TypeOK
<1>5. \A h \in Goals : TasksOf(status, h)' = TasksOf(status, h)
  BY <1>1, <1>3 DEF TasksOf
<1>a. TypeOK'
  BY <1>1, MaxRetriesNat DEF TypeOK, TaskStatus
<1>b. FreshRows' /\ DepsAcyclic'
  BY <1>1, <1>3 DEF FreshRows, DepsAcyclic, Acyclic, TypeOK
<1>c. NoOrphans'
  BY <1>1, <1>3, <1>5 DEF NoOrphans
<1>d. BlockedHasReason' /\ BusyHasInputs'
  BY <1>2, <1>4 DEF BlockedHasReason, BusyHasInputs, BusyStatus
<1>e. FailureBlocksDependents'
  <2>1. \A d \in deps[t] : d \in Tasks /\ (status[d] = "failed" => next = "blocked")
    BY DEF DependenciesSatisfied, TypeOK
  <2> QED  BY <1>1, <1>2, <1>3, <2>1 DEF FailureBlocksDependents, BusyStatus
<1>f. AssignmentMatchesStatus'
  BY <1>1, <1>2 DEF AssignmentMatchesStatus, TypeOK, BusyStatus
<1>g. CompletedGoalIsDone'
  BY <1>1, <1>3, <1>5 DEF CompletedGoalIsDone, TasksOf
<1> QED  BY <1>a, <1>b, <1>c, <1>d, <1>e, <1>f, <1>g

LEMMA FailTaskForGoodInv ==
  ASSUME IInv, NEW t \in Tasks, NEW shouldRetry \in BOOLEAN,
         FailTaskForGood(t, shouldRetry)
  PROVE  IInv'
<1> DEFINE g == goalOf[t]
<1> USE DEF IInv
<1>1. /\ status[t] \notin NoRow \union TerminalStatus
      /\ g \in Goals
      /\ UNCHANGED <<goalOf, deps, retryCount>>
      /\ goalStatus' = RefreshGoalStatus(status', TasksOf(status, g), g)
  BY DEF FailTaskForGood, NoOrphans
<1>2. /\ status' \in [Tasks -> TaskStatus \union NoRow]
      /\ assignedTo' \in [Tasks -> Agents \union {NoAgent}]
      /\ \A u \in Tasks :
           /\ u = t => status'[u] = "failed" /\ assignedTo'[u] = NoAgent
           /\ u # t /\ u \in DependentsToBlock(t) =>
                status'[u] = "blocked" /\ assignedTo'[u] = NoAgent
           /\ u # t /\ u \notin DependentsToBlock(t) =>
                status'[u] = status[u] /\ assignedTo'[u] = assignedTo[u]
  BY DEF FailTaskForGood, TypeOK, TaskStatus
<1>3. \A u \in DependentsToBlock(t) :
        u \in Tasks /\ t \in deps[u] /\ status[u] \in {"pending", "assigned", "running"}
  BY DEF DependentsToBlock, BusyStatus
<1>4. \A u \in Tasks : /\ status[u] \in NoRow <=> status'[u] \in NoRow
                       /\ status[u] = "unused" <=> status'[u] = "unused"
                       /\ status'[u] = "completed" <=> status[u] = "completed"
                       /\ status'[u] = "failed" <=> u = t \/ status[u] = "failed"
  BY <1>1, <1>2, <1>3 DEF NoRow, TerminalStatus
<1>5. \A u \in Tasks : DependenciesSatisfied(status, deps[u])' <=>
                         DependenciesSatisfied(status, deps[u])
  BY <1>1, <1>4 DEF DependenciesSatisfied, TypeOK
<1>6. \A h \in Goals : TasksOf(status, h)' = TasksOf(status, h)
  BY <1>1, <1>4 DEF TasksOf
<1>7. /\ goalStatus' \in [Goals -> GoalStatus \union NoRow]
      /\ \A h \in Goals : h # g => goalStatus'[h] = goalStatus[h]
      /\ \A h \in Goals : goalStatus'[h] \in NoRow <=> goalStatus[h] \in NoRow
      /\ goalStatus'[g] = "completed" =>
           /\ TasksOf(status, g) # {}
           /\ \A u \in TasksOf(status, g) : status'[u] = "completed"
  <2>1. TasksOf(status, g) \in SUBSET Tasks
    BY DEF TasksOf
  <2>2. goalStatus \in [Goals -> GoalStatus \union NoRow]
    BY DEF TypeOK
  <2>3. g \in Goals /\ goalStatus' = RefreshGoalStatus(status', TasksOf(status, g), g)
    BY <1>1
  <2> HIDE DEF g
  <2> QED  BY <2>1, <2>2, <2>3, RefreshFacts
<1>a. TypeOK'
  BY <1>1, <1>2, <1>7 DEF TypeOK
<1>b. FreshRows' /\ DepsAcyclic'
  BY <1>1, <1>2, <1>4 DEF FreshRows, DepsAcyclic, Acyclic
<1>c. NoOrphans'
  BY <1>1, <1>4, <1>6, <1>7 DEF NoOrphans
<1>d. BlockedHasReason'
  <2>1. \A u \in DependentsToBlock(t) : ~DependenciesSatisfied(status, deps[u])
    BY <1>1, <1>3 DEF DependenciesSatisfied, TerminalStatus
  <2> QED  BY <1>2, <1>5, <2>1 DEF BlockedHasReason
<1>e. BusyHasInputs'
  BY <1>2, <1>5 DEF BusyHasInputs, BusyStatus
<1>f. FailureBlocksDependents'
  BY <1>1, <1>2, <1>4 DEF FailureBlocksDependents, BusyStatus, DependentsToBlock
<1>g. AssignmentMatchesStatus'
  BY <1>2 DEF AssignmentMatchesStatus, BusyStatus
<1>h. CompletedGoalIsDone'
  <2> SUFFICES ASSUME NEW h \in Goals
               PROVE  /\ goalStatus'[h] = "completed" =>
                           /\ TasksOf(status, h) # {}
                           /\ \A u \in TasksOf(status, h) : status'[u] = "completed"
    BY <1>6 DEF CompletedGoalIsDone
  <2>1. CASE h = g
    BY <1>7, <2>1
  <2>2. CASE h # g
    BY <1>4, <1>7, <2>2 DEF CompletedGoalIsDone, TasksOf
  <2> QED  BY <2>1, <2>2
<1> QED  BY <1>a, <1>b, <1>c, <1>d, <1>e, <1>f, <1>g, <1>h

LEMMA PruneCompletedGoalsInv ==
  ASSUME IInv, NEW G \in SUBSET Goals, PruneCompletedGoals(G)
  PROVE  IInv'
<1> USE DEF IInv
<1>1. /\ \A g \in Goals : goalStatus'[g] = IF g \in G THEN "pruned" ELSE goalStatus[g]
      /\ \A t \in Tasks : status'[t] = IF status[t] \notin NoRow /\ goalOf[t] \in G
                                         THEN "pruned" ELSE status[t]
      /\ UNCHANGED <<goalOf, deps, assignedTo, retryCount>>
  BY DEF PruneCompletedGoals
<1>2. \A t \in Tasks : status'[t] \notin NoRow =>
        /\ status'[t] = status[t]
        /\ goalOf[t] \in Goals /\ goalOf[t] \notin G
        /\ deps[t] \subseteq Tasks
        /\ \A d \in deps[t] : status'[d] = status[d] /\ status'[d] \notin NoRow
  BY <1>1 DEF NoOrphans, TasksOf, NoRow
<1>3. \A t \in Tasks : status'[t] \notin NoRow =>
        (DependenciesSatisfied(status, deps[t])' <=> DependenciesSatisfied(status, deps[t]))
  BY <1>1, <1>2 DEF DependenciesSatisfied
<1>4. \A h \in Goals \ G : TasksOf(status, h)' = TasksOf(status, h)
  BY <1>1 DEF TasksOf, NoRow
<1>a. TypeOK'
  BY <1>1 DEF TypeOK, NoRow, PruneCompletedGoals
<1>b. FreshRows' /\ DepsAcyclic'
  BY <1>1 DEF FreshRows, DepsAcyclic, Acyclic, NoRow
<1>c. NoOrphans'
  BY <1>1, <1>2, <1>4 DEF NoOrphans, NoRow
<1>d. BlockedHasReason' /\ BusyHasInputs'
  BY <1>2, <1>3 DEF BlockedHasReason, BusyHasInputs, BusyStatus, NoRow
<1>e. FailureBlocksDependents'
  BY <1>1, <1>2 DEF FailureBlocksDependents
<1>f. AssignmentMatchesStatus'
  BY <1>1 DEF AssignmentMatchesStatus, BusyStatus
<1>g. CompletedGoalIsDone'
  BY <1>1, <1>4 DEF CompletedGoalIsDone, TasksOf
<1> QED  BY <1>a, <1>b, <1>c, <1>d, <1>e, <1>f, <1>g

LEMMA CancelGoalInv ==
  ASSUME IInv, NEW g \in Goals, CancelGoal(g)
  PROVE  IInv'
<1> USE DEF IInv
<1>1. /\ goalStatus[g] = "active"
      /\ \A h \in Goals : goalStatus'[h] = IF h = g THEN "failed" ELSE goalStatus[h]
      /\ \A t \in Tasks : \/ status'[t] = status[t]
                          \/ /\ status'[t] = "cancelled"
                             /\ status[t] \in {"pending", "blocked", "assigned", "running"}
      /\ UNCHANGED <<goalOf, deps, assignedTo, retryCount>>
  BY DEF CancelGoal, BusyStatus, TypeOK
<1>2. \A t \in Tasks : /\ status[t] \in NoRow <=> status'[t] \in NoRow
                       /\ status[t] = "unused" <=> status'[t] = "unused"
                       /\ status'[t] = "completed" <=> status[t] = "completed"
                       /\ status'[t] = "failed" <=> status[t] = "failed"
  BY <1>1 DEF NoRow
<1>3. \A t \in Tasks : DependenciesSatisfied(status, deps[t])' <=>
                         DependenciesSatisfied(status, deps[t])
  BY <1>1, <1>2 DEF DependenciesSatisfied, TypeOK
<1>4. \A h \in Goals : TasksOf(status, h)' = TasksOf(status, h)
  BY <1>1, <1>2 DEF TasksOf
<1>a. TypeOK'
  BY <1>1 DEF TypeOK, CancelGoal, TaskStatus, GoalStatus
<1>b. FreshRows' /\ DepsAcyclic'
  BY <1>1, <1>2 DEF FreshRows, DepsAcyclic, Acyclic
<1>c. NoOrphans'
  BY <1>1, <1>2, <1>4 DEF NoOrphans, NoRow
<1>d. BlockedHasReason' /\ BusyHasInputs'
  BY <1>1, <1>3 DEF BlockedHasReason, BusyHasInputs, BusyStatus
<1>e. FailureBlocksDependents'
  BY <1>1, <1>2 DEF FailureBlocksDependents, BusyStatus
<1>f. AssignmentMatchesStatus'
  BY <1>1 DEF AssignmentMatchesStatus, BusyStatus
<1>g. CompletedGoalIsDone'
  BY <1>1, <1>2, <1>4 DEF CompletedGoalIsDone, TasksOf
<1> QED  BY <1>a, <1>b, <1>c, <1>d, <1>e, <1>f, <1>g

LEMMA ResetTasksInv ==
  ASSUME IInv, NEW g \in Goals, ResetTasks(g)
  PROVE  IInv'
<1> USE DEF IInv
<1>1. /\ goalStatus[g] \notin NoRow
      /\ \A t \in Tasks :
           IF t \in TasksOf(status, g) /\ status[t] \in {"failed", "blocked"}
             THEN status'[t] = "pending" /\ assignedTo'[t] = NoAgent
             ELSE status'[t] = status[t] /\ assignedTo'[t] = assignedTo[t]
      /\ UNCHANGED <<goalStatus, goalOf, deps, retryCount>>
  BY DEF ResetTasks, TasksToReset, TypeOK
<1>2. \A t \in Tasks : /\ status[t] \in NoRow <=> status'[t] \in NoRow
                       /\ status[t] = "unused" <=> status'[t] = "unused"
                       /\ status'[t] = "completed" <=> status[t] = "completed"
                       /\ status'[t] = "failed" <=>
                            status[t] = "failed" /\ t \notin TasksOf(status, g)
  BY <1>1 DEF NoRow
<1>3. \A t \in Tasks : DependenciesSatisfied(status, deps[t])' <=>
                         DependenciesSatisfied(status, deps[t])
  BY <1>1, <1>2 DEF DependenciesSatisfied, TypeOK
<1>4. \A h \in Goals : TasksOf(status, h)' = TasksOf(status, h)
  BY <1>1, <1>2 DEF TasksOf
<1>a. TypeOK'
  BY <1>1 DEF TypeOK, ResetTasks, TasksToReset, TaskStatus, GoalStatus
<1>b. FreshRows' /\ DepsAcyclic'
  BY <1>1, <1>2 DEF FreshRows, DepsAcyclic, Acyclic
<1>c. NoOrphans'
  BY <1>1, <1>2, <1>4 DEF NoOrphans, NoRow
<1>d. BlockedHasReason' /\ BusyHasInputs'
  BY <1>1, <1>3 DEF BlockedHasReason, BusyHasInputs, BusyStatus
<1>e. FailureBlocksDependents'
  BY <1>1, <1>2 DEF FailureBlocksDependents, BusyStatus, NoOrphans, TasksOf
<1>f. AssignmentMatchesStatus'
  BY <1>1 DEF AssignmentMatchesStatus, BusyStatus
<1>g. CompletedGoalIsDone'
  BY <1>1, <1>2, <1>4 DEF CompletedGoalIsDone, TasksOf
<1> QED  BY <1>a, <1>b, <1>c, <1>d, <1>e, <1>f, <1>g

LEMMA UpdateGoalStatusInv ==
  ASSUME IInv, NEW g \in Goals, NEW s \in {"active", "completed", "failed"},
         UpdateGoalStatus(g, s)
  PROVE  IInv'
<1> USE DEF IInv, UpdateGoalStatus
<1>1. \A h \in Goals : goalStatus'[h] = IF h = g THEN s ELSE goalStatus[h]
  BY DEF TypeOK
<1>2. TypeOK'
  BY DEF TypeOK, GoalStatus
<1>3. FreshRows' /\ DepsAcyclic'
  BY DEF FreshRows, DepsAcyclic, Acyclic
<1>4. NoOrphans'
  BY <1>1 DEF NoOrphans, NoRow, TasksOf
<1>5. BlockedHasReason' /\ BusyHasInputs'
  BY DEF BlockedHasReason, BusyHasInputs, DependenciesSatisfied
<1>6. FailureBlocksDependents' /\ AssignmentMatchesStatus'
  BY DEF FailureBlocksDependents, AssignmentMatchesStatus
<1>7. CompletedGoalIsDone'
  BY <1>1 DEF CompletedGoalIsDone, TasksOf
<1> QED  BY <1>2, <1>3, <1>4, <1>5, <1>6, <1>7

LEMMA DecomposeGoalInv ==
  ASSUME IInv, NEW g \in Goals, NEW batch \in SUBSET Tasks,
         NEW newDeps \in [batch -> SUBSET Tasks],
         DecomposeGoal(g, batch, newDeps)
  PROVE  IInv'
<1> DEFINE T == TasksOf(status, g) \union batch
           Sat(t) == \A d \in newDeps[t] : status[d] = "completed"
           inserted == [t \in Tasks |-> IF t \notin batch THEN status[t]
                                        ELSE IF Sat(t) THEN "pending" ELSE "blocked"]
<1> USE DEF IInv
<1>1. /\ goalStatus[g] \notin NoRow
      /\ \A t \in batch : t \in Tasks /\ status[t] = "unused"
      /\ \A t \in batch : newDeps[t] \subseteq T /\ newDeps[t] \subseteq Tasks
      /\ Acyclic(batch, newDeps)
      /\ \A t \in Tasks : goalOf'[t] = IF t \in batch THEN g ELSE goalOf[t]
      /\ \A t \in Tasks : deps'[t] = IF t \in batch THEN newDeps[t] ELSE deps[t]
      /\ UNCHANGED <<assignedTo, retryCount>>
  BY DEF DecomposeGoal, DetectCycles, ValidReferences
<1>2. /\ \A t \in Tasks :
           status'[t] = IF /\ inserted[t] = "blocked"
                           /\ \A d \in deps'[t] : inserted[d] = "completed"
                          THEN "pending" ELSE inserted[t]
      /\ status' = [t \in Tasks |-> status'[t]]
      /\ goalStatus' = RefreshGoalStatus(status', T, g)
  BY DEF DecomposeGoal, StatusWithBatch, UnblockReadyBlockedTasks,
         DependenciesSatisfied
<1>3. \A d \in Tasks : inserted[d] = "completed" <=> status[d] = "completed"
  BY <1>1
<1>4. \A t \in Tasks : t \notin batch => status'[t] = status[t]
  <2> SUFFICES ASSUME NEW t \in Tasks, t \notin batch
               PROVE  status'[t] = status[t]
    OBVIOUS
  <2>1. inserted[t] = status[t] /\ deps'[t] = deps[t] /\ deps[t] \subseteq Tasks
    BY <1>1 DEF TypeOK
  <2>2. status[t] = "blocked" => ~ \A d \in deps[t] : inserted[d] = "completed"
    BY <1>3, <2>1 DEF BlockedHasReason, DependenciesSatisfied
  <2> HIDE DEF inserted
  <2> QED  BY <1>2, <2>1, <2>2
<1>5. \A t \in batch : status'[t] = IF Sat(t) THEN "pending" ELSE "blocked"
  <2> SUFFICES ASSUME NEW t \in batch
               PROVE  status'[t] = IF Sat(t) THEN "pending" ELSE "blocked"
    OBVIOUS
  <2>1. /\ t \in Tasks /\ deps'[t] = newDeps[t] /\ newDeps[t] \subseteq Tasks
        /\ inserted[t] = IF Sat(t) THEN "pending" ELSE "blocked"
    BY <1>1
  <2>2. (\A d \in newDeps[t] : inserted[d] = "completed") <=> Sat(t)
    BY <1>3, <2>1
  <2> HIDE DEF inserted, Sat
  <2> QED  BY <1>2, <2>1, <2>2
<1> HIDE DEF inserted
<1>6. \A t \in Tasks : /\ status'[t] = "completed" <=> status[t] = "completed"
                       /\ status'[t] = "failed" <=> status[t] = "failed"
                       /\ status'[t] \in NoRow <=> status[t] \in NoRow /\ t \notin batch
                       /\ status'[t] = "unused" <=> status[t] = "unused" /\ t \notin batch
  BY <1>1, <1>4, <1>5 DEF NoRow
<1>7. /\ TasksOf(status, g)' = T
      /\ \A h \in Goals : h # g => TasksOf(status, h)' = TasksOf(status, h)
  BY <1>1, <1>6 DEF TasksOf, NoRow
<1>8. \A t \in Tasks \ batch : DependenciesSatisfied(status, deps[t])' <=>
                                 DependenciesSatisfied(status, deps[t])
  BY <1>1, <1>6 DEF DependenciesSatisfied, TypeOK
<1>9. \A t \in batch : DependenciesSatisfied(status, deps[t])' <=> Sat(t)
  BY <1>1, <1>6 DEF DependenciesSatisfied
<1>10. status' \in [Tasks -> TaskStatus \union NoRow]
  BY <1>2, <1>4, <1>5 DEF TypeOK, TaskStatus
<1>11. /\ goalStatus' \in [Goals -> GoalStatus \union NoRow]
       /\ \A h \in Goals : h # g => goalStatus'[h] = goalStatus[h]
       /\ \A h \in Goals : goalStatus'[h] \in NoRow <=> goalStatus[h] \in NoRow
       /\ goalStatus'[g] = "completed" => T # {} /\ \A u \in T : status'[u] = "completed"
  <2>1. T \in SUBSET Tasks
    BY DEF TasksOf
  <2>2. goalStatus \in [Goals -> GoalStatus \union NoRow]
    BY DEF TypeOK
  <2>3. goalStatus' = RefreshGoalStatus(status', T, g)
    BY <1>2
  <2> HIDE DEF T
  <2> QED  BY <2>1, <2>2, <2>3, RefreshFacts
<1>a. TypeOK'
  <2>1. goalOf' \in [Tasks -> Goals \union {NoGoal}] /\ deps' \in [Tasks -> SUBSET Tasks]
    BY <1>1 DEF DecomposeGoal, TypeOK
  <2> QED  BY <1>1, <1>10, <1>11, <2>1 DEF TypeOK
<1>b. FreshRows'
  BY <1>1, <1>6 DEF FreshRows, TasksOf, NoRow
<1>c. DepsAcyclic'
  <2> SUFFICES ASSUME NEW S \in SUBSET Tasks, S # {}
               PROVE  \E t \in S : deps'[t] \cap S = {}
    BY DEF DepsAcyclic, Acyclic
  <2>1. CASE S \subseteq batch
    <3>1. PICK t \in S : newDeps[t] \cap S = {}
      BY <1>1, <2>1 DEF Acyclic
    <3> QED  BY <1>1, <2>1, <3>1
  <2>2. CASE ~(S \subseteq batch)
    <3>1. PICK t \in S \ batch : deps[t] \cap (S \ batch) = {}
      BY <2>2 DEF DepsAcyclic, Acyclic
    <3>2. deps[t] \cap batch = {}
      BY <1>1 DEF FreshRows
    <3> QED  BY <1>1, <3>1, <3>2
  <2> QED  BY <2>1, <2>2
<1>d. NoOrphans'
  <2> SUFFICES ASSUME NEW t \in Tasks, status'[t] \notin NoRow
               PROVE  /\ goalOf'[t] \in Goals
                      /\ goalStatus'[goalOf'[t]] \notin NoRow
                      /\ deps'[t] \subseteq TasksOf(status, goalOf[t])'
    BY DEF NoOrphans
  <2>1. CASE t \in batch
    BY <1>1, <1>7, <1>11, <2>1
  <2>2. CASE t \notin batch
    BY <1>1, <1>6, <1>7, <1>11, <2>2 DEF NoOrphans
  <2> QED  BY <2>1, <2>2
<1>e. BlockedHasReason' /\ BusyHasInputs'
  BY <1>1, <1>4, <1>5, <1>8, <1>9 DEF BlockedHasReason, BusyHasInputs, BusyStatus
<1>f. FailureBlocksDependents'
  <2> SUFFICES ASSUME NEW t \in Tasks, NEW d \in Tasks, status'[t] \notin NoRow,
                      d \in deps'[t], status'[d] = "failed"
               PROVE  status'[t] \notin {"pending"} \union BusyStatus
    BY DEF FailureBlocksDependents
  <2>1. CASE t \in batch
    <3>1. ~Sat(t)
      BY <1>1, <1>6, <2>1
    <3> QED  BY <1>5, <2>1, <3>1 DEF BusyStatus
  <2>2. CASE t \notin batch
    BY <1>1, <1>4, <1>6, <2>2 DEF FailureBlocksDependents
  <2> QED  BY <2>1, <2>2
<1>g. AssignmentMatchesStatus'
  BY <1>1, <1>4, <1>5 DEF AssignmentMatchesStatus, FreshRows, BusyStatus
<1>h. CompletedGoalIsDone'
  <2> SUFFICES ASSUME NEW h \in Goals
               PROVE  /\ goalStatus'[h] = "completed" =>
                           /\ TasksOf(status, h)' # {}
                           /\ \A u \in TasksOf(status, h)' : status'[u] = "completed"
    BY DEF CompletedGoalIsDone
  <2>1. CASE h = g
    BY <1>7, <1>11, <2>1
  <2>2. CASE h # g
    BY <1>6, <1>7, <1>11, <2>2 DEF CompletedGoalIsDone, TasksOf
  <2> QED  BY <2>1, <2>2
<1> QED  BY <1>a, <1>b, <1>c, <1>d, <1>e, <1>f, <1>g, <1>h

-----------------------------------------------------------------------------
(***************************************************************************)
(* The theorems.                                                           *)
(***************************************************************************)
LEMMA NextInv == IInv /\ [Next]_vars => IInv'
<1> SUFFICES ASSUME IInv, [Next]_vars PROVE IInv'
  OBVIOUS
<1>1. ASSUME NEW g \in Goals, CreateGoal(g) PROVE IInv'
  BY <1>1, CreateGoalInv
<1>2. ASSUME NEW g \in Goals, Decompose(g) PROVE IInv'
  BY <1>2, DecomposeGoalInv DEF Decompose
<1>3. ASSUME NEW g \in Goals, CancelGoal(g) PROVE IInv'
  BY <1>3, CancelGoalInv
<1>4. ASSUME NEW g \in Goals, ResetTasks(g) PROVE IInv'
  BY <1>4, ResetTasksInv
<1>5. ASSUME NEW G \in SUBSET Goals, PruneCompletedGoals(G) PROVE IInv'
  BY <1>5, PruneCompletedGoalsInv
<1>6. ASSUME NEW t \in Tasks, CompleteTask(t) PROVE IInv'
  BY <1>6, CompleteTaskInv
<1>7. ASSUME NEW t \in Tasks, NEW shouldRetry \in BOOLEAN, FailTask(t, shouldRetry)
      PROVE  IInv'
  BY <1>7, FailTaskForRetryInv, FailTaskForGoodInv DEF FailTask
<1>8. ASSUME NEW t \in ReadyTasks, NEW a \in Agents, AssignTask(t, a) PROVE IInv'
  BY <1>8, AssignTaskInv
<1>9. ASSUME NEW g \in Goals, NEW s \in {"active", "completed", "failed"},
             UpdateGoalStatus(g, s)
      PROVE  IInv'
  BY <1>9, UpdateGoalStatusInv
<1>10. CASE UNCHANGED vars
  BY <1>10 DEF vars, IInv, TypeOK, FreshRows, NoOrphans, DepsAcyclic, Acyclic,
     BlockedHasReason, BusyHasInputs, FailureBlocksDependents,
     AssignmentMatchesStatus, CompletedGoalIsDone, TasksOf, DependenciesSatisfied
<1> QED  BY <1>1, <1>2, <1>3, <1>4, <1>5, <1>6, <1>7, <1>8, <1>9, <1>10 DEF Next

THEOREM InvariantHolds == Spec => []IInv
<1> QED  BY InitInv, NextInv, PTL DEF Spec

\* Every column keeps its type and no task is retried more often than allowed.
THEOREM TypeCorrect == Spec => []TypeOK
<1>1. IInv => TypeOK
  BY DEF IInv
<1> QED  BY <1>1, InvariantHolds, PTL

\* However many batches a goal is decomposed and replanned into, the
\* dependencies of all tasks together never form a cycle.
THEOREM GraphIsAcyclic == Spec => []DepsAcyclic
<1>1. IInv => DepsAcyclic
  BY DEF IInv
<1> QED  BY <1>1, InvariantHolds, PTL

\* Pruning and decomposing leave no task without its goal or its dependencies.
THEOREM ReferencesHold == Spec => []NoOrphans
<1>1. IInv => NoOrphans
  BY DEF IInv
<1> QED  BY <1>1, InvariantHolds, PTL

\* A blocked task waits for a dependency that is not completed: whatever order
\* completions, failures, retries and replans come in, no unblock is lost.
THEOREM NoUnblockLost == Spec => []BlockedHasReason
<1>1. IInv => BlockedHasReason
  BY DEF IInv
<1> QED  BY <1>1, InvariantHolds, PTL

\* Nobody works on a task with a dependency that is not completed, although a
\* replan makes tasks pending without looking at what they depend on.
THEOREM InputsAreThere == Spec => []BusyHasInputs
<1>1. IInv => BusyHasInputs
  BY DEF IInv
<1> QED  BY <1>1, InvariantHolds, PTL

\* A direct dependent of a failed task is out of the queue: failTask() blocks
\* those it finds waiting or taken, and no later plan or reset brings one back.
THEOREM FailureReaches == Spec => []FailureBlocksDependents
<1>1. IInv => FailureBlocksDependents
  BY DEF IInv
<1> QED  BY <1>1, InvariantHolds, PTL

\* assigned_to names somebody exactly while the task is taken.
THEOREM OwnersAreTrue == Spec => []AssignmentMatchesStatus
<1>1. IInv => AssignmentMatchesStatus
  BY DEF IInv
<1> QED  BY <1>1, InvariantHolds, PTL

\* A goal marked completed has tasks, all of them completed.
THEOREM CompletedGoalsAreDone == Spec => []CompletedGoalIsDone
<1>1. IInv => CompletedGoalIsDone
  BY DEF IInv
<1> QED  BY <1>1, InvariantHolds, PTL

\* The graph never wedges.  Of the tasks that are not completed, take one that
\* depends on no other of them: its dependencies are completed, so it is not
\* blocked, and being neither failed nor cancelled it is ready or busy.
LEMMA InvImpliesProgress == IInv => GoalCanProgress
<1> SUFFICES ASSUME IInv, NEW g \in Goals,
                    \E t \in TasksOf(status, g) : status[t] # "completed",
                    \A t \in TasksOf(status, g) : status[t] \notin {"failed", "cancelled"}
             PROVE  \E t \in TasksOf(status, g) : t \in ReadyTasks \/ status[t] \in BusyStatus
  BY DEF GoalCanProgress
<1> DEFINE open == {t \in TasksOf(status, g) : status[t] # "completed"}
<1>1. open \in SUBSET Tasks /\ open # {}
  BY DEF TasksOf
<1>2. PICK t \in open : deps[t] \cap open = {}
  BY <1>1 DEF IInv, DepsAcyclic, Acyclic
<1>3. t \in Tasks /\ status[t] \notin NoRow /\ goalOf[t] = g
  BY <1>2 DEF TasksOf
<1>4. deps[t] \subseteq TasksOf(status, g)
  BY <1>3 DEF IInv, NoOrphans
<1>5. DependenciesSatisfied(status, deps[t])
  BY <1>2, <1>4 DEF DependenciesSatisfied
<1>6. status[t] \in {"pending", "assigned", "running"}
  BY <1>2, <1>3, <1>5 DEF IInv, TypeOK, TaskStatus, BlockedHasReason
<1> QED  BY <1>2, <1>3, <1>5, <1>6 DEF ReadyTasks, BusyStatus

THEOREM GraphNeverWedges == Spec => []GoalCanProgress
<1> QED  BY InvariantHolds, InvImpliesProgress, PTL

\* No operation takes a result back.
THEOREM ResultsFinal == Spec => ResultsAreFinal
<1>1. ASSUME IInv, [Next]_vars, NEW t \in Tasks,
             status[t] \in {"completed", "cancelled"}
      PROVE  status'[t] \in {status[t], "pruned"}
  <2>1. ASSUME NEW g \in Goals, CreateGoal(g) \/ CancelGoal(g) \/ ResetTasks(g)
        PROVE  status'[t] = status[t]
    BY <1>1, <2>1 DEF CreateGoal, CancelGoal, ResetTasks, TasksToReset, BusyStatus
  <2>2. ASSUME NEW g \in Goals, NEW batch \in SUBSET Tasks,
               NEW newDeps \in [batch -> SUBSET Tasks],
               DecomposeGoal(g, batch, newDeps)
        PROVE  status'[t] = status[t]
    BY <1>1, <2>2 DEF DecomposeGoal, StatusWithBatch, UnblockReadyBlockedTasks
  <2>3. ASSUME NEW G \in SUBSET Goals, PruneCompletedGoals(G)
        PROVE  status'[t] \in {status[t], "pruned"}
    BY <1>1, <2>3 DEF PruneCompletedGoals
  <2>4. ASSUME NEW u \in Tasks, CompleteTask(u) PROVE status'[t] = status[t]
    BY <1>1, <2>4 DEF CompleteTask, UnblockReadyBlockedTasks, TerminalStatus,
       IInv, TypeOK
  <2>5. ASSUME NEW u \in Tasks, NEW shouldRetry \in BOOLEAN, FailTask(u, shouldRetry)
        PROVE  status'[t] = status[t]
    BY <1>1, <2>5 DEF FailTask, FailTaskForRetry, FailTaskForGood, TerminalStatus,
       DependentsToBlock, BusyStatus, IInv, TypeOK
  <2>6. ASSUME NEW u \in ReadyTasks, NEW a \in Agents, AssignTask(u, a)
        PROVE  status'[t] = status[t]
    BY <1>1, <2>6 DEF AssignTask, ReadyTasks, IInv, TypeOK
  <2>7. ASSUME NEW g \in Goals, NEW s \in {"active", "completed", "failed"},
               UpdateGoalStatus(g, s)
        PROVE  status'[t] = status[t]
    BY <2>7 DEF UpdateGoalStatus
  <2>8. CASE UNCHANGED vars
    BY <2>8 DEF vars
  <2> QED  BY <1>1, <2>1, <2>2, <2>3, <2>4, <2>5, <2>6, <2>7, <2>8 DEF Next, Decompose
<1>2. IInv /\ [Next]_vars =>
        [\A t \in Tasks : status[t] \in {"completed", "cancelled"} =>
           status'[t] \in {status[t], "pruned"}]_vars
  BY <1>1
<1> QED  BY <1>2, InvariantHolds, PTL DEF Spec, ResultsAreFinal
=============================================================================
