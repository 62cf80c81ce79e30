--------------------------- MODULE HeartbeatProofs ---------------------------
(***************************************************************************)
(* Proofs about HeartbeatScheduler, for any tasks, times and number of     *)
(* retries that satisfy its assumptions: leases keep executors apart, and  *)
(* a tick runs a task only while it is due.                                *)
(***************************************************************************)
EXTENDS HeartbeatScheduler, TLAPS

\* A call of executeTask is under way or not.
RunShape ==
  \A e \in Executors :
    run[e] = NoRun \/ (run[e].at # "idle" /\ run[e].task \in Tasks)

\* Of the two calls of tick() one at most has passed tickInProgress, and it
\* is in its loop while it executes a task.
OneTick ==
  /\ \A c \in Chains : call[c].at # "idle" => ticking
  /\ \A c, d \in Chains : call[c].at # "idle" /\ call[d].at # "idle" => c = d
  /\ \A c \in Chains : run[c] # NoRun => call[c].at = "loop"
  /\ \A c \in Chains : call[c].at # "loop" => call[c].todo = {}
  /\ ~up => ~ticking /\ \A e \in Executors : run[e] = NoRun

\* A lease counts as expired only when its time is over.
DatesFit ==
  \A t \in Tasks :
    /\ lease[t].day = "past" => lease[t].left = 0
    /\ lease[t].day = "today" => lease[t].left < midnight

\* A lease is as old as the run it covers, which is over before it.
LeaseCoversRun ==
  \A e \in Executors, t \in Tasks :
    Holds(e, t) => lease[t].left + run[e].age = LeaseTtl

IInv == TypeOK /\ RunShape /\ OneTick /\ LeaseMatchesRun /\ DatesFit
        /\ LeaseCoversRun

\* What a tick has listed and not yet executed is due, or forced, and the task
\* it executes is no longer listed.
ListedIsDue ==
  /\ run["force"] = NoRun \/ run["force"].task \in Forced
  /\ \A c \in Chains :
       /\ run[c].task \notin call[c].todo
       /\ \A t \in call[c].todo :
            t \in Forced \/ t \in due \/ retry[t] = "reached"

----------------------------------------------------------------------------
(* Types.                                                                  *)

USE TasksNamed, RetriesNat, TimesNat, DayNat, LeaseOutlivesRun

\* What happens to a lease leaves a lease, or none.
LEMMA LeaseOps ==
  ASSUME NEW l \in LeaseRows
  PROVE  /\ NoLease \in LeaseRows
         /\ Cleared(l) \in LeaseRows
         /\ Aged(l) \in LeaseRows
         /\ DayLater(l) \in LeaseRows
         /\ l # NoLease => [l EXCEPT !.owner = "gone"] \in LeaseRows
<1>1. CASE l = NoLease
  BY <1>1 DEF LeaseRows, NoLease, Cleared, Expired, Aged, DayLater
<1>2. CASE l # NoLease
  BY <1>2 DEF LeaseRows, NoLease, Cleared, Expired, Aged, DayLater
<1>3. QED
  BY <1>1, <1>2

LEMMA NewLeaseType == NewLease \in LeaseRows
  BY DEF NewLease, LeaseRows

\* Every step keeps the types.
LEMMA TypeStep ==
  ASSUME TypeOK, RunShape, [Next]_vars
  PROVE  TypeOK'
<1> USE LeaseOps DEF TypeOK, rows, calls, loop
<1>c. /\ NoCall \in TickCalls
      /\ NoRun \in TaskRuns
      /\ \A r \in TaskRuns : [r EXCEPT !.at = "recorded"] \in TaskRuns
  BY DEF NoCall, NoRun, TickCalls, TaskRuns
<1>1. CASE Start
  <2>1. call' \in [Chains -> TickCalls]
    BY <1>1 DEF Start, TickCalls, Chains
  <2>2. lease' \in [Tasks -> LeaseRows]
    BY <1>1 DEF Start
  <2>3. due' \subseteq Tasks
    BY <1>1 DEF Start, SeedRows
  <2>4. retry' \in [Tasks -> {"none", "future", "reached"}]
    BY <1>1 DEF Start, SeedRows
  <2>5. QED
    BY <1>1, <2>1, <2>2, <2>3, <2>4 DEF Start
<1>2. CASE Exit
  <2>1. lease' \in [Tasks -> LeaseRows]
    BY <1>2 DEF Exit
  <2>2. QED
    BY <1>2, <1>c, <2>1 DEF Exit
<1>3. CASE TimerTick
  <2>1. call' \in [Chains -> TickCalls]
    BY <1>3 DEF TimerTick, TickCalls, Chains
  <2>2. lease' \in [Tasks -> LeaseRows]
    BY <1>3 DEF TimerTick
  <2>3. QED
    BY <1>3, <2>1, <2>2 DEF TimerTick
<1>r. ASSUME NEW e \in Executors, NEW t \in Tasks, Execute(e, t)
      PROVE  /\ lease' \in [Tasks -> LeaseRows]
             /\ run' \in [Executors -> TaskRuns]
  <2>1. [at |-> "racing", task |-> t, age |-> 0] \in TaskRuns
    BY DEF TaskRuns
  <2>2. QED
    BY <1>r, <2>1, NewLeaseType DEF Execute
<1>4. ASSUME NEW c \in Chains, TickStep(c)
      PROVE  TypeOK'
  <2>1. CASE ListDueTasks(c)
    <3>1. call' \in [Chains -> TickCalls]
      BY <2>1 DEF ListDueTasks, DueTasks, TickCalls
    <3>2. QED
      BY <2>1, <3>1 DEF ListDueTasks
  <2>2. CASE ExecuteNext(c)
    <3>1. PICK t \in Tasks : Execute(c, t)
      BY <2>2 DEF ExecuteNext, TickCalls
    <3>2. call' \in [Chains -> TickCalls]
      BY <2>2 DEF ExecuteNext, TickCalls
    <3>3. QED
      BY <1>r, <3>1, <3>2 DEF Execute, Executors
  <2>3. CASE SkipNext(c)
    <3>1. call' \in [Chains -> TickCalls]
      BY <2>3 DEF SkipNext, TickCalls
    <3>2. QED
      BY <2>3, <3>1 DEF SkipNext
  <2>4. CASE TickEnds(c)
    BY <2>4, <1>c DEF TickEnds
  <2>5. QED
    BY <1>4, <2>1, <2>2, <2>3, <2>4 DEF TickStep
<1>5. ASSUME NEW e \in Executors, RunEnds(e)
      PROVE  TypeOK'
  <2>t. run[e].at = "racing" => run[e].task \in Tasks
    BY DEF RunShape, NoRun
  <2>r. ASSUME RecordFailure(e)
        PROVE  /\ run' \in [Executors -> TaskRuns]
               /\ retry' \in [Tasks -> {"none", "future", "reached"}]
               /\ failures' \in [Tasks -> 0..MaxRetries]
    <3>1. run' \in [Executors -> TaskRuns]
      BY <2>r, <1>c DEF RecordFailure
    <3>2. retry' \in [Tasks -> {"none", "future", "reached"}]
      BY <2>r DEF RecordFailure, MayRetry
    <3>3. failures' \in [Tasks -> 0..MaxRetries]
      BY <2>r DEF RecordFailure, MayRetry
    <3>4. QED
      BY <3>1, <3>2, <3>3
  <2>1. CASE Succeeds(e)
    <3>1. run' \in [Executors -> TaskRuns]
      BY <2>1, <1>c DEF Succeeds
    <3>2. retry' \in [Tasks -> {"none", "future", "reached"}]
      BY <2>1 DEF Succeeds
    <3>3. failures' \in [Tasks -> 0..MaxRetries]
      <4>1. 0 \in 0..MaxRetries /\ failures \in [Tasks -> 0..MaxRetries]
        OBVIOUS
      <4>2. failures' = [failures EXCEPT ![run[e].task] = 0]
        BY <2>1 DEF Succeeds
      <4>3. QED
        BY <4>1, <4>2
    <3>4. wake' \in BOOLEAN
      BY <2>1 DEF Succeeds, MayWake
    <3>5. due' \subseteq Tasks
      BY <2>1 DEF Succeeds
    <3>6. UNCHANGED <<lease, up, ticking, call, late, midnight, agent>>
      BY <2>1 DEF Succeeds
    <3>7. QED
      BY <3>1, <3>2, <3>3, <3>4, <3>5, <3>6
  <2>2. CASE Fails(e)
    BY <2>2, <2>r DEF Fails, RecordFailure
  <2>3. CASE TimesOut(e)
    BY <2>3, <2>r, <2>t DEF TimesOut, RecordFailure
  <2>4. CASE Release(e)
    BY <2>4, <1>c DEF Release
  <2>5. QED
    BY <1>5, <2>1, <2>2, <2>3, <2>4 DEF RunEnds
<1>6. ASSUME NEW t \in Tasks, ForceRun(t) \/ LateEnds(t) \/ CronInstant(t)
      PROVE  TypeOK'
  <2>1. CASE ForceRun(t)
    BY <2>1, <1>r DEF ForceRun, Execute, Executors
  <2>2. CASE LateEnds(t)
    BY <2>2 DEF LateEnds
  <2>3. CASE CronInstant(t)
    BY <2>3 DEF CronInstant
  <2>4. QED
    BY <1>6, <2>1, <2>2, <2>3
<1>7. CASE RunLoop
  BY <1>7 DEF RunLoop, AgentSleeps, AgentWakes, SleepEnds, AgentStarts
<1>8. CASE TimePasses
  <2>1. run' \in [Executors -> TaskRuns]
    BY <1>8, <1>c DEF TimePasses, TaskRuns
  <2>2. lease' \in [Tasks -> LeaseRows]
    BY <1>8 DEF TimePasses
  <2>3. QED
    BY <1>8, <2>1, <2>2 DEF TimePasses
<1>9. CASE UNCHANGED vars
  BY <1>9 DEF vars
<1>10. QED
  BY <1>1, <1>2, <1>3, <1>4, <1>5, <1>6, <1>7, <1>8, <1>9 DEF Next

----------------------------------------------------------------------------
(* Calls.                                                                  *)

LEMMA ShapeStep ==
  ASSUME TypeOK, RunShape, OneTick, [Next]_vars
  PROVE  RunShape' /\ OneTick'
<1> USE DEF RunShape, OneTick, rows, calls, loop
<1>c. /\ Chains \subseteq Executors
      /\ "first" \in Chains /\ "timer" \in Chains /\ "force" \notin Chains
      /\ Executors = Chains \union {"force"}
      /\ \A c \in Chains : c = "first" \/ c = "timer"
  BY DEF Chains, Executors
<1>t. /\ call \in [Chains -> TickCalls]
      /\ run \in [Executors -> TaskRuns]
      /\ \A c \in Chains : call[c].at \in {"idle", "context", "loop"}
  BY DEF TypeOK, TickCalls
<1>n. /\ NoRun.at = "idle"
      /\ NoCall.at = "idle" /\ NoCall.todo = {}
  BY DEF NoRun, NoCall
<1>1. CASE Start
  <2>1. \A c \in Chains : run[c] = NoRun
    BY <1>1, <1>c DEF Start
  <2>2. \A c \in Chains : call[c].at = "idle" /\ call[c].todo = {}
    BY <1>1 DEF Start
  <2>3. /\ call'["first"].at = "context" /\ call'["first"].todo = {}
        /\ call'["timer"] = call["timer"]
        /\ ticking' /\ up' /\ run' = run
    BY <1>1, <1>t, <1>c, <2>2 DEF Start, TickCalls
  <2>4. QED
    BY <2>1, <2>2, <2>3, <1>c
<1>2. CASE Exit
  BY <1>2, <1>n, <1>c DEF Exit
<1>3. CASE TimerTick
  <2>1. \A c \in Chains : call[c].at = "idle" /\ call[c].todo = {}
    BY <1>3 DEF TimerTick
  <2>2. \A c \in Chains : run[c] = NoRun
    BY <2>1
  <2>3. /\ call'["timer"].at = "context" /\ call'["timer"].todo = {}
        /\ call'["first"] = call["first"]
        /\ ticking' /\ up' /\ run' = run
    BY <1>3, <1>t, <1>c, <2>1 DEF TimerTick, TickCalls
  <2>4. QED
    BY <2>1, <2>2, <2>3, <1>c
<1>r. ASSUME NEW e \in Executors, NEW t \in Tasks, Execute(e, t)
      PROVE  /\ run[e] = NoRun
             /\ run'[e].at = "racing" /\ run'[e].task = t
             /\ \A f \in Executors \ {e} : run'[f] = run[f]
             /\ ticking' = ticking /\ up' = up
  BY <1>r, <1>t DEF Execute
<1>4. ASSUME NEW c \in Chains, TickStep(c)
      PROVE  RunShape' /\ OneTick'
  <2>1. CASE ListDueTasks(c)
    <3>1. /\ call'[c].at = "loop"
          /\ \A d \in Chains \ {c} : call'[d] = call[d]
          /\ run' = run /\ up' = up /\ ticking' = ticking
      BY <2>1, <1>t DEF ListDueTasks
    <3>2. call[c].at = "context"
      BY <2>1 DEF ListDueTasks
    <3>3. QED
      BY <3>1, <3>2
  <2>2. CASE ExecuteNext(c)
    <3>1. PICK t \in call[c].todo : Execute(c, t)
      BY <2>2 DEF ExecuteNext
    <3>2. t \in Tasks /\ c \in Executors
      BY <1>t, <1>c DEF TickCalls
    <3>3. /\ run[c] = NoRun
          /\ run'[c].at = "racing" /\ run'[c].task = t
          /\ \A f \in Executors \ {c} : run'[f] = run[f]
          /\ ticking' = ticking /\ up' = up
      BY <3>1, <3>2, <1>r
    <3>4. /\ call'[c].at = call[c].at
          /\ \A d \in Chains \ {c} : call'[d] = call[d]
      BY <2>2, <1>t DEF ExecuteNext, TickCalls
    <3>5. call[c].at = "loop"
      BY <3>1
    <3>6. RunShape'
      BY <3>2, <3>3
    <3>7. OneTick'
      BY <3>2, <3>3, <3>4, <3>5, <1>c
    <3>8. QED
      BY <3>6, <3>7
  <2>3. CASE SkipNext(c)
    <3>1. PICK t \in call[c].todo : SkipNext(c)
      BY <2>3 DEF SkipNext
    <3>2. /\ call'[c].at = call[c].at
          /\ \A d \in Chains \ {c} : call'[d] = call[d]
          /\ run' = run /\ up' = up /\ ticking' = ticking
      BY <2>3, <1>t DEF SkipNext, TickCalls
    <3>3. call[c].at = "loop"
      BY <3>1
    <3>4. QED
      BY <3>2, <3>3
  <2>4. CASE TickEnds(c)
    <3>1. /\ call'[c] = NoCall
          /\ \A d \in Chains \ {c} : call'[d] = call[d]
          /\ run' = run /\ up' = up /\ ~ticking' /\ run[c] = NoRun
          /\ call[c].at = "loop"
      BY <2>4, <1>t DEF TickEnds
    <3>2. \A d \in Chains \ {c} : call[d].at = "idle"
      BY <3>1
    <3>3. QED
      BY <3>1, <3>2, <1>n, <1>c
  <2>5. QED
    BY <1>4, <2>1, <2>2, <2>3, <2>4 DEF TickStep
<1>5. ASSUME NEW e \in Executors, RunEnds(e)
      PROVE  RunShape' /\ OneTick'
  <2>1. /\ call' = call /\ up' = up /\ ticking' = ticking
        /\ \A f \in Executors \ {e} : run'[f] = run[f]
    BY <1>5, <1>t DEF RunEnds, Succeeds, Fails, TimesOut, RecordFailure, Release
  <2>2. /\ run[e].at # "idle"
        /\ run'[e] = NoRun \/ (run'[e].at = "recorded"
                               /\ run'[e].task = run[e].task)
    BY <1>5, <1>t DEF RunEnds, Succeeds, Fails, TimesOut, RecordFailure,
                      Release,
                      TaskRuns
  <2>3. QED
    BY <2>1, <2>2, <1>n, <1>c
<1>6. ASSUME NEW t \in Tasks, ForceRun(t)
      PROVE  RunShape' /\ OneTick'
  <2>1. Execute("force", t) /\ up /\ call' = call
    BY <1>6 DEF ForceRun
  <2>2. /\ run'["force"].at = "racing" /\ run'["force"].task = t
        /\ \A f \in Executors \ {"force"} : run'[f] = run[f]
        /\ ticking' = ticking /\ up' = up
    BY <2>1, <1>r, <1>c
  <2>3. QED
    BY <2>1, <2>2, <1>c
<1>7. ASSUME UNCHANGED <<call, run, ticking, up>>
      PROVE  RunShape' /\ OneTick'
  BY <1>7
<1>8. CASE TimePasses
  <2>1. /\ call' = call /\ up' = up /\ ticking' = ticking
        /\ \A e \in Executors :
             \/ run[e] = NoRun /\ run'[e] = NoRun
             \/ /\ run'[e].at = run[e].at /\ run'[e].task = run[e].task
                /\ run[e] # NoRun
    BY <1>8, <1>t DEF TimePasses, TaskRuns
  <2>2. QED
    BY <2>1, <1>c
<1>9. QED
  BY <1>1, <1>2, <1>3, <1>4, <1>5, <1>6, <1>7, <1>8
     DEF Next, LateEnds, CronInstant, RunLoop, AgentSleeps, AgentWakes,
         SleepEnds, AgentStarts, vars

----------------------------------------------------------------------------
(* Leases.                                                                 *)

\* The lease of a task that is run here has not expired, neither in time nor
\* by its date.
LEMMA HeldLeaseIsLive ==
  ASSUME IInv, NEW e \in Executors, NEW t \in Tasks, Holds(e, t)
  PROVE  /\ lease[t].owner = "self"
         /\ lease[t].left > 0
         /\ ~Expired(lease[t])
         /\ Cleared(lease[t]) = lease[t]
         /\ ~CanAcquire(t)
<1>1. /\ lease[t].owner = "self"
      /\ lease[t].left + run[e].age = LeaseTtl
  BY DEF IInv, LeaseMatchesRun, LeaseCoversRun
<1>2. /\ run[e].age \in 0..Timeout
      /\ lease[t] \in LeaseRows
      /\ lease[t].left \in 0..LeaseTtl
  BY DEF IInv, TypeOK, TaskRuns, LeaseRows, NoLease
<1>3. lease[t].left > 0
  BY <1>1, <1>2
<1>4. ~Expired(lease[t])
  BY <1>3 DEF IInv, DatesFit, Expired
<1>5. lease[t] # NoLease
  BY <1>1 DEF NoLease
<1>6. QED
  BY <1>1, <1>3, <1>4, <1>5 DEF Cleared, CanAcquire

\* Nobody runs NoTask, so an executor that holds a task has a call under way.
LEMMA HoldersRun ==
  ASSUME RunShape, NEW e \in Executors
  PROVE  /\ run[e] = NoRun => \A t \in Tasks : ~Holds(e, t)
         /\ run[e] # NoRun => run[e].task \in Tasks /\ Holds(e, run[e].task)
  BY DEF RunShape, NoRun, Holds

\* What the invariant says of one lease and its task.
LeaseFits(t) ==
  /\ \A e, f \in Executors : Holds(e, t) /\ Holds(f, t) => e = f
  /\ lease[t].owner = "self" <=> \E e \in Executors : Holds(e, t)
  /\ lease[t].day = "past" => lease[t].left = 0
  /\ lease[t].day = "today" => lease[t].left < midnight
  /\ \A e \in Executors : Holds(e, t) => lease[t].left + run[e].age = LeaseTtl

LEMMA LeasesFit ==
  /\ LeaseMatchesRun /\ DatesFit /\ LeaseCoversRun
       <=> \A t \in Tasks : LeaseFits(t)
BY DEF LeaseMatchesRun, DatesFit, LeaseCoversRun, LeaseFits

\* A step that leaves a lease and the runs of its task alone.
LEMMA FitsIfKept ==
  ASSUME NEW t \in Tasks, LeaseFits(t),
         lease'[t] = lease[t], midnight' = midnight,
         \A e \in Executors : /\ Holds(e, t)' <=> Holds(e, t)
                              /\ Holds(e, t) => run'[e].age = run[e].age
  PROVE  LeaseFits(t)'
BY DEF LeaseFits

\* executeTask takes a lease that is free or expired, so nobody runs the task.
LEMMA ExecuteFits ==
  ASSUME IInv, NEW e \in Executors, NEW t \in Tasks, Execute(e, t)
  PROVE  \A u \in Tasks : LeaseFits(u)'
<1>1. \A f \in Executors : ~Holds(f, t)
  BY HeldLeaseIsLive DEF Execute
<1>2. \A u \in Tasks : LeaseFits(u)
  BY LeasesFit DEF IInv
<1>3. /\ run'[e] = [at |-> "racing", task |-> t, age |-> 0]
      /\ \A f \in Executors \ {e} : run'[f] = run[f]
      /\ lease'[t] = NewLease
      /\ \A u \in Tasks \ {t} : lease'[u] = lease[u]
      /\ midnight' = midnight
  BY DEF Execute, IInv, TypeOK
<1>4. \A u \in Tasks : ~Holds(e, u)
  BY HoldersRun DEF Execute, IInv
<1>5. LeaseFits(t)'
  <2>1. \A f \in Executors : Holds(f, t)' <=> f = e
    BY <1>1, <1>3 DEF Holds
  <2>2. /\ lease'[t].owner = "self"
        /\ lease'[t].left = LeaseTtl
        /\ lease'[t].day # "past"
        /\ lease'[t].day = "today" => lease'[t].left < midnight'
    BY <1>3 DEF NewLease
  <2>3. run'[e].age = 0 /\ LeaseTtl + 0 = LeaseTtl
    BY <1>3
  <2>4. QED
    BY <2>1, <2>2, <2>3 DEF LeaseFits
<1>6. ASSUME NEW u \in Tasks \ {t}
      PROVE  LeaseFits(u)'
  <2>1. \A f \in Executors : (Holds(f, u)' <=> Holds(f, u))
                             /\ (Holds(f, u) => run'[f].age = run[f].age)
    BY <1>3, <1>4 DEF Holds
  <2>2. QED
    BY <1>2, <1>3, <2>1, FitsIfKept
<1>7. QED
  BY <1>5, <1>6

\* The end of a run releases the lease of its task and of no other.
LEMMA ReleaseFits ==
  ASSUME IInv, NEW e \in Executors, Release(e)
  PROVE  \A u \in Tasks : LeaseFits(u)'
<1>1. PICK t \in Tasks : run[e].task = t /\ Holds(e, t)
  BY HoldersRun DEF Release, IInv, NoRun
<1>2. \A u \in Tasks : LeaseFits(u)
  BY LeasesFit DEF IInv
<1>3. lease[t].owner = "self"
  BY <1>1, HeldLeaseIsLive
<1>4. /\ run'[e] = NoRun
      /\ \A f \in Executors \ {e} : run'[f] = run[f]
      /\ lease'[t] = NoLease
      /\ \A u \in Tasks \ {t} : lease'[u] = lease[u]
      /\ midnight' = midnight
  BY <1>1, <1>3 DEF Release, IInv, TypeOK
<1>5. \A u \in Tasks : run'[e].task # u
  BY <1>4, TasksNamed DEF NoRun
<1>6. LeaseFits(t)'
  <2>1. \A f \in Executors : ~Holds(f, t)'
    BY <1>1, <1>2, <1>4, <1>5 DEF LeaseFits, Holds
  <2>2. QED
    BY <1>4, <2>1 DEF LeaseFits, NoLease
<1>7. ASSUME NEW u \in Tasks \ {t}
      PROVE  LeaseFits(u)'
  <2>1. \A f \in Executors : (Holds(f, u)' <=> Holds(f, u))
                             /\ (Holds(f, u) => run'[f].age = run[f].age)
    BY <1>1, <1>4, <1>5 DEF Holds
  <2>2. QED
    BY <1>2, <1>4, <2>1, FitsIfKept
<1>8. QED
  BY <1>6, <1>7

\* A unit of time: a lease and its run age together, and the day of a lease is
\* past only after its time is over.
LEMMA TimePassesFits ==
  ASSUME IInv, TimePasses, NEW t \in Tasks
  PROVE  LeaseFits(t)'
<1> DEFINE l == lease[t]
<1>1. LeaseFits(t) /\ l \in LeaseRows /\ midnight \in 1..Day
  BY LeasesFit DEF IInv, TypeOK
<1>2. /\ l.left \in 0..LeaseTtl
      /\ l.day \in {"none", "tomorrow", "today", "past"}
  BY <1>1 DEF LeaseRows, NoLease
<1>3. \A e \in Executors :
        /\ Holds(e, t)' <=> Holds(e, t)
        /\ Holds(e, t) => /\ run'[e].age = run[e].age + 1
                          /\ run[e].age \in 0..Timeout
  BY DEF TimePasses, IInv, TypeOK, TaskRuns, Holds, NoRun
<1>4. /\ lease'[t] = IF midnight = 1 THEN DayLater(Aged(l)) ELSE Aged(l)
      /\ midnight' = IF midnight = 1 THEN Day ELSE midnight - 1
  BY DEF TimePasses
<1>5. /\ Aged(l).owner = l.owner /\ Aged(l).day = l.day
      /\ Aged(l).left = IF l.left = 0 THEN 0 ELSE l.left - 1
  BY <1>1 DEF Aged, LeaseRows, NoLease
<1>6. /\ lease'[t].owner = l.owner
      /\ lease'[t].left = IF l.left = 0 THEN 0 ELSE l.left - 1
  <2>1. DayLater(Aged(l)).owner = Aged(l).owner
        /\ DayLater(Aged(l)).left = Aged(l).left
    BY <1>1, LeaseOps DEF DayLater, LeaseRows, NoLease
  <2>2. QED
    BY <1>4, <1>5, <2>1
<1>7. lease'[t].day = IF midnight = 1
                        THEN CASE l.day = "tomorrow" -> "today"
                               [] l.day = "today" -> "past"
                               [] OTHER -> l.day
                        ELSE l.day
  <2>1. DayLater(Aged(l)).day = CASE Aged(l).day = "tomorrow" -> "today"
                                  [] Aged(l).day = "today" -> "past"
                                  [] OTHER -> Aged(l).day
    BY <1>1, LeaseOps DEF DayLater, LeaseRows, NoLease
  <2>2. QED
    BY <1>4, <1>5, <2>1
<1>8. /\ lease'[t].day = "past" => lease'[t].left = 0
      /\ lease'[t].day = "today" => lease'[t].left < midnight'
  <2>1. /\ l.day = "past" => l.left = 0
        /\ l.day = "today" => l.left < midnight
    BY <1>1 DEF LeaseFits
  <2>2. CASE midnight = 1
    BY <1>2, <1>4, <1>6, <1>7, <2>1, <2>2
  <2>3. CASE midnight # 1
    BY <1>1, <1>2, <1>4, <1>6, <1>7, <2>1, <2>3
  <2>4. QED
    BY <2>2, <2>3
<1>9. ASSUME NEW e \in Executors, Holds(e, t)
      PROVE  lease'[t].left + run'[e].age = LeaseTtl
  <2>1. l.left > 0
    BY <1>9, HeldLeaseIsLive
  <2>2. l.left + run[e].age = LeaseTtl
    BY <1>1, <1>9 DEF LeaseFits
  <2>3. QED
    BY <1>2, <1>3, <1>6, <1>9, <2>1, <2>2
<1>10. QED
  BY <1>1, <1>3, <1>6, <1>8, <1>9 DEF LeaseFits

\* Every step keeps leases and runs together.
LEMMA LeaseStep ==
  ASSUME IInv, [Next]_vars
  PROVE  \A t \in Tasks : LeaseFits(t)'
<1>f. \A t \in Tasks : LeaseFits(t)
  BY LeasesFit DEF IInv
<1>k. ASSUME UNCHANGED <<lease, run, midnight>>
      PROVE  \A t \in Tasks : LeaseFits(t)'
  BY <1>f, <1>k DEF LeaseFits, Holds
<1>1. CASE Start
  <2> SUFFICES ASSUME NEW t \in Tasks PROVE LeaseFits(t)'
    OBVIOUS
  <2>1. \A e \in Executors : ~Holds(e, t) /\ ~Holds(e, t)'
    BY <1>1, HoldersRun DEF Start, IInv, OneTick, Holds
  <2>2. lease'[t] = NoLease \/ lease'[t] = lease[t]
    BY <1>1 DEF Start, Cleared
  <2>3. midnight' = midnight
    BY <1>1 DEF Start
  <2>4. QED
    BY <1>f, <2>1, <2>2, <2>3 DEF LeaseFits, NoLease
<1>2. CASE Exit
  <2> SUFFICES ASSUME NEW t \in Tasks PROVE LeaseFits(t)'
    OBVIOUS
  <2>1. \A e \in Executors : ~Holds(e, t)'
    BY <1>2, TasksNamed DEF Exit, Holds, NoRun
  <2>2. /\ lease'[t].owner # "self"
        /\ lease'[t].left = lease[t].left /\ lease'[t].day = lease[t].day
    BY <1>2 DEF Exit, NoLease, IInv, TypeOK, LeaseRows
  <2>3. midnight' = midnight
    BY <1>2 DEF Exit
  <2>4. QED
    BY <1>f, <2>1, <2>2, <2>3 DEF LeaseFits
<1>3. CASE TimerTick
  <2> SUFFICES ASSUME NEW t \in Tasks PROVE LeaseFits(t)'
    OBVIOUS
  <2>1. /\ lease'[t] = Cleared(lease[t])
        /\ run' = run /\ midnight' = midnight
    BY <1>3 DEF TimerTick
  <2>2. \A e \in Executors : Holds(e, t)' <=> Holds(e, t)
    BY <2>1 DEF Holds
  <2>3. CASE \E e \in Executors : Holds(e, t)
    BY <1>f, <2>1, <2>2, <2>3, HeldLeaseIsLive, FitsIfKept
  <2>4. CASE \A e \in Executors : ~Holds(e, t)
    BY <1>f, <2>1, <2>2, <2>4 DEF LeaseFits, Cleared, NoLease
  <2>5. QED
    BY <2>3, <2>4
<1>4. ASSUME NEW c \in Chains, ExecuteNext(c)
      PROVE  \A t \in Tasks : LeaseFits(t)'
  <2>1. PICK t \in call[c].todo : Execute(c, t)
    BY <1>4 DEF ExecuteNext
  <2>2. t \in Tasks /\ c \in Executors
    BY DEF IInv, TypeOK, TickCalls, Executors
  <2>3. QED
    BY <2>1, <2>2, ExecuteFits
<1>5. ASSUME NEW t \in Tasks, ForceRun(t)
      PROVE  \A u \in Tasks : LeaseFits(u)'
  BY <1>5, ExecuteFits DEF ForceRun, Executors
<1>6. ASSUME NEW e \in Executors, Succeeds(e) \/ Fails(e) \/ TimesOut(e)
      PROVE  \A t \in Tasks : LeaseFits(t)'
  <2>1. /\ lease' = lease /\ midnight' = midnight
        /\ run' = [run EXCEPT ![e].at = "recorded"]
    BY <1>6 DEF Succeeds, Fails, TimesOut, RecordFailure
  <2>2. \A f \in Executors :
          run'[f].task = run[f].task /\ run'[f].age = run[f].age
    BY <2>1 DEF IInv, TypeOK, TaskRuns
  <2>3. QED
    BY <1>f, <2>1, <2>2, FitsIfKept DEF Holds
<1>7. ASSUME NEW e \in Executors, Release(e)
      PROVE  \A t \in Tasks : LeaseFits(t)'
  BY <1>7, ReleaseFits
<1>8. CASE TimePasses
  BY <1>8, TimePassesFits
<1>9. ASSUME NEW c \in Chains, ListDueTasks(c) \/ SkipNext(c) \/ TickEnds(c)
      PROVE  UNCHANGED <<lease, run, midnight>>
  BY <1>9 DEF ListDueTasks, SkipNext, TickEnds, rows
<1>10. ASSUME NEW t \in Tasks, LateEnds(t) \/ CronInstant(t)
       PROVE  UNCHANGED <<lease, run, midnight>>
  BY <1>10 DEF LateEnds, CronInstant, rows, calls
<1>11. CASE RunLoop
  BY <1>k, <1>11 DEF RunLoop, AgentSleeps, AgentWakes, SleepEnds, AgentStarts,
                     rows, calls
<1>12. CASE UNCHANGED vars
  BY <1>k, <1>12 DEF vars
<1>13. QED
  BY <1>k, <1>1, <1>2, <1>3, <1>4, <1>5, <1>6, <1>7, <1>8, <1>9, <1>10, <1>11,
     <1>12 DEF Next, TickStep, RunEnds

----------------------------------------------------------------------------
(* The theorems.                                                           *)

LEMMA InitInv == Init => IInv
<1> SUFFICES ASSUME Init PROVE IInv
  OBVIOUS
<1>1. TypeOK
  <2>1. /\ NoLease \in LeaseRows
        /\ NoCall \in TickCalls
        /\ NoRun \in TaskRuns
    BY DEF NoLease, LeaseRows, NoCall, TickCalls, NoRun, TaskRuns
  <2>2. 0 \in 0..MaxRetries
    OBVIOUS
  <2>3. QED
    BY <2>1, <2>2 DEF Init, TypeOK
<1>2. RunShape /\ OneTick
  BY DEF Init, RunShape, OneTick, NoCall, Chains, Executors
<1>3. LeaseMatchesRun /\ DatesFit /\ LeaseCoversRun
  BY TasksNamed DEF Init, LeaseMatchesRun, DatesFit, LeaseCoversRun, Holds,
                    NoRun, NoLease
<1>4. QED
  BY <1>1, <1>2, <1>3 DEF IInv

LEMMA NextInv == IInv /\ [Next]_vars => IInv'
<1> SUFFICES ASSUME IInv, [Next]_vars PROVE IInv'
  OBVIOUS
<1>1. TypeOK'
  BY TypeStep DEF IInv
<1>2. RunShape' /\ OneTick'
  BY ShapeStep DEF IInv
<1>3. (LeaseMatchesRun /\ DatesFit /\ LeaseCoversRun)'
  BY LeaseStep DEF LeaseMatchesRun, DatesFit, LeaseCoversRun, LeaseFits
<1>4. QED
  BY <1>1, <1>2, <1>3 DEF IInv

\* The inductive invariant.
THEOREM Inductive == Spec => []IInv
BY InitInv, NextInv, PTL DEF Spec

\* The rows, calls, runs and leases have their types, a failure counter stays
\* within max_retries and a lease within its term.
THEOREM HeartbeatTypes == Spec => []TypeOK
<1>1. IInv => TypeOK
  BY DEF IInv
<1>2. QED
  BY <1>1, Inductive, PTL

\* Whatever the tasks, the times and the order of ticks, forced runs, ends of
\* the day and restarts: a task has one executor at a time, and its row is
\* leased by this process exactly while it runs.
THEOREM LeasesExclude == Spec => []LeaseMatchesRun
<1>1. IInv => LeaseMatchesRun
  BY DEF IInv
<1>2. QED
  BY <1>1, Inductive, PTL

----------------------------------------------------------------------------
(* Due tasks.                                                              *)

\* A tick that executes a task is the only one with tasks listed.
LEMMA OthersListNothing ==
  ASSUME OneTick, NEW c \in Chains, call[c].at # "idle"
  PROVE  \A d \in Chains \ {c} : call[d].todo = {}
BY DEF OneTick

\* The end of a run makes its task alone no longer due.
LEMMA RunEndsListed ==
  ASSUME IInv, ListedIsDue, NEW e \in Executors,
         Succeeds(e) \/ RecordFailure(e)
  PROVE  ListedIsDue'
<1>1. PICK t \in Tasks : run[e].task = t
  BY HoldersRun DEF Succeeds, RecordFailure, IInv, NoRun
<1>2. /\ call' = call
      /\ \A f \in Executors : run'[f].task = run[f].task
      /\ due' = due \ {t}
      /\ \A u \in Tasks \ {t} : retry'[u] = retry[u]
  <2>1. /\ call' = call /\ due' = due \ {t}
        /\ run' = [run EXCEPT ![e].at = "recorded"]
    BY <1>1 DEF Succeeds, RecordFailure
  <2>2. \A f \in Executors : run'[f].task = run[f].task
    BY <2>1 DEF IInv, TypeOK, TaskRuns
  <2>3. \/ retry' = retry
        \/ retry' = [retry EXCEPT ![t] = "none"]
        \/ retry' = [retry EXCEPT ![t] = "future"]
    BY <1>1 DEF Succeeds, RecordFailure, MayRetry
  <2>4. \A u \in Tasks \ {t} : retry'[u] = retry[u]
    BY <2>3 DEF IInv, TypeOK
  <2>5. QED
    BY <2>1, <2>2, <2>4
<1>3. run["force"] = NoRun => e # "force"
  BY DEF Succeeds, RecordFailure, NoRun
<1>4. \A c \in Chains : t \in call[c].todo => t \in Forced
  <2>1. CASE e = "force"
    BY <1>1, <1>3, <2>1 DEF ListedIsDue
  <2>2. CASE e \in Chains
    <3>1. run[e] # NoRun
      BY DEF Succeeds, RecordFailure, NoRun
    <3>2. call[e].at # "idle"
      BY <2>2, <3>1 DEF IInv, OneTick
    <3>3. \A d \in Chains \ {e} : call[d].todo = {}
      BY <2>2, <3>2, OthersListNothing DEF IInv
    <3>4. t \notin call[e].todo
      BY <1>1, <2>2 DEF ListedIsDue
    <3>5. QED
      BY <3>3, <3>4
  <2>3. QED
    BY <2>1, <2>2 DEF Executors
<1>5. run'["force"] = NoRun \/ run'["force"].task \in Forced
  <2>1. "force" \in Executors
    BY DEF Executors
  <2>2. CASE run["force"] = NoRun
    <3>1. run' = [run EXCEPT ![e].at = "recorded"]
      BY DEF Succeeds, RecordFailure
    <3>2. QED
      BY <1>3, <2>1, <2>2, <3>1 DEF IInv, TypeOK
  <2>3. CASE run["force"].task \in Forced
    BY <1>2, <2>1, <2>3
  <2>4. QED
    BY <2>2, <2>3 DEF ListedIsDue
<1>6. \A c \in Chains : call[c].todo \subseteq Tasks /\ c \in Executors
  BY DEF IInv, TypeOK, TickCalls, Executors
<1>7. ASSUME NEW c \in Chains
      PROVE  /\ run'[c].task \notin call'[c].todo
             /\ \A u \in call'[c].todo :
                  u \in Forced \/ u \in due' \/ retry'[u] = "reached"
  BY <1>2, <1>4, <1>6 DEF ListedIsDue
<1>8. QED
  BY <1>5, <1>7 DEF ListedIsDue

\* Every step keeps what is listed due.
LEMMA ListedStep ==
  ASSUME IInv, ListedIsDue, [Next]_vars
  PROVE  ListedIsDue'
<1> USE DEF ListedIsDue, rows, calls, loop
<1>c. /\ "force" \in Executors /\ "force" \notin Chains
      /\ \A c \in Chains : c \in Executors /\ call[c].todo \subseteq Tasks
      /\ NoRun.task = NoTask /\ NoCall.todo = {}
  BY DEF IInv, TypeOK, TickCalls, Executors, Chains, NoRun, NoCall
<1>1. CASE Start \/ TimerTick
  <2>1. \A c \in Chains : call[c].todo = {}
    BY <1>1 DEF Start, TimerTick, IInv, OneTick, Chains
  <2>2. \A c \in Chains : call'[c].todo = {}
    <3>1. call \in [Chains -> TickCalls]
      BY DEF IInv, TypeOK
    <3>2. \E d \in Chains : call' = [call EXCEPT ![d].at = "context"]
      BY <1>1 DEF Start, TimerTick, Chains
    <3>3. QED
      BY <2>1, <3>1, <3>2 DEF TickCalls
  <2>3. run' = run
    BY <1>1 DEF Start, TimerTick
  <2>4. QED
    BY <2>2, <2>3
<1>2. CASE Exit
  BY <1>2, <1>c DEF Exit
<1>3. ASSUME NEW c \in Chains, ListDueTasks(c)
      PROVE  ListedIsDue'
  <2>1. /\ call'[c].todo = DueTasks
        /\ \A d \in Chains \ {c} : call'[d] = call[d]
        /\ run' = run /\ due' = due /\ retry' = retry
    BY <1>3 DEF ListDueTasks, IInv, TypeOK
  <2>2. run[c] = NoRun
    BY <1>3 DEF ListDueTasks, IInv, OneTick
  <2>3. run[c].task \notin DueTasks
    BY <1>c, <2>2, TasksNamed DEF DueTasks
  <2>4. \A t \in DueTasks : t \in due \/ retry[t] = "reached"
    BY DEF DueTasks
  <2>5. QED
    BY <2>1, <2>3, <2>4
<1>4. ASSUME NEW c \in Chains, ExecuteNext(c)
      PROVE  ListedIsDue'
  <2>1. PICK t \in call[c].todo : /\ Execute(c, t)
                                 /\ call' = [call EXCEPT ![c].todo = @ \ {t}]
    BY <1>4 DEF ExecuteNext
  <2>2. /\ call'[c].todo = call[c].todo \ {t}
        /\ \A d \in Chains \ {c} : call'[d] = call[d]
    BY <2>1 DEF IInv, TypeOK, TickCalls
  <2>3. /\ run'[c].task = t
        /\ \A f \in Executors \ {c} : run'[f] = run[f]
        /\ due' = due /\ retry' = retry
    BY <1>c, <2>1 DEF Execute, IInv, TypeOK
  <2>4. QED
    BY <1>c, <2>2, <2>3
<1>5. ASSUME NEW c \in Chains, SkipNext(c) \/ TickEnds(c)
      PROVE  ListedIsDue'
  <2>1. /\ \A d \in Chains : call'[d].todo \subseteq call[d].todo
        /\ run' = run /\ due' = due /\ retry' = retry
    <3>1. call \in [Chains -> TickCalls]
      BY DEF IInv, TypeOK
    <3>2. CASE SkipNext(c)
      BY <3>1, <3>2 DEF SkipNext, TickCalls
    <3>3. CASE TickEnds(c)
      BY <1>c, <3>1, <3>3 DEF TickEnds
    <3>4. QED
      BY <1>5, <3>2, <3>3
  <2>2. QED
    BY <2>1
<1>6. ASSUME NEW e \in Executors, Succeeds(e) \/ Fails(e) \/ TimesOut(e)
      PROVE  ListedIsDue'
  BY <1>6, RunEndsListed DEF Fails, TimesOut
<1>7. ASSUME NEW e \in Executors, Release(e)
      PROVE  ListedIsDue'
  <2>1. /\ run'[e] = NoRun
        /\ \A f \in Executors \ {e} : run'[f] = run[f]
        /\ call' = call /\ due' = due /\ retry' = retry
    BY <1>7 DEF Release, IInv, TypeOK
  <2>2. \A c \in Chains : NoTask \notin call[c].todo
    BY <1>c, TasksNamed
  <2>3. QED
    BY <1>c, <2>1, <2>2
<1>8. ASSUME NEW t \in Tasks, ForceRun(t)
      PROVE  ListedIsDue'
  <2>1. /\ t \in Forced /\ run'["force"].task = t
        /\ \A c \in Chains : run'[c] = run[c]
        /\ call' = call /\ due' = due /\ retry' = retry
    BY <1>8, <1>c DEF ForceRun, Execute, IInv, TypeOK
  <2>2. QED
    BY <2>1
<1>9. CASE TimePasses
  <2>1. /\ \A e \in Executors : run'[e].task = run[e].task
        /\ run["force"] = NoRun => run'["force"] = NoRun
        /\ call' = call /\ due' = due
        /\ \A t \in Tasks : retry[t] = "reached" => retry'[t] = "reached"
    BY <1>9, <1>c DEF TimePasses, IInv, TypeOK, TaskRuns
  <2>2. QED
    BY <1>c, <2>1
<1>10. ASSUME NEW t \in Tasks, LateEnds(t) \/ CronInstant(t)
       PROVE  ListedIsDue'
  BY <1>10 DEF LateEnds, CronInstant
<1>11. CASE RunLoop \/ UNCHANGED vars
  BY <1>11 DEF RunLoop, AgentSleeps, AgentWakes, SleepEnds, AgentStarts, vars
<1>12. QED
  BY <1>1, <1>2, <1>3, <1>4, <1>5, <1>6, <1>7, <1>8, <1>9, <1>10, <1>11
     DEF Next, TickStep, RunEnds

\* Only ExecuteNext gives a tick a task.
LEMMA OnlyListedRun ==
  ASSUME IInv, ListedIsDue, [Next]_vars,
         NEW c \in Chains, NEW t \in Tasks,
         ~Holds(c, t), run'[c].task = t
  PROVE  t \in Forced \/ t \in due \/ retry[t] = "reached"
<1> USE DEF rows, calls, loop
<1>c. /\ "force" \in Executors /\ c # "force" /\ c \in Executors
      /\ NoRun.task = NoTask /\ t # NoTask
      /\ run[c].task # t
  BY TasksNamed DEF Executors, Chains, NoRun, Holds
<1>1. ASSUME run'[c].task = run[c].task \/ run'[c] = NoRun
      PROVE  FALSE
  BY <1>c, <1>1
<1>2. ASSUME NEW d \in Chains, ExecuteNext(d)
      PROVE  t \in Forced \/ t \in due \/ retry[t] = "reached"
  <2>1. PICK u \in call[d].todo : Execute(d, u)
    BY <1>2 DEF ExecuteNext
  <2>2. /\ run'[d].task = u
        /\ \A f \in Executors \ {d} : run'[f] = run[f]
    BY <2>1 DEF Execute, IInv, TypeOK, Executors
  <2>3. d = c /\ u = t
    BY <1>1, <1>c, <2>2
  <2>4. QED
    BY <2>3 DEF ListedIsDue
<1>3. ASSUME NEW u \in Tasks, ForceRun(u)
      PROVE  FALSE
  BY <1>1, <1>3, <1>c DEF ForceRun, Execute, IInv, TypeOK
<1>4. ASSUME NEW e \in Executors, RunEnds(e)
      PROVE  FALSE
  <2>1. run'[c].task = run[c].task \/ run'[c] = NoRun
    BY <1>4, <1>c DEF RunEnds, Succeeds, Fails, TimesOut, RecordFailure,
                      Release,
                      IInv, TypeOK, TaskRuns
  <2>2. QED
    BY <1>1, <2>1
<1>5. CASE Exit \/ TimePasses
  <2>1. run'[c].task = run[c].task \/ run'[c] = NoRun
    BY <1>5, <1>c DEF Exit, TimePasses, IInv, TypeOK, TaskRuns
  <2>2. QED
    BY <1>1, <2>1
<1>6. run' # run
  BY <1>1
<1>7. ASSUME NEW d \in Chains, TickStep(d)
      PROVE  ExecuteNext(d)
  BY <1>6, <1>7 DEF TickStep, ListDueTasks, SkipNext, TickEnds
<1>8. ~Start /\ ~TimerTick /\ ~RunLoop /\ ~UNCHANGED vars
  BY <1>6 DEF Start, TimerTick, RunLoop, AgentSleeps, AgentWakes, SleepEnds,
              AgentStarts, vars
<1>9. ASSUME NEW u \in Tasks, LateEnds(u) \/ CronInstant(u)
      PROVE  FALSE
  BY <1>6, <1>9 DEF LateEnds, CronInstant
<1>10. QED
  BY <1>2, <1>3, <1>4, <1>5, <1>7, <1>8, <1>9 DEF Next

\* A tick starts a task that nobody forces only while it is due, in spite of
\* two chains of ticks, restarts and failures that end between listing a task
\* and executing it.
THEOREM TicksRunWhatIsDue == Spec => RunsWhenDue
<1>1. Init => ListedIsDue
  BY DEF Init, ListedIsDue, NoCall, NoRun, Chains, Executors
<1>2. IInv /\ ListedIsDue /\ [Next]_vars => ListedIsDue'
  BY ListedStep
<1>3. IInv /\ ListedIsDue /\ [Next]_vars =>
        [\A c \in Chains, t \in Tasks :
           ~Holds(c, t) /\ run'[c].task = t =>
             t \in Forced \/ t \in due \/ retry[t] = "reached"]_vars
  BY OnlyListedRun
<1>4. QED
  BY <1>1, <1>2, <1>3, Inductive, PTL DEF Spec, RunsWhenDue

----------------------------------------------------------------------------
(* Wake events.                                                            *)

\* A wake event is consumed only where the agent goes from sleep into a new
\* start, or from the start into its first turn: neither the scheduler, whose
\* tasks ask for it, nor the end of runAgentLoop can lose one.
THEOREM WakesAreKept == Spec => WakeNotLost
<1>1. ASSUME Next, wake, ~wake'
      PROVE  AgentWakes \/ AgentStarts
  <2> USE DEF rows, calls, loop
  <2>1. wake' # wake
    BY <1>1
  <2>2. ASSUME NEW c \in Chains, TickStep(c)
        PROVE  wake' = wake
    BY <2>2 DEF TickStep, ListDueTasks, ExecuteNext, Execute, SkipNext,
                TickEnds
  <2>3. ASSUME NEW e \in Executors, RunEnds(e)
        PROVE  wake' = wake \/ wake'
    BY <2>3 DEF RunEnds, Succeeds, MayWake, Fails, TimesOut, RecordFailure,
                Release
  <2>4. ASSUME NEW t \in Tasks, ForceRun(t) \/ LateEnds(t) \/ CronInstant(t)
        PROVE  wake' = wake
    BY <2>4 DEF ForceRun, Execute, LateEnds, CronInstant
  <2>5. CASE Start \/ Exit \/ TimerTick \/ TimePasses
    BY <2>1, <2>5 DEF Start, Exit, TimerTick, TimePasses
  <2>6. CASE RunLoop
    BY <2>1, <2>6 DEF RunLoop, AgentSleeps, SleepEnds
  <2>7. QED
    BY <1>1, <2>1, <2>2, <2>3, <2>4, <2>5, <2>6 DEF Next
<1>2. [Next]_vars => [wake /\ ~wake' => agent # "awake" /\ agent' # "asleep"]_vars
  BY <1>1 DEF vars, AgentWakes, AgentStarts
<1>3. QED
  BY <1>2, PTL DEF Spec, WakeNotLost
=============================================================================
