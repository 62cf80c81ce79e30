------------------------- MODULE HeartbeatScheduler -------------------------
(***************************************************************************)
(* The heartbeat: the daemon (automaton/src/heartbeat/daemon.ts), its      *)
(* DurableScheduler (scheduler.ts) over table heartbeat_schedule, and the  *)
(* main loop of the agent (index.ts), which wake events bring back.        *)
(*                                                                         *)
(* One process at a time, which may end anywhere and be started again.     *)
(* Within it run the tick that start() begins, the ticks of the timer, and *)
(* runs forced with forceRun().  Each is broken only where it waits: for   *)
(* the balances, and for the body of a task.                               *)
(*                                                                         *)
(* Time is counted in units of half a minute.  Timers that are due fire    *)
(* before time goes on, which is why a run is over before its lease is.    *)
(* Dates matter as well, because expired leases are found by comparing     *)
(* texts: a lease is seen to have expired when the UTC day of its expiry   *)
(* is past.                                                                *)
(*                                                                         *)
(* Left out: tier_minimum, which is dead in every row and always met;      *)
(* interval_ms, which is null; table heartbeat_entries, which the scheduler*)
(* does not read; failing statements of the database; and what the bodies  *)
(* of the tasks do.                                                        *)
(*                                                                         *)
(* Definitions whose name ends in _Bug are variants with a bug a change of *)
(* the code could introduce; no action uses them.                          *)
(***************************************************************************)
EXTENDS Integers

CONSTANTS
  Tasks,        \* rows of heartbeat_schedule, all of them enabled
  Configured,   \* those with an entry in heartbeat.yml; the others are rows
                \* that the migration to schema 4 took from heartbeat_entries
  Implemented,  \* those whose name the task map has a function for, as it need not
                \* have for entries a user adds or renames and for migrated rows
  MaxRetries,   \* column max_retries
  Timeout,      \* column timeout_ms, in units of time
  LeaseTtl,     \* LEASE_TTL_MS, in units of time
  Day,          \* the length of a day, in units of time
  Forced,       \* the tasks that forceRun() is called for
  NoTask

ASSUME TasksNamed ==
  /\ Configured \subseteq Tasks /\ Implemented \subseteq Tasks /\ Forced \subseteq Tasks
  /\ NoTask \notin Tasks
ASSUME RetriesNat == MaxRetries \in 0..10   \* getRecentFailures reads 10 rows
ASSUME TimesNat == Timeout \in Nat \ {0} /\ LeaseTtl \in Nat
ASSUME DayNat == Day \in Nat
ASSUME LeaseOutlivesRun == Timeout < LeaseTtl /\ LeaseTtl < Day

VARIABLES
  due,       \* tasks with an instant of their cron expression since last_run_at
  retry,     \* next_run_at: none, in the future or reached
  failures,  \* failures at the end of the history of a task, up to MaxRetries
  lease,     \* lease_owner and lease_expires_at
  up,        \* the process runs
  ticking,   \* tickInProgress
  call,      \* the call of tick() by start() and by the timer
  run,       \* the call of executeTask() by each tick and by forceRun()
  late,      \* tasks with a body that goes on although it has timed out
  wake,      \* wake_events has a row not consumed
  midnight,  \* time left of the current UTC day
  agent      \* the main loop: asleep, about to start the agent, or in it

rows == <<due, retry, failures, lease>>
calls == <<ticking, call, run>>
loop == <<wake, agent>>
vars == <<due, retry, failures, lease, up, ticking, call, run, late,
          midnight, wake, agent>>

Chains == {"first", "timer"}
Executors == Chains \union {"force"}

NoLease == [owner |-> "none", left |-> 0, day |-> "none"]
NoCall == [at |-> "idle", todo |-> {}]
NoRun == [at |-> "idle", task |-> NoTask, age |-> 0]

LeaseRows ==
  {NoLease} \union
  [owner : {"self", "gone"}, left : 0..LeaseTtl,
   day : {"tomorrow", "today", "past"}]
TickCalls == [at : {"idle", "context", "loop"}, todo : SUBSET Tasks]
TaskRuns == [at : {"idle", "racing", "recorded"},
             task : Tasks \union {NoTask}, age : 0..Timeout]

TypeOK ==
  /\ due \subseteq Tasks
  /\ retry \in [Tasks -> {"none", "future", "reached"}]
  /\ failures \in [Tasks -> 0..MaxRetries]
  /\ lease \in [Tasks -> LeaseRows]
  /\ up \in BOOLEAN
  /\ ticking \in BOOLEAN
  /\ call \in [Chains -> TickCalls]
  /\ run \in [Executors -> TaskRuns]
  /\ late \subseteq Tasks
  /\ midnight \in 1..Day
  /\ wake \in BOOLEAN
  /\ agent \in {"asleep", "starting", "awake"}

----------------------------------------------------------------------------
(* Leases.                                                                 *)

\* lease_expires_at < datetime('now'), as texts: "2026-01-02T.." comes after
\* "2026-01-02 .." of the same day, whatever the time of day.
Expired(l) == l.day = "past"

Cleared_Bug(l) == IF Expired(l) THEN [l EXCEPT !.owner = "none"] ELSE l
Cleared(l) == IF Expired(l) THEN NoLease ELSE l

CanAcquire_Bug(t) == lease[t].owner # "gone" \/ Expired(lease[t])
CanAcquire(t) == lease[t] = NoLease \/ Expired(lease[t])

NewLease == [owner |-> "self", left |-> LeaseTtl,
             day |-> IF LeaseTtl < midnight THEN "today" ELSE "tomorrow"]

----------------------------------------------------------------------------
(* The daemon starts and ends.                                             *)

Init ==
  /\ due \in SUBSET Tasks
  /\ retry = [t \in Tasks |-> "none"]
  /\ failures = [t \in Tasks |-> 0]
  /\ lease = [t \in Tasks |-> NoLease]
  /\ up = FALSE
  /\ ticking = FALSE
  /\ call = [c \in Chains |-> NoCall]
  /\ run = [e \in Executors |-> NoRun]
  /\ late = {}
  /\ midnight \in 1..Day
  /\ wake = FALSE
  /\ agent = "starting"

\* createHeartbeatDaemon writes every entry of the configuration over the row
\* of its task, with no last run: the task is then due if its expression has
\* an instant in the last 24 hours.
SeedRows ==
  /\ \E D \in SUBSET Configured : due' = (due \ Configured) \union D
  /\ retry' = [t \in Tasks |-> IF t \in Configured THEN "none" ELSE retry[t]]

\* The rows are seeded, and start() begins the first tick at once.
Start ==
  /\ ~up
  /\ up' = TRUE
  /\ SeedRows
  /\ lease' = [t \in Tasks |->
                 IF t \in Configured THEN NoLease ELSE Cleared(lease[t])]
  /\ ticking' = TRUE
  /\ call' = [call EXCEPT !["first"].at = "context"]
  /\ UNCHANGED <<failures, run, late, midnight, wake, agent>>

\* The process is killed, crashes or shuts down (shutdown() exits at once):
\* what it kept in memory is gone, its rows stay.
Exit ==
  /\ up
  /\ up' = FALSE
  /\ ticking' = FALSE
  /\ call' = [c \in Chains |-> NoCall]
  /\ run' = [e \in Executors |-> NoRun]
  /\ late' = {}
  /\ lease' = [t \in Tasks |->
       IF lease[t] = NoLease THEN NoLease ELSE [lease[t] EXCEPT !.owner = "gone"]]
  /\ agent' = "starting"
  /\ UNCHANGED <<due, retry, failures, midnight, wake>>

----------------------------------------------------------------------------
(* tick().                                                                 *)

TimerTick_Bug ==
  /\ up
  /\ call["timer"].at = "idle"
  /\ ticking' = TRUE
  /\ lease' = [t \in Tasks |-> Cleared(lease[t])]
  /\ call' = [call EXCEPT !["timer"].at = "context"]
  /\ UNCHANGED <<due, retry, failures, up, run, late, midnight, loop>>

\* The timer of scheduleTick calls tick(), which returns at once while the
\* first tick is in progress.  The timer is set again when its tick returns.
TimerTick ==
  /\ up
  /\ call["timer"].at = "idle"
  /\ ~ticking
  /\ ticking' = TRUE
  /\ lease' = [t \in Tasks |-> Cleared(lease[t])]
  /\ call' = [call EXCEPT !["timer"].at = "context"]
  /\ UNCHANGED <<due, retry, failures, up, run, late, midnight, loop>>

\* getDueTasks compares the expiry of another's lease as a date.
DueTasks ==
  {t \in Tasks : /\ t \in due \/ retry[t] = "reached"
                 /\ ~(lease[t].owner = "gone" /\ lease[t].left > 0)}

\* The balances have arrived, or failed to: the tick lists the due tasks.
ListDueTasks(c) ==
  /\ call[c].at = "context"
  /\ call' = [call EXCEPT ![c] = [at |-> "loop", todo |-> DueTasks]]
  /\ UNCHANGED <<rows, up, ticking, run, late, midnight, loop>>

\* executeTask acquires the lease and starts the body of the task.
Execute(e, t) ==
  /\ run[e] = NoRun
  /\ t \in Implemented
  /\ CanAcquire(t)
  /\ lease' = [lease EXCEPT ![t] = NewLease]
  /\ run' = [run EXCEPT ![e] = [at |-> "racing", task |-> t, age |-> 0]]
  /\ UNCHANGED <<due, retry, failures, up, ticking, late, midnight, loop>>

ExecuteNext(c) ==
  \E t \in call[c].todo :
    /\ Execute(c, t)
    /\ call' = [call EXCEPT ![c].todo = @ \ {t}]

\* executeTask returns at once when there is no function for the name, which
\* leaves the task due, or when somebody holds the lease.
SkipNext(c) ==
  \E t \in call[c].todo :
    /\ run[c] = NoRun
    /\ t \notin Implemented \/ ~CanAcquire(t)
    /\ call' = [call EXCEPT ![c].todo = @ \ {t}]
    /\ UNCHANGED <<rows, up, ticking, run, late, midnight, loop>>

TickEnds_Bug(c) ==
  /\ call[c] = [at |-> "loop", todo |-> {}]
  /\ run[c] = NoRun
  /\ call' = [call EXCEPT ![c] = NoCall]
  /\ UNCHANGED <<rows, up, ticking, run, late, midnight, loop>>

TickEnds(c) ==
  /\ call[c] = [at |-> "loop", todo |-> {}]
  /\ run[c] = NoRun
  /\ call' = [call EXCEPT ![c] = NoCall]
  /\ ticking' = FALSE
  /\ UNCHANGED <<rows, up, run, late, midnight, loop>>

\* forceRun(t), after it has built its own context.  Bound: one at a time.
ForceRun(t) ==
  /\ t \in Forced
  /\ up
  /\ Execute("force", t)
  /\ UNCHANGED call

----------------------------------------------------------------------------
(* How a run ends: the race between the body and its time-out is settled,  *)
(* the result recorded, and the lease released.                            *)

\* A task may ask to wake the agent: onWakeRequest inserts one row, and the
\* scheduler another.
MayWake == wake' \in {wake, TRUE}

\* recordSuccess.
Succeeds(e) ==
  LET t == run[e].task IN
  /\ run[e].at = "racing"
  /\ run' = [run EXCEPT ![e].at = "recorded"]
  /\ due' = due \ {t}
  /\ retry' = [retry EXCEPT ![t] = "none"]
  /\ failures' = [failures EXCEPT ![t] = 0]
  /\ MayWake
  /\ UNCHANGED <<lease, up, ticking, call, late, midnight, agent>>

\* getRecentFailures counts the failure just recorded, so one failure in a
\* row is already one of max_retries.
MayRetry(t) ==
  IF failures[t] + 1 < MaxRetries
    THEN /\ retry' = [retry EXCEPT ![t] = "future"]
         /\ failures' = [failures EXCEPT ![t] = @ + 1]
    ELSE /\ failures' = [failures EXCEPT ![t] = MaxRetries]
         /\ UNCHANGED retry

\* recordFailure, which leaves next_run_at as it is.
RecordFailure(e) ==
  LET t == run[e].task IN
  /\ run[e].at = "racing"
  /\ run' = [run EXCEPT ![e].at = "recorded"]
  /\ due' = due \ {t}
  /\ MayRetry(t)
  /\ UNCHANGED <<lease, up, ticking, call, midnight, loop>>

\* The body throws.
Fails(e) == RecordFailure(e) /\ UNCHANGED late

\* The time-out settles the race; nothing stops the body.
TimesOut(e) ==
  /\ run[e].age = Timeout
  /\ RecordFailure(e)
  /\ late' = late \union {run[e].task}

\* releaseTaskLease, in the finally block.
Release(e) ==
  LET t == run[e].task IN
  /\ run[e].at = "recorded"
  /\ run' = [run EXCEPT ![e] = NoRun]
  /\ lease' = [lease EXCEPT ![t] = IF @.owner = "self" THEN NoLease ELSE @]
  /\ UNCHANGED <<due, retry, failures, up, ticking, call, late, midnight,
                 loop>>

\* A body that had timed out ends; nobody looks at its result.
LateEnds(t) ==
  /\ t \in late
  /\ late' = late \ {t}
  /\ UNCHANGED <<rows, up, calls, midnight, loop>>

----------------------------------------------------------------------------
(* The agent.                                                              *)

AgentSleeps_Bug ==
  /\ up
  /\ agent = "awake"
  /\ agent' = "asleep"
  /\ wake' = FALSE
  /\ UNCHANGED <<rows, up, calls, late, midnight>>

\* runAgentLoop returns: the agent sleeps, or is dead and waits as well.
AgentSleeps ==
  /\ up
  /\ agent = "awake"
  /\ agent' = "asleep"
  /\ UNCHANGED <<rows, up, calls, late, midnight, wake>>

\* The check every 30 seconds consumes the oldest wake event.
AgentWakes ==
  /\ up
  /\ agent = "asleep"
  /\ wake
  /\ agent' = "starting"
  /\ wake' \in BOOLEAN
  /\ UNCHANGED <<rows, up, calls, late, midnight>>

\* The time of sleep is over.
SleepEnds ==
  /\ up
  /\ agent = "asleep"
  /\ agent' = "starting"
  /\ UNCHANGED <<rows, up, calls, late, midnight, wake>>

\* runAgentLoop consumes every wake event before its first turn.
AgentStarts ==
  /\ up
  /\ agent = "starting"
  /\ agent' = "awake"
  /\ wake' = FALSE
  /\ UNCHANGED <<rows, up, calls, late, midnight>>

----------------------------------------------------------------------------
(* Time.                                                                   *)

\* The next instant of the cron expression of t.
CronInstant(t) ==
  /\ t \notin due
  /\ due' = due \union {t}
  /\ UNCHANGED <<retry, failures, lease, up, calls, late, midnight, loop>>

\* What a lease becomes in half a minute, and at the end of a day.
Aged(l) == [l EXCEPT !.left = IF @ = 0 THEN 0 ELSE @ - 1]

DayLater(l) ==
  [l EXCEPT !.day = CASE @ = "tomorrow" -> "today"
                      [] @ = "today" -> "past"
                      [] OTHER -> @]

\* Half a minute.  No timer that is due waits for longer, nor does a step
\* that follows another without an await.
TimePasses ==
  /\ \A e \in Executors :
       run[e] = NoRun \/ (run[e].at = "racing" /\ run[e].age < Timeout)
  /\ midnight' = IF midnight = 1 THEN Day ELSE midnight - 1
  /\ run' = [e \in Executors |->
       IF run[e] = NoRun THEN NoRun ELSE [run[e] EXCEPT !.age = @ + 1]]
  /\ lease' = [t \in Tasks |->
       IF midnight = 1 THEN DayLater(Aged(lease[t])) ELSE Aged(lease[t])]
  /\ retry' = [t \in Tasks |->
       IF retry[t] = "future" THEN "reached" ELSE retry[t]]
  /\ UNCHANGED <<due, failures, up, ticking, call, late, loop>>

----------------------------------------------------------------------------

TickStep(c) == ListDueTasks(c) \/ ExecuteNext(c) \/ SkipNext(c) \/ TickEnds(c)

RunEnds(e) == Succeeds(e) \/ Fails(e) \/ TimesOut(e) \/ Release(e)

RunLoop == AgentSleeps \/ AgentWakes \/ SleepEnds \/ AgentStarts

Next ==
  \/ Start \/ Exit \/ TimerTick
  \/ \E c \in Chains : TickStep(c)
  \/ \E e \in Executors : RunEnds(e)
  \/ \E t \in Tasks :
       ForceRun(t) \/ LateEnds(t) \/ CronInstant(t)
  \/ RunLoop
  \/ TimePasses

\* Timers fire and the calls of a tick return, and time goes by, however
\* often steps that take no time keep it waiting.  A body need not end, the
\* agent need not sleep, an instant need not come.
Fairness ==
  /\ WF_vars(TimerTick)
  /\ \A c \in Chains : WF_vars(TickStep(c))
  /\ \A e \in Executors : WF_vars(TimesOut(e)) /\ WF_vars(Release(e))
  /\ SF_vars(TimePasses)

Spec == Init /\ [][Next]_vars
FairSpec == Spec /\ Fairness

----------------------------------------------------------------------------
(* What must hold.                                                         *)

\* e is executing t and has not released its lease yet.
Holds(e, t) == run[e].task = t

\* A task is run by one executor at a time, and its row is leased while it
\* runs and no longer, except by a process that is gone: executeTask, its
\* finally block and the text comparison of the lease helpers together.
LeaseMatchesRun ==
  \A t \in Tasks :
    /\ \A e, f \in Executors : Holds(e, t) /\ Holds(f, t) => e = f
    /\ lease[t].owner = "self" <=> \E e \in Executors : Holds(e, t)

\* A tick runs a task that nobody forces only while it is due: two ticks
\* never list the same instant, though the first tick and those of the timer
\* are unrelated (tickInProgress), and a run that began before a restart
\* counts as not run.
RunsWhenDue ==
  [][\A c \in Chains, t \in Tasks :
       ~Holds(c, t) /\ run'[c].task = t =>
         t \in Forced \/ t \in due \/ retry[t] = "reached"]_vars

\* A wake event is consumed only on the way from sleep into a new start of
\* the agent: one that comes while the agent is about to sleep is kept.
WakeNotLost == [][wake /\ ~wake' => agent # "awake" /\ agent' # "asleep"]_vars

\* While the process is up a due task that has a function is run, whatever
\* bodies hang or fail, though rows without a function stay due beside it, and
\* even if a process that is gone left a lease on it.
DueTaskRuns ==
  \A t \in Implemented :
    (up /\ t \in due) ~> (~up \/ \E e \in Executors : Holds(e, t))
============================================================================
