---------------------------- MODULE NanobotCron -----------------------------
(***************************************************************************)
(* The scheduled jobs of a Nanobot (nanobot/cron/service.py), the agent's  *)
(* tool that edits them (agent/tools/cron.py) and the command line, which  *)
(* edits the file of jobs beside the running gateway (cli/commands.py).    *)
(*                                                                         *)
(* One asyncio task is the timer.  When its sleep is over the same task    *)
(* runs the due jobs, each as a turn of the agent.  Whoever edits the jobs *)
(* arms the timer anew, which cancels the timer task: also when that task  *)
(* is in the middle of a job, whose turn then ends with a CancelledError   *)
(* at its await, past the handler of _execute_job().  A turn that edits    *)
(* the jobs itself is cancelled at its next await; only one that has used  *)
(* up its iterations has none.                                             *)
(*                                                                         *)
(* A time is kept as its relation to the clock: none, later, or due.       *)
(* Left out: what a job says and to whom, names, zones, the errors kept    *)
(* for the list, "cron run", which runs a job in a process of its own, and *)
(* a kill in the middle of writing the file.                               *)
(*                                                                         *)
(* Definitions whose name ends in _Bug are variants with a bug a change of *)
(* the code could introduce; no action uses them.                          *)
(***************************************************************************)
EXTENDS Naturals, FiniteSets

CONSTANTS
  Ids,       \* jobs that may be added
  Every,     \* those that recur: kinds "every" and "cron"
  Deleted,   \* those of kind "at" with delete_after_run, as the tool adds them
  MaxEdits,  \* bound: edits by the tool and the command line
  MaxKills   \* bound: kills of the gateway

At == Ids \ Every

ASSUME DeletedAreOneShot == Every \subseteq Ids /\ Deleted \subseteq At
ASSUME BoundsNat == MaxEdits \in Nat /\ MaxKills \in Nat

VARIABLES
  jobs,       \* the store in the memory of the gateway
  file,       \* jobs.json
  passed,     \* jobs of kind "at" whose time is over
  timer,      \* _timer_task: none, armed, or ticking when it runs the jobs
  tick,       \* the call of _on_timer(): the due jobs not started, the one running
  up,         \* the gateway runs
  edits, kills,
  delivered,  \* ghost: results delivered since the job was last due
  starts      \* ghost: turns started for a one-shot job

memory == <<jobs, timer, tick>>
process == <<up, kills>>
ghosts == <<delivered, starts>>
cronVars == <<jobs, file, passed, timer, tick, up, edits, kills, delivered, starts>>

Absent == [st |-> "absent", next |-> "none"]   \* not added yet
Gone == [st |-> "gone", next |-> "none"]       \* removed; ids are not used again
NoJob == "none"
Idle == [pc |-> "idle", due |-> {}, job |-> NoJob]

ASSUME JobsNamed == NoJob \notin Ids

CronInit ==
  /\ jobs = [j \in Ids |-> Absent]
  /\ file = [j \in Ids |-> Absent]
  /\ passed = {}
  /\ timer = "none"
  /\ tick = Idle
  /\ up = TRUE
  /\ edits = 0
  /\ kills = 0
  /\ delivered = [j \in Ids |-> 0]
  /\ starts = [j \in Ids |-> 0]

(***************************************************************************)
(* Helpers of the service.                                                 *)
(***************************************************************************)
\* _compute_next_run: the next instant after now, if there is one.
NextRun(j) == IF j \in passed THEN "none" ELSE "later"

\* _get_next_wake_ms, _arm_timer: the task that sleeps until the earliest run.
Armed(store) ==
  IF \E j \in Ids : store[j].st = "on" /\ store[j].next # "none" THEN "armed" ELSE "none"

Due == {j \in Ids : jobs[j].st = "on" /\ jobs[j].next = "due"}

\* What _execute_job does with a job after its turn, failed or not; a job that
\* is in no list any more changes nothing.
AfterRun(store, j) ==
  IF store[j].st = "gone" THEN store
  ELSE [store EXCEPT ![j] = IF j \in Every THEN [@ EXCEPT !.next = NextRun(j)]
                            ELSE IF j \in Deleted THEN Gone
                            ELSE [st |-> "off", next |-> "none"]]

(***************************************************************************)
(* Edits.                                                                  *)
(***************************************************************************)
Fresh(j) == jobs[j] = Absent /\ file[j] = Absent
Added(store, j) == [store EXCEPT ![j] = [st |-> "on", next |-> NextRun(j)]]
Removed(store, j) == [store EXCEPT ![j] = Gone]

\* What the tool can make of the store: add_job and remove_job.
Edits(j) ==
  IF Fresh(j) THEN {Added(jobs, j)}
  ELSE IF jobs[j].st \in {"on", "off"} THEN {Removed(jobs, j)} ELSE {}

Store(store) == jobs' = store /\ file' = store

MayEdit == edits < MaxEdits /\ edits' = edits + 1

\* An edit from outside the timer task: a turn for a user or for the heartbeat.
\* It cancels the timer task, and with it the job the task runs.
ToolEdits_Bug(j) ==
  /\ up
  /\ MayEdit
  /\ \E store \in Edits(j) : Store(store) /\ timer' = IF timer = "ticking" THEN timer ELSE Armed(store)
  /\ UNCHANGED <<tick, passed, process, ghosts>>
ToolEdits(j) ==
  /\ up
  /\ MayEdit
  /\ \E store \in Edits(j) : Store(store) /\ timer' = Armed(store)
  /\ tick' = IF timer = "ticking" THEN Idle ELSE tick
  /\ UNCHANGED <<passed, process, ghosts>>

\* An edit by the turn of a job: it has cancelled itself and ends at its next await.
JobEdits(j) ==
  /\ tick.pc = "turn"
  /\ MayEdit
  /\ \E store \in Edits(j) : Store(store) /\ timer' = Armed(store)
  /\ tick' = Idle
  /\ UNCHANGED <<passed, process, ghosts>>

\* The same in the last iteration of the turn: it ends without an await, its
\* result is delivered, and the timer task goes on to the next job, whose turn
\* ends at its first await, or to its end.
JobEditsLast(j) ==
  /\ tick.pc = "turn"
  /\ MayEdit
  /\ \E store \in Edits(j) : LET after == AfterRun(store, tick.job) IN
       /\ jobs' = after
       /\ IF tick.due = {} THEN file' = after /\ timer' = Armed(after)
                           ELSE file' = store /\ timer' = Armed(store)
  /\ delivered' = [delivered EXCEPT ![tick.job] = @ + 1]
  /\ tick' = Idle
  /\ UNCHANGED <<passed, process, starts>>

\* The command line edits the file; the gateway does not read it again.
CliEdits(j) ==
  /\ MayEdit
  /\ \/ Fresh(j) /\ file' = Added(file, j)
     \/ file[j].st \in {"on", "off"} /\ file' = Removed(file, j)
     \/ file[j].st \in {"on", "off"} /\ file' = Added(file, j)
     \/ file[j].st \in {"on", "off"} /\ file' = [file EXCEPT ![j] = [st |-> "off", next |-> "none"]]
  /\ UNCHANGED <<memory, passed, process, ghosts>>

(***************************************************************************)
(* The clock and the timer task.                                           *)
(***************************************************************************)
Comes(store, j) == IF store[j].next = "later" THEN [store EXCEPT ![j].next = "due"] ELSE store

TimeComes(j) ==
  /\ j \in At => j \notin passed
  /\ j \in At \/ jobs[j].next = "later" \/ file[j].next = "later"
  /\ jobs' = Comes(jobs, j)
  /\ file' = Comes(file, j)
  /\ passed' = passed \cup ({j} \cap At)
  /\ delivered' = IF jobs[j].next = "later" THEN [delivered EXCEPT ![j] = 0] ELSE delivered
  /\ UNCHANGED <<timer, tick, process, edits, starts>>

\* The sleep and the times of the jobs use two clocks: there may be none due.
TimerFires ==
  /\ timer = "armed"
  /\ timer' = "ticking"
  /\ tick' = [pc |-> "list", due |-> Due, job |-> NoJob]
  /\ UNCHANGED <<jobs, file, passed, process, edits, ghosts>>

ExecuteJob ==
  /\ tick.pc = "list"
  /\ \E j \in tick.due :
       /\ tick' = [pc |-> "turn", due |-> tick.due \ {j}, job |-> j]
       /\ starts' = IF j \in At THEN [starts EXCEPT ![j] = @ + 1] ELSE starts
  /\ UNCHANGED <<jobs, file, passed, timer, process, edits, delivered>>

\* The turn has answered, or raised: then nothing is delivered.
JobEnds ==
  /\ tick.pc = "turn"
  /\ jobs' = AfterRun(jobs, tick.job)
  /\ tick' = [tick EXCEPT !.pc = "list", !.job = NoJob]
  /\ \/ delivered' = [delivered EXCEPT ![tick.job] = @ + 1]
     \/ UNCHANGED delivered
  /\ UNCHANGED <<file, passed, timer, process, edits, starts>>

\* The task arms the next one and is over.
TickEnds_Bug ==
  /\ tick = [Idle EXCEPT !.pc = "list"]
  /\ Store(jobs)
  /\ timer' = "none"
  /\ tick' = Idle
  /\ UNCHANGED <<passed, process, edits, ghosts>>
TickEnds ==
  /\ tick = [Idle EXCEPT !.pc = "list"]
  /\ Store(jobs)
  /\ timer' = Armed(jobs)
  /\ tick' = Idle
  /\ UNCHANGED <<passed, process, edits, ghosts>>

(***************************************************************************)
(* The gateway.                                                            *)
(***************************************************************************)
Kill ==
  /\ up
  /\ kills < MaxKills
  /\ up' = FALSE
  /\ kills' = kills + 1
  /\ jobs' = [j \in Ids |-> Absent]
  /\ timer' = "none"
  /\ tick' = Idle
  /\ UNCHANGED <<file, passed, edits, ghosts>>

\* start(): what has become due while the gateway was down is not made up for.
Recomputed_Bug(store) == store
Recomputed(store) ==
  [j \in Ids |-> IF store[j].st = "on" THEN [store[j] EXCEPT !.next = NextRun(j)] ELSE store[j]]

Start ==
  /\ ~up
  /\ up' = TRUE
  /\ Store(Recomputed(file))
  /\ timer' = Armed(Recomputed(file))
  /\ UNCHANGED <<tick, passed, kills, edits, ghosts>>

-----------------------------------------------------------------------------
CronNext ==
  \/ \E j \in Ids : ToolEdits(j) \/ JobEdits(j) \/ JobEditsLast(j) \/ CliEdits(j) \/ TimeComes(j)
  \/ TimerFires
  \/ ExecuteJob
  \/ JobEnds
  \/ TickEnds
  \/ Kill
  \/ Start

\* Sleeps end, and so do turns, whose iterations and calls are limited.
CronFairness ==
  /\ WF_cronVars(TimerFires)
  /\ WF_cronVars(ExecuteJob)
  /\ WF_cronVars(JobEnds)
  /\ WF_cronVars(TickEnds)

CronSpec == CronInit /\ [][CronNext]_cronVars /\ CronFairness

-----------------------------------------------------------------------------
\* Once remove_job() has returned, the job is not run any more, even if the
\* timer task had it in its list or was in the middle of its turn: an edit by
\* another task cancels that list, and a job cannot outlive its own edit.
RemovedStaysSilent ==
  \A j \in tick.due \cup ({tick.job} \ {NoJob}) : jobs[j].st = "on"

\* However often a job is cancelled and started again, by edits or by a kill of
\* the gateway after the result and before the file, it delivers one result for
\* each time it is due.
DeliveredOncePerInstant == \A j \in Ids : delivered[j] <= 1

\* The timer cannot be lost between the tasks that cancel it: unless the jobs are
\* edited for ever, one that is due is run, removed or disabled.
DueJobRuns == \A j \in Ids : jobs[j].next = "due" ~> jobs[j].next # "due"

\* "One-time - runs once at a specific time, then auto-deletes" (skills/cron/SKILL.md).
OneShotRunsOnce == \A j \in At : starts[j] <= 1
=============================================================================
