---------------------------- MODULE NanobotProofs ----------------------------
(***************************************************************************)
(* Proofs about NanobotCron and NanobotSession, for any jobs, any window   *)
(* and any number of edits, kills and messages: the timer task of the      *)
(* scheduled jobs, and the place up to which a session is archived.        *)
(***************************************************************************)
EXTENDS NanobotCron, NanobotSession, TLAPS

----------------------------------------------------------------------------
(* The scheduled jobs.                                                     *)

\* Only a job that is enabled has a next run.
JobRows ==
  {Absent, Gone, [st |-> "off", next |-> "none"]}
    \cup [st : {"on"}, next : {"none", "later", "due"}]
Ticks == [pc : {"idle", "list", "turn"}, due : SUBSET Ids, job : Ids \cup {NoJob}]

CronTypeOK ==
  /\ jobs \in [Ids -> JobRows]
  /\ file \in [Ids -> JobRows]
  /\ passed \subseteq At
  /\ timer \in {"none", "armed", "ticking"}
  /\ tick \in Ticks
  /\ up \in BOOLEAN
  /\ delivered \in [Ids -> 0..1]
  /\ starts \in [Ids -> Nat]

\* The timer task that runs jobs is the one that _timer_task names, and a gateway
\* that is down has none.
OneTimer ==
  /\ tick.pc # "idle" => timer = "ticking"
  /\ tick.pc = "idle" => tick = Idle
  /\ tick.pc = "turn" <=> tick.job # NoJob
  /\ tick.job \notin tick.due
  /\ ~up => timer = "none"

\* The jobs of the task are due still: whoever changes one ends the task.
Taken == tick.due \cup ({tick.job} \ {NoJob})
TakenAreDue == \A j \in Taken : jobs[j] = [st |-> "on", next |-> "due"]

\* A job that is due has not delivered since it became so.
DueNotDelivered == \A j \in Ids : jobs[j].next = "due" => delivered[j] = 0

CronIInv == CronTypeOK /\ OneTimer /\ TakenAreDue /\ DueNotDelivered

\* What the service makes of a store is a store: the next run is never at once, a
\* new job is enabled.
LEMMA StoreOps ==
  ASSUME NEW store0 \in [Ids -> JobRows], NEW j \in Ids
  PROVE  /\ NextRun(j) \in {"none", "later"}
         /\ Armed(store0) \in {"none", "armed"}
         /\ Added(store0, j) \in [Ids -> JobRows]
         /\ Removed(store0, j) \in [Ids -> JobRows]
<1>1. NextRun(j) \in {"none", "later"} /\ Armed(store0) \in {"none", "armed"}
  BY DEF NextRun, Armed
<1>2. [st |-> "on", next |-> NextRun(j)] \in JobRows /\ Gone \in JobRows
  BY <1>1 DEF JobRows
<1>3. QED
  BY <1>1, <1>2 DEF Added, Removed

\* The run of a job that is enabled, or has been removed meanwhile, leaves it with
\* no run that is due, and the other jobs as they were.
LEMMA RunOps ==
  ASSUME NEW store0 \in [Ids -> JobRows], NEW j \in Ids,
         store0[j].st \in {"on", "gone"}
  PROVE  /\ AfterRun(store0, j) \in [Ids -> JobRows]
         /\ \A k \in Ids : AfterRun(store0, j)[k].next = "due" =>
              k # j /\ store0[k].next = "due"
         /\ \A k \in Ids \ {j} : AfterRun(store0, j)[k] = store0[k]
<1>1. NextRun(j) \in {"none", "later"}
  BY StoreOps
<1>2. /\ [st |-> "on", next |-> NextRun(j)] \in JobRows
      /\ Gone \in JobRows
      /\ [st |-> "off", next |-> "none"] \in JobRows
  BY <1>1 DEF JobRows
<1>4. CASE store0[j].st = "gone"
  <2>1. store0[j].next # "due"
    BY <1>4 DEF JobRows, Absent, Gone
  <2>2. QED
    BY <1>4, <2>1 DEF AfterRun
<1>5. CASE store0[j].st # "gone"
  <2>1. PICK r : /\ AfterRun(store0, j) = [store0 EXCEPT ![j] = r]
                 /\ r = IF j \in Every THEN [store0[j] EXCEPT !.next = NextRun(j)]
                        ELSE IF j \in Deleted THEN Gone
                        ELSE [st |-> "off", next |-> "none"]
    BY <1>5 DEF AfterRun
  <2>2. r \in JobRows /\ r.next # "due"
    <3>1. CASE j \in Every
      <4>1. store0[j].st = "on" /\ store0[j] \in [st : {"on"}, next : {"none", "later", "due"}]
        BY <1>5 DEF JobRows, Absent, Gone
      <4>2. r = [st |-> "on", next |-> NextRun(j)]
        BY <2>1, <3>1, <4>1
      <4>3. QED
        BY <1>1, <1>2, <4>2
    <3>2. CASE j \notin Every
      BY <1>2, <2>1, <3>2 DEF Gone
    <3>3. QED
      BY <3>1, <3>2
  <2>3. QED
    BY <2>1, <2>2
<1>6. QED
  BY <1>4, <1>5

\* An edit adds a job with a run to come or removes one: none becomes due by it.
LEMMA EditsKeep ==
  ASSUME CronTypeOK, NEW j \in Ids, NEW edited \in Edits(j)
  PROVE  /\ edited \in [Ids -> JobRows]
         /\ \A k \in Ids : edited[k].next = "due" => jobs[k].next = "due"
         /\ \A k \in Ids : jobs[k].st = "on" => edited[k].st \in {"on", "gone"}
<1>1. CASE Fresh(j)
  <2>1. edited = Added(jobs, j) /\ jobs[j] = Absent
    BY <1>1 DEF Edits, Fresh
  <2>2. edited \in [Ids -> JobRows] /\ NextRun(j) # "due"
    BY <2>1, StoreOps DEF CronTypeOK
  <2>3. QED
    BY <2>1, <2>2 DEF Added, CronTypeOK
<1>2. CASE ~Fresh(j)
  <2>1. edited = Removed(jobs, j)
    BY <1>2 DEF Edits
  <2>2. edited \in [Ids -> JobRows]
    BY <2>1, StoreOps DEF CronTypeOK
  <2>3. QED
    BY <2>1, <2>2 DEF Removed, Gone, CronTypeOK
<1>3. QED
  BY <1>1, <1>2

\* An edit ends the timer task that runs jobs, whoever makes it; in the last
\* iteration of a turn the result is delivered before.
LEMMA EditStep ==
  ASSUME CronIInv, NEW j \in Ids,
         ToolEdits(j) \/ JobEdits(j) \/ JobEditsLast(j) \/ CliEdits(j)
  PROVE  CronIInv'
<1> USE DEF CronIInv, memory, process, ghosts
<1>i. Idle \in Ticks /\ Idle.due = {} /\ Idle.job = NoJob /\ Idle.pc = "idle"
  BY DEF Idle, Ticks
<1>1. CASE ToolEdits(j) \/ JobEdits(j)
  <2>1. PICK edited \in Edits(j) :
          jobs' = edited /\ file' = edited /\ timer' = Armed(edited)
    BY <1>1 DEF ToolEdits, JobEdits, Store
  <2>2. UNCHANGED <<passed, up, delivered, starts>>
    BY <1>1 DEF ToolEdits, JobEdits
  <2>3. tick' = Idle /\ up
    BY <1>1 DEF ToolEdits, JobEdits, OneTimer, CronTypeOK, Ticks
  <2>4. /\ edited \in [Ids -> JobRows]
        /\ \A k \in Ids : edited[k].next = "due" => jobs[k].next = "due"
    BY EditsKeep
  <2>5. timer' \in {"none", "armed"}
    BY <2>1, <2>4, StoreOps
  <2>6. CronTypeOK'
    BY <1>i, <2>1, <2>2, <2>3, <2>4, <2>5 DEF CronTypeOK
  <2>7. OneTimer'
    BY <1>i, <2>2, <2>3 DEF OneTimer, CronTypeOK
  <2>8. TakenAreDue' /\ DueNotDelivered'
    BY <1>i, <2>1, <2>2, <2>3, <2>4 DEF TakenAreDue, Taken, DueNotDelivered
  <2>9. QED
    BY <2>6, <2>7, <2>8
<1>2. CASE JobEditsLast(j)
  <2> DEFINE job == tick.job
  <2>1. PICK edited \in Edits(j) :
          /\ jobs' = AfterRun(edited, job)
          /\ file' = AfterRun(edited, job) \/ file' = edited
          /\ timer' = Armed(jobs') \/ timer' = Armed(edited)
    BY <1>2 DEF JobEditsLast
  <2>2. /\ UNCHANGED <<passed, up, starts>>
        /\ tick' = Idle
        /\ delivered' = [delivered EXCEPT ![job] = @ + 1]
        /\ tick.pc = "turn"
    BY <1>2 DEF JobEditsLast
  <2>3. job \in Ids /\ job \in Taken /\ up
    BY <2>2 DEF OneTimer, Taken, CronTypeOK, Ticks
  <2>4. delivered[job] = 0 /\ jobs[job].st = "on"
    BY <2>3 DEF TakenAreDue, DueNotDelivered
  <2>5. /\ edited \in [Ids -> JobRows]
        /\ \A k \in Ids : edited[k].next = "due" => jobs[k].next = "due"
        /\ edited[job].st \in {"on", "gone"}
    BY <2>3, <2>4, EditsKeep
  <2>6. /\ jobs' \in [Ids -> JobRows]
        /\ file' \in [Ids -> JobRows]
        /\ \A k \in Ids : jobs'[k].next = "due" => k # job /\ jobs[k].next = "due"
    BY <2>1, <2>3, <2>5, RunOps
  <2>7. timer' \in {"none", "armed"}
    BY <2>1, <2>5, <2>6 DEF Armed
  <2>8. /\ delivered' \in [Ids -> 0..1]
        /\ \A k \in Ids \ {job} : delivered'[k] = delivered[k]
    BY <2>2, <2>3, <2>4 DEF CronTypeOK
  <2>9. CronTypeOK'
    BY <1>i, <2>2, <2>6, <2>7, <2>8 DEF CronTypeOK
  <2>10. OneTimer'
    BY <1>i, <2>2, <2>3 DEF OneTimer, CronTypeOK
  <2>11. TakenAreDue' /\ DueNotDelivered'
    BY <1>i, <2>2, <2>6, <2>8 DEF TakenAreDue, Taken, DueNotDelivered
  <2>12. QED
    BY <2>9, <2>10, <2>11
<1>3. CASE CliEdits(j)
  <2>1. UNCHANGED <<jobs, timer, tick, passed, up, delivered, starts>>
    BY <1>3 DEF CliEdits
  <2>2. file' \in [Ids -> JobRows]
    <3>1. [st |-> "off", next |-> "none"] \in JobRows
      BY DEF JobRows
    <3>2. QED
      BY <1>3, <3>1, StoreOps DEF CliEdits, CronTypeOK
  <2>3. QED
    BY <2>1, <2>2 DEF CronTypeOK, OneTimer, TakenAreDue, Taken, DueNotDelivered
<1>4. QED
  BY <1>1, <1>2, <1>3

\* A job that becomes due has nothing delivered, and one that was due stays so.
LEMMA TimeStep ==
  ASSUME CronIInv, NEW j \in Ids, TimeComes(j)
  PROVE  CronIInv'
<1> USE DEF CronIInv, process
<1>1. /\ jobs' = Comes(jobs, j)
      /\ file' = Comes(file, j)
      /\ passed' = passed \cup ({j} \cap At)
      /\ UNCHANGED <<timer, tick, up, starts>>
  BY DEF TimeComes
<1>2. ASSUME NEW store0 \in [Ids -> JobRows]
      PROVE  /\ Comes(store0, j) \in [Ids -> JobRows]
             /\ store0[j].next # "later" => Comes(store0, j) = store0
             /\ \A k \in Ids \ {j} : Comes(store0, j)[k] = store0[k]
  <2>1. CASE store0[j].next = "later"
    <3>1. store0[j] \in [st : {"on"}, next : {"none", "later", "due"}]
      BY <2>1 DEF JobRows, Absent, Gone
    <3>2. [store0[j] EXCEPT !.next = "due"] \in JobRows
      BY <3>1 DEF JobRows
    <3>3. Comes(store0, j) = [store0 EXCEPT ![j] = [store0[j] EXCEPT !.next = "due"]]
      BY <2>1 DEF Comes
    <3>4. QED
      BY <2>1, <3>2, <3>3
  <2>2. QED
    BY <2>1 DEF Comes
<1>3. /\ jobs' \in [Ids -> JobRows] /\ file' \in [Ids -> JobRows]
      /\ jobs[j].next # "later" => jobs' = jobs
      /\ \A k \in Ids \ {j} : jobs'[k] = jobs[k]
  BY <1>1, <1>2 DEF CronTypeOK
<1>4. /\ delivered' \in [Ids -> 0..1]
      /\ \A k \in Ids \ {j} : delivered'[k] = delivered[k]
      /\ jobs[j].next = "later" => delivered'[j] = 0
      /\ jobs[j].next # "later" => delivered' = delivered
  BY DEF TimeComes, CronTypeOK
<1>5. CronTypeOK'
  BY <1>1, <1>3, <1>4 DEF CronTypeOK
<1>6. OneTimer'
  BY <1>1 DEF OneTimer
<1>7. TakenAreDue'
  BY <1>1, <1>3 DEF TakenAreDue, Taken, CronTypeOK, Ticks
<1>8. DueNotDelivered'
  BY <1>3, <1>4 DEF DueNotDelivered
<1>9. QED
  BY <1>5, <1>6, <1>7, <1>8

\* The timer task takes jobs that are due, and leaves each it has run without a
\* run that is due.
LEMMA TickStep ==
  ASSUME CronIInv, TimerFires \/ ExecuteJob \/ JobEnds \/ TickEnds
  PROVE  CronIInv'
<1> USE DEF CronIInv, process, ghosts
<1>i. Idle \in Ticks /\ Idle.due = {} /\ Idle.job = NoJob /\ Idle.pc = "idle"
  BY DEF Idle, Ticks
<1>1. CASE TimerFires
  <2>1. /\ timer = "armed" /\ timer' = "ticking"
        /\ tick' = [pc |-> "list", due |-> Due, job |-> NoJob]
        /\ UNCHANGED <<jobs, file, passed, up, delivered, starts>>
    BY <1>1 DEF TimerFires
  <2>2. Due \subseteq Ids /\ \A j \in Due : jobs[j] = [st |-> "on", next |-> "due"]
    BY DEF Due, CronTypeOK, JobRows, Absent, Gone
  <2>3. CronTypeOK'
    BY <2>1, <2>2 DEF CronTypeOK, Ticks
  <2>4. OneTimer'
    BY <2>1, <2>2, JobsNamed DEF OneTimer
  <2>5. TakenAreDue' /\ DueNotDelivered'
    BY <2>1, <2>2 DEF TakenAreDue, Taken, DueNotDelivered
  <2>6. QED
    BY <2>3, <2>4, <2>5
<1>2. CASE ExecuteJob
  <2>1. PICK j \in tick.due :
          /\ tick' = [pc |-> "turn", due |-> tick.due \ {j}, job |-> j]
          /\ starts' = IF j \in At THEN [starts EXCEPT ![j] = @ + 1] ELSE starts
    BY <1>2 DEF ExecuteJob
  <2>2. /\ UNCHANGED <<jobs, file, passed, timer, up, delivered>>
        /\ tick.pc = "list" /\ j \in Ids
    BY <1>2 DEF ExecuteJob, CronTypeOK, Ticks
  <2>3. starts' \in [Ids -> Nat]
    BY <2>1, <2>2 DEF CronTypeOK
  <2>4. CronTypeOK'
    BY <2>1, <2>2, <2>3 DEF CronTypeOK, Ticks
  <2>5. OneTimer'
    BY <2>1, <2>2, JobsNamed DEF OneTimer
  <2>6. TakenAreDue' /\ DueNotDelivered'
    BY <2>1, <2>2 DEF TakenAreDue, Taken, DueNotDelivered
  <2>7. QED
    BY <2>4, <2>5, <2>6
<1>3. CASE JobEnds
  <2> DEFINE job == tick.job
  <2>1. /\ tick.pc = "turn"
        /\ jobs' = AfterRun(jobs, job)
        /\ tick' = [pc |-> "list", due |-> tick.due, job |-> NoJob]
        /\ UNCHANGED <<file, passed, timer, up, starts>>
        /\ delivered' = [delivered EXCEPT ![job] = @ + 1] \/ delivered' = delivered
    BY <1>3 DEF JobEnds, CronTypeOK, Ticks
  <2>2. job \in Ids /\ job \in Taken /\ job \notin tick.due
    BY <2>1 DEF OneTimer, Taken, CronTypeOK, Ticks
  <2>3. delivered[job] = 0 /\ jobs[job].st = "on"
    BY <2>2 DEF TakenAreDue, DueNotDelivered
  <2>4. /\ jobs' \in [Ids -> JobRows]
        /\ \A k \in Ids : jobs'[k].next = "due" => k # job /\ jobs[k].next = "due"
        /\ \A k \in Ids \ {job} : jobs'[k] = jobs[k]
    BY <2>1, <2>2, <2>3, RunOps DEF CronTypeOK
  <2>5. /\ delivered' \in [Ids -> 0..1]
        /\ \A k \in Ids \ {job} : delivered'[k] = delivered[k]
    BY <2>1, <2>2, <2>3 DEF CronTypeOK
  <2>6. CronTypeOK'
    BY <2>1, <2>4, <2>5 DEF CronTypeOK, Ticks
  <2>7. OneTimer'
    BY <2>1, JobsNamed DEF OneTimer, CronTypeOK, Ticks
  <2>8. TakenAreDue'
    BY <2>1, <2>2, <2>4 DEF TakenAreDue, Taken, CronTypeOK, Ticks
  <2>9. DueNotDelivered'
    BY <2>4, <2>5 DEF DueNotDelivered
  <2>10. QED
    BY <2>6, <2>7, <2>8, <2>9
<1>4. CASE TickEnds
  <2>1. /\ jobs' = jobs /\ file' = jobs
        /\ timer' = Armed(jobs)
        /\ tick' = Idle
        /\ UNCHANGED <<passed, up, delivered, starts>>
        /\ tick.pc # "idle"
    BY <1>4 DEF TickEnds, Store, Idle
  <2>2. timer' \in {"none", "armed"} /\ up
    BY <2>1 DEF Armed, OneTimer, CronTypeOK
  <2>3. CronTypeOK'
    BY <1>i, <2>1, <2>2 DEF CronTypeOK
  <2>4. OneTimer'
    BY <1>i, <2>1, <2>2 DEF OneTimer
  <2>5. TakenAreDue' /\ DueNotDelivered'
    BY <1>i, <2>1 DEF TakenAreDue, Taken, DueNotDelivered
  <2>6. QED
    BY <2>3, <2>4, <2>5
<1>5. QED
  BY <1>1, <1>2, <1>3, <1>4

\* After a kill and a start no job is due: what became due meanwhile is dropped.
LEMMA GatewayStep ==
  ASSUME CronIInv, Kill \/ Start
  PROVE  CronIInv'
<1> USE DEF CronIInv, ghosts
<1>i. Idle \in Ticks /\ Idle.due = {} /\ Idle.job = NoJob /\ Idle.pc = "idle"
  BY DEF Idle, Ticks
<1>1. /\ tick' = Idle
      /\ UNCHANGED <<passed, delivered, starts>>
      /\ up' = TRUE \/ up' = FALSE
      /\ ~up' => timer' = "none"
  BY DEF Kill, Start, OneTimer, CronTypeOK, Ticks
<1>u. up' \in BOOLEAN
  BY <1>1, Zenon
<1>2. /\ jobs' \in [Ids -> JobRows]
      /\ file' \in [Ids -> JobRows]
      /\ \A k \in Ids : jobs'[k].next # "due"
      /\ timer' \in {"none", "armed"}
  <2>1. CASE Kill
    BY <2>1 DEF Kill, CronTypeOK, JobRows, Absent
  <2>2. CASE Start
    <3>1. /\ jobs' = Recomputed(file) /\ file' = Recomputed(file)
          /\ timer' = Armed(Recomputed(file))
      BY <2>2 DEF Start, Store
    <3>2. ASSUME NEW k \in Ids
          PROVE  /\ Recomputed(file)[k] \in JobRows
                 /\ Recomputed(file)[k].next # "due"
      <4>1. file[k] \in JobRows /\ NextRun(k) \in {"none", "later"}
        BY DEF CronTypeOK, NextRun
      <4>2. CASE file[k].st = "on"
        <5>1. file[k] \in [st : {"on"}, next : {"none", "later", "due"}]
          BY <4>1, <4>2 DEF JobRows, Absent, Gone
        <5>2. Recomputed(file)[k] = [st |-> "on", next |-> NextRun(k)]
          BY <4>2, <5>1 DEF Recomputed
        <5>3. QED
          BY <4>1, <5>2 DEF JobRows
      <4>3. CASE file[k].st # "on"
        <5>1. Recomputed(file)[k] = file[k]
          BY <4>3 DEF Recomputed
        <5>2. QED
          BY <4>1, <4>3, <5>1 DEF JobRows, Absent, Gone
      <4>4. QED
        BY <4>2, <4>3
    <3>3. Recomputed(file) \in [Ids -> JobRows]
      BY <3>2 DEF Recomputed
    <3>4. QED
      BY <3>1, <3>2, <3>3 DEF Armed
  <2>3. QED
    BY <2>1, <2>2
<1>3. CronTypeOK'
  BY <1>i, <1>1, <1>u, <1>2 DEF CronTypeOK
<1>4. OneTimer'
  BY <1>i, <1>1 DEF OneTimer
<1>5. TakenAreDue' /\ DueNotDelivered'
  BY <1>i, <1>1, <1>2 DEF TakenAreDue, Taken, DueNotDelivered
<1>6. QED
  BY <1>3, <1>4, <1>5

\* The invariant of the jobs holds always.
THEOREM CronInvariant == CronSpec => []CronIInv
<1>1. CronInit => CronIInv
  <2> SUFFICES ASSUME CronInit PROVE CronIInv
    OBVIOUS
  <2> USE DEF CronInit, Idle
  <2>1. up \in BOOLEAN
    BY Zenon
  <2>2. CronTypeOK
    BY <2>1 DEF CronTypeOK, JobRows, Ticks
  <2>3. OneTimer
    BY DEF OneTimer
  <2>4. TakenAreDue /\ DueNotDelivered
    BY DEF TakenAreDue, Taken, DueNotDelivered
  <2>5. QED
    BY <2>2, <2>3, <2>4 DEF CronIInv
<1>2. CronIInv /\ UNCHANGED cronVars => CronIInv'
  BY DEF CronIInv, CronTypeOK, OneTimer, TakenAreDue, Taken, DueNotDelivered, cronVars
<1>3. CronIInv /\ [CronNext]_cronVars => CronIInv'
  BY <1>2, EditStep, TimeStep, TickStep, GatewayStep DEF CronNext
<1>4. QED
  BY <1>1, <1>3, PTL DEF CronSpec

\* A job that has been removed is not run any more, by whichever task and in
\* whatever state of the timer it was removed.
THEOREM RemovedIsSilent == CronSpec => []RemovedStaysSilent
<1>1. CronIInv => RemovedStaysSilent
  BY DEF CronIInv, TakenAreDue, Taken, RemovedStaysSilent
<1>2. QED
  BY <1>1, CronInvariant, PTL

\* A job delivers one result for each time it is due, although it may be started
\* any number of times.
THEOREM OneResultPerInstant == CronSpec => []DeliveredOncePerInstant
<1>1. CronIInv => DeliveredOncePerInstant
  BY DEF CronIInv, CronTypeOK, DeliveredOncePerInstant
<1>2. QED
  BY <1>1, CronInvariant, PTL

----------------------------------------------------------------------------
(* A session.                                                              *)

Sessions == [messages : Nat, last : Int]
Calls == [pc : {"none", "chat", "wait", "archive", "model"}, from : Int, upto : Int]

SessionTypeOK ==
  /\ session \in Sessions
  /\ disk \in Sessions
  /\ turn \in Calls
  /\ background \in Calls
  /\ lock \in {"free", "background", "new"}
  /\ consolidating \in BOOLEAN
  /\ archived \subseteq Int
  /\ restarts \in Nat
  /\ repeated \in BOOLEAN

\* The lock is with the one who writes, and a background that runs is marked: the
\* command /new, which clears the mark, never runs beside one.
LockFits ==
  /\ lock = "background" <=> background.pc = "model"
  /\ lock = "new" <=> turn.pc = "archive"
  /\ background.pc = "model" => consolidating

\* Whoever writes begins behind last_consolidated, and the background ends before
\* the place to which it will move it.
PlaceFits ==
  /\ turn.pc = "archive" => turn.from = session.last + 1
  /\ background.pc = "model" =>
       /\ background.from = session.last + 1
       /\ background.upto <= session.messages - Keep
       /\ session.last <= session.messages - Keep

\* As long as nothing was killed, what is written lies before that place.
WrittenBehind ==
  restarts = 0 => ~repeated /\ \A i \in archived : i <= session.last

SessionIInv == SessionTypeOK /\ LockFits /\ PlaceFits /\ WrittenBehind

\* Half a window is a whole number, no more than the window.
LEMMA KeepNat == Keep \in Nat /\ Keep <= Window /\ Window \in Nat
BY WindowHasHalf DEF Keep

\* The step of a turn and of the command /new keep the invariant.
LEMMA TurnStep ==
  ASSUME SessionIInv,
         MessageArrives \/ SystemMessageArrives \/ TurnEnds
  PROVE  SessionIInv'
<1> USE KeepNat, SessionBounds
        DEF SessionIInv, SessionTypeOK, LockFits, PlaceFits, WrittenBehind,
            Sessions, Calls, Call, NoCall, store, locks, history
<1>1. CASE SystemMessageArrives
  BY <1>1 DEF SystemMessageArrives
<1>2. CASE TurnEnds /\ UNCHANGED store
  BY <1>2 DEF TurnEnds
<1>3. CASE TurnEnds /\ ~UNCHANGED store
  <2>1. PICK n \in 1..MaxTurn : session' = [session EXCEPT !.messages = @ + n] /\ disk' = session'
    BY <1>3 DEF TurnEnds
  <2>2. /\ session' \in Sessions /\ disk' \in Sessions
        /\ session'.last = session.last
        /\ session'.messages >= session.messages
    BY <2>1
  <2>3. /\ turn' = NoCall
        /\ turn.pc = "chat"
        /\ UNCHANGED <<background, lock, consolidating, archived, repeated, restarts>>
    BY <1>3 DEF TurnEnds
  <2>4. QED
    BY <2>2, <2>3
<1>4. CASE MessageArrives
  <2>1. /\ turn = NoCall
        /\ turn' = Call("chat", 0, 0)
        /\ UNCHANGED <<session, disk, archived, repeated, restarts>>
    BY <1>4 DEF MessageArrives
  <2>2. CASE Unconsolidated >= Window /\ ~consolidating
    <3>1. /\ background' = Call("model", session.last + 1, session.messages - Keep)
          /\ consolidating' = TRUE
          /\ lock' = "background"
      BY <1>4, <2>2 DEF MessageArrives
    <3>2. session.last <= session.messages - Keep
      BY <2>2 DEF Unconsolidated
    <3>3. QED
      BY <2>1, <3>1, <3>2
  <2>3. CASE ~(Unconsolidated >= Window /\ ~consolidating)
    <3>1. UNCHANGED <<background, lock, consolidating>>
      BY <1>4, <2>3 DEF MessageArrives
    <3>2. QED
      BY <2>1, <3>1
  <2>4. QED
    BY <2>2, <2>3
<1>5. QED
  BY <1>1, <1>2, <1>3, <1>4

\* So do the consolidation, the command /new, and a kill.
LEMMA WriterStep ==
  ASSUME SessionIInv,
         BackgroundEnds \/ NewArrives \/ NewHasLock \/ NewEnds \/ Restarted
  PROVE  SessionIInv'
<1> USE KeepNat
        DEF SessionIInv, SessionTypeOK, LockFits, PlaceFits, WrittenBehind,
            Sessions, Calls, Call, NoCall, store, history
<1>1. CASE BackgroundEnds
  <2>1. /\ background.pc = "model" /\ lock = "background"
        /\ background' = NoCall /\ lock' = "free" /\ consolidating' = FALSE
        /\ UNCHANGED <<disk, turn, restarts>>
        /\ turn.pc # "archive"
    BY <1>1 DEF BackgroundEnds
  <2>b. consolidating' \in BOOLEAN
    BY <2>1, Zenon
  <2>2. CASE UNCHANGED <<archived, repeated, session>>
    <3>1. SessionTypeOK'
      BY <2>1, <2>2, <2>b
    <3>2. LockFits' /\ PlaceFits' /\ WrittenBehind'
      BY <2>1, <2>2
    <3>3. QED
      BY <3>1, <3>2
  <2>3. CASE Write(background) /\ session' = [session EXCEPT !.last = session.messages - Keep]
    <3>1. /\ session' \in Sessions
          /\ session'.last = session.messages - Keep
          /\ session'.messages = session.messages
      BY <2>3
    <3>2. archived' \subseteq Int /\ repeated' \in BOOLEAN
      BY <2>3 DEF Write
    <3>3. ASSUME restarts = 0
          PROVE  ~repeated' /\ \A i \in archived' : i <= session'.last
      <4>1. /\ background.from = session.last + 1
            /\ background.upto <= session'.last
            /\ session.last <= session'.last
        BY <2>1, <3>1
      <4>2. \A i \in background.from .. background.upto : i \notin archived
        BY <3>3, <4>1
      <4>3. QED
        BY <2>3, <3>3, <3>1, <4>1, <4>2 DEF Write
    <3>4. SessionTypeOK'
      BY <2>1, <2>b, <3>1, <3>2
    <3>5. LockFits' /\ PlaceFits' /\ WrittenBehind'
      BY <2>1, <3>3
    <3>6. QED
      BY <3>4, <3>5
  <2>4. QED
    BY <1>1, <2>2, <2>3 DEF BackgroundEnds
<1>2. CASE NewArrives
  BY <1>2 DEF NewArrives
<1>3. CASE NewHasLock
  BY <1>3 DEF NewHasLock
<1>4. CASE NewEnds
  <2>1. /\ turn.pc = "archive" /\ lock = "new"
        /\ turn' = NoCall /\ lock' = "free" /\ consolidating' = FALSE
        /\ UNCHANGED <<background, restarts>>
        /\ background.pc # "model"
    BY <1>4 DEF NewEnds
  <2>b. consolidating' \in BOOLEAN
    BY <2>1, Zenon
  <2>2. CASE UNCHANGED <<session, disk, archived, repeated>>
    <3>1. SessionTypeOK'
      BY <2>1, <2>2, <2>b
    <3>2. LockFits' /\ PlaceFits' /\ WrittenBehind'
      BY <2>1, <2>2
    <3>3. QED
      BY <3>1, <3>2
  <2>3. CASE Cleared
    <3>1. restarts = 0 => \A i \in turn.from .. turn.upto : i \notin archived
      BY <2>1
    <3>r. repeated' \in BOOLEAN
      BY <2>3, Zenon DEF Cleared
    <3>2. SessionTypeOK'
      BY <2>1, <2>3, <2>b, <3>r DEF Cleared, Empty
    <3>3. LockFits' /\ PlaceFits' /\ WrittenBehind'
      BY <2>1, <2>3, <3>1 DEF Cleared, Empty
    <3>4. QED
      BY <3>2, <3>3
  <2>4. QED
    BY <1>4, <2>2, <2>3 DEF NewEnds
<1>5. CASE Restarted
  <2>0. consolidating' \in BOOLEAN
    BY <1>5, Zenon DEF Restarted
  <2>1. SessionTypeOK'
    BY <1>5, <2>0 DEF Restarted
  <2>2. LockFits' /\ PlaceFits' /\ WrittenBehind'
    BY <1>5 DEF Restarted
  <2>3. QED
    BY <2>1, <2>2
<1>6. QED
  BY <1>1, <1>2, <1>3, <1>4, <1>5

\* The invariant of a session holds always.
THEOREM SessionInvariant == SessionSpec => []SessionIInv
<1>1. SessionInit => SessionIInv
  <2> SUFFICES ASSUME SessionInit PROVE SessionIInv
    OBVIOUS
  <2> USE DEF SessionInit, Sessions, Calls, NoCall, Empty
  <2>0. consolidating \in BOOLEAN /\ repeated \in BOOLEAN
    BY Zenon
  <2>1. SessionTypeOK
    BY <2>0 DEF SessionTypeOK
  <2>2. LockFits /\ PlaceFits /\ WrittenBehind
    BY DEF LockFits, PlaceFits, WrittenBehind
  <2>3. QED
    BY <2>1, <2>2 DEF SessionIInv
<1>2. SessionIInv /\ UNCHANGED sessionVars => SessionIInv'
  BY DEF SessionIInv, SessionTypeOK, LockFits, PlaceFits, WrittenBehind,
         sessionVars
<1>3. SessionIInv /\ [SessionNext]_sessionVars => SessionIInv'
  BY <1>2, TurnStep, WriterStep DEF SessionNext
<1>4. QED
  BY <1>1, <1>3, PTL DEF SessionSpec

\* No message is written to HISTORY.md twice, by the background consolidation and
\* by /new, unless the process was killed between writing it and saving the place.
THEOREM WrittenOnce == SessionSpec => []ArchivedOnce
<1>1. SessionIInv => ArchivedOnce
  BY DEF SessionIInv, WrittenBehind, ArchivedOnce, SessionTypeOK
<1>2. QED
  BY <1>1, SessionInvariant, PTL
=============================================================================
