---------------------------- MODULE Interventions ---------------------------
(***************************************************************************)
(* Decisions the freelance side leaves to a human (freelance/): the rows   *)
(* of manual_interventions, ManualInterventionService with the promises of *)
(* those who wait for an answer, and InterventionTimeoutHandler, which     *)
(* takes the default action when the deadline has passed.  The reports of  *)
(* a Nanobot (error-handler.ts, progress-handler.ts) ask as well.          *)
(*                                                                         *)
(* A human, the timers of the waiting and the periodic check race for a    *)
(* row.  Each call of handleTimeout() awaits an import, looks at the row,  *)
(* takes the action and, after another await, writes the row without       *)
(* looking again.  Calls that one import releases do so in between each    *)
(* other; nothing else does, since what they await there is only each      *)
(* other's promises and no timer or request.  A kill may hit anywhere.     *)
(*                                                                         *)
(* The project a report names is not checked and may have no row; then the *)
(* actions that cancel it throw, and the row stays pending.                *)
(*                                                                         *)
(* Left out: messages and analytics other than the time-out itself, and    *)
(* requests that name no project, for which the action writes nothing.     *)
(***************************************************************************)
EXTENDS Integers, FiniteSets

CONSTANTS
  Ids,        \* interventions that may be asked for
  Projects,   \* projects that have a row
  Unknown,    \* project ids a report may name that have none
  Types,      \* bound: the types asked for
  Waiters,    \* calls of awaitResponse(), with a timer each
  Sweeps,     \* calls of checkTimeouts() that may run at a time
  NoWaiter,
  MaxDowns    \* bound: kills and stops of the service

AllTypes == {"contract_sign", "large_spend", "project_start", "refund", "dispute_l2",
             "dispute_l3", "quality_review", "customer_complaint"}

ASSUME TypesKnown == Types \subseteq AllTypes
ASSUME NoWaiterIsNone == NoWaiter \notin Waiters
ASSUME SweepsAreNoWaiters == Sweeps \cap Waiters = {}
ASSUME UnknownHaveNoRow == Unknown \cap Projects = {}
ASSUME MaxDownsNat == MaxDowns \in Nat

VARIABLES
  row,      \* manual_interventions
  overdue,  \* rows whose sla_deadline has passed
  project,  \* projects.status
  entry,    \* pendingRequests: whom an answer is given to
  waiter,   \* the promise of each awaitResponse()
  todo,     \* rows a checkTimeouts() has found overdue and not handled yet
  call,     \* the call of handleTimeout() a timer or a checkTimeouts() has made
  up,       \* the service is not stopped
  downs,    \* kills and stops so far
  answered, \* ghost: rows that were pending when an answer came
  timedOut  \* ghost: rows a time-out has been recorded in

interventionVars ==
  <<row, overdue, project, entry, waiter, todo, call, up, downs,
    answered, timedOut>>
tables == <<row, overdue, project>>
promises == <<entry, waiter>>
timeouts == <<todo, call>>
process == <<up, downs>>
ghosts == <<answered, timedOut>>

NoRow == [status |-> "none", type |-> "none", project |-> "none"]
Free == [pc |-> "idle", on |-> "none", own |-> FALSE]
Done == [Free EXCEPT !.pc = "done"]

NoCall == [pc |-> "idle", on |-> "none"]

Timers == Waiters \cup Sweeps

Pending(i) == row[i].status = "pending"

\* No call has a promise of an action to come back to: timers, requests and the
\* end of the service have their turn only then.
Quiet == \A c \in Timers : call[c].pc # "acting"

InterventionInit ==
  /\ row = [i \in Ids |-> NoRow]
  /\ overdue = {}
  /\ project = [p \in Projects |-> "active"]
  /\ entry = [i \in Ids |-> NoWaiter]
  /\ waiter = [w \in Waiters |-> Free]
  /\ todo = [s \in Sweeps |-> {}]
  /\ call = [c \in Timers |-> NoCall]
  /\ up = TRUE
  /\ downs = 0
  /\ answered = {}
  /\ timedOut = {}

(***************************************************************************)
(* Asking.  A report names a type the handler has chosen from its text; a  *)
(* report sent again asks again.                                           *)
(***************************************************************************)
Insert(i, type, p) ==
  /\ Quiet
  /\ row[i] = NoRow
  /\ row' = [row EXCEPT ![i] = [status |-> "pending", type |-> type, project |-> p]]
  /\ UNCHANGED <<overdue, project, promises, timeouts, process, ghosts>>

ErrorTypes == {"refund", "dispute_l2", "dispute_l3", "quality_review",
               "customer_complaint", "project_start"}
BlockerTypes == {"dispute_l2", "quality_review", "project_start"}

createRequest(i, type, p) == Insert(i, type, p)
handleErrorReport(i, p) == \E type \in ErrorTypes \cap Types : Insert(i, type, p)
handleBlockers(i, p) == \E type \in BlockerTypes \cap Types : Insert(i, type, p)

\* The promise is kept under the request: a second call takes the first one's
\* place, whose timer runs on.  own is a time-out the caller has chosen.
awaitResponse(w, i, own) ==
  /\ Quiet
  /\ waiter[w] = Free
  /\ Pending(i)
  /\ waiter' = [waiter EXCEPT ![w] = [pc |-> "waits", on |-> i, own |-> own]]
  /\ entry' = [entry EXCEPT ![i] = w]
  /\ UNCHANGED <<tables, timeouts, process, ghosts>>

\* Resolved or rejected: with a decision, with "timeout", or since the service ends.
Settled(w) == [waiter EXCEPT ![w] = Done]

(***************************************************************************)
(* The human.  Nothing asks whether the row is still pending.              *)
(***************************************************************************)
\* The promise is forgotten and its timer cleared, but only yes resolves it.
recordResponse_Bug(i, decision) ==
  /\ Quiet
  /\ row[i] # NoRow
  /\ row' = [row EXCEPT ![i].status = IF decision = "approve" THEN "approved" ELSE "rejected"]
  /\ answered' = IF Pending(i) THEN answered \cup {i} ELSE answered
  /\ entry' = [entry EXCEPT ![i] = NoWaiter]
  /\ waiter' = IF entry[i] = NoWaiter THEN waiter
               ELSE IF decision = "approve" THEN Settled(entry[i])
               ELSE [waiter EXCEPT ![entry[i]].pc = "forgotten"]
  /\ UNCHANGED <<overdue, project, timeouts, process, timedOut>>
recordResponse(i, decision) ==
  /\ Quiet
  /\ row[i] # NoRow
  /\ row' = [row EXCEPT ![i].status = IF decision = "approve" THEN "approved" ELSE "rejected"]
  /\ answered' = IF Pending(i) THEN answered \cup {i} ELSE answered
  /\ entry' = [entry EXCEPT ![i] = NoWaiter]
  /\ waiter' = IF entry[i] = NoWaiter THEN waiter ELSE Settled(entry[i])
  /\ UNCHANGED <<overdue, project, timeouts, process, timedOut>>

(***************************************************************************)
(* The clock.                                                              *)
(***************************************************************************)
DeadlinePasses(i) ==
  /\ row[i] # NoRow
  /\ i \notin overdue
  /\ overdue' = overdue \cup {i}
  /\ UNCHANGED <<row, project, promises, timeouts, process, ghosts>>

\* The timer drops the entry of the request, whoever it belongs to by now.
TimerFires(w) ==
  /\ Quiet
  /\ waiter[w].pc = "waits"
  /\ waiter[w].own \/ waiter[w].on \in overdue
  /\ entry' = [entry EXCEPT ![waiter[w].on] = NoWaiter]
  /\ waiter' = Settled(w)
  /\ call' = [call EXCEPT ![w] = [pc |-> "import", on |-> waiter[w].on]]
  /\ UNCHANGED <<tables, todo, process, ghosts>>

\* What the periodic check goes through: the pending rows, compared with one time.
Expired == {i \in overdue : Pending(i)}
StartSweep(s, rows) ==
  /\ Quiet
  /\ up
  /\ todo[s] = {} /\ call[s] = NoCall
  /\ rows # {}
  /\ todo' = [todo EXCEPT ![s] = rows]
  /\ UNCHANGED <<tables, promises, call, process, ghosts>>
\* The check goes through the promises rather than through the table.
checkTimeouts_Bug(s) == StartSweep(s, {i \in Expired : entry[i] # NoWaiter})
\* The interval starts one even if the last still awaits.
checkTimeouts(s) == StartSweep(s, Expired)

\* The check handles one row after the other.
handleTimeout(s, i) ==
  /\ call[s] = NoCall
  /\ i \in todo[s]
  /\ todo' = [todo EXCEPT ![s] = @ \ {i}]
  /\ call' = [call EXCEPT ![s] = [pc |-> "import", on |-> i]]
  /\ UNCHANGED <<tables, promises, process, ghosts>>

Cancels(i) == row[i].type \in {"contract_sign", "project_start", "refund"}

\* updateProjectStatus() finds no row to change.
Throws(i) == Cancels(i) /\ row[i].project \notin Projects

\* What a time-out does to the project: the default action of the type.
executeAction(i) ==
  /\ ~Throws(i)
  /\ project' = IF Cancels(i) THEN [project EXCEPT ![row[i].project] = "cancelled"]
                ELSE project

\* The row is looked at again after the import; a row that has been decided is left
\* alone, and so is one whose action throws.
ActOn(c, isOpen) ==
  LET i == call[c].on IN
  /\ call[c].pc = "import"
  /\ \/ /\ isOpen
        /\ executeAction(i)
        /\ call' = [call EXCEPT ![c].pc = "acting"]
     \/ /\ ~isOpen \/ Throws(i)
        /\ call' = [call EXCEPT ![c] = NoCall]
        /\ UNCHANGED project
  /\ UNCHANGED <<row, overdue, promises, todo, process, ghosts>>
\* The row is taken to be as it was when the call was made.
executeTimeoutAction_Bug(c) == ActOn(c, TRUE)
executeTimeoutAction(c) == ActOn(c, Pending(call[c].on))

\* Every decision but approve is stored as rejected, that of the clock too.  The row
\* is not looked at again.
MarkTimeout(c) ==
  LET i == call[c].on IN
  /\ call[c].pc = "acting"
  /\ row' = [row EXCEPT ![i].status = "rejected"]
  /\ timedOut' = timedOut \cup {i}
  /\ call' = [call EXCEPT ![c] = NoCall]
  /\ UNCHANGED <<overdue, project, promises, todo, process, answered>>

(***************************************************************************)
(* The end of the service.                                                 *)
(***************************************************************************)
\* stop() rejects those it has an entry for; timers without one run on.
Stop ==
  /\ Quiet
  /\ up
  /\ downs < MaxDowns
  /\ up' = FALSE
  /\ downs' = downs + 1
  /\ waiter' = [w \in Waiters |->
       IF \E i \in Ids : entry[i] = w THEN Done ELSE waiter[w]]
  /\ entry' = [i \in Ids |-> NoWaiter]
  /\ UNCHANGED <<tables, timeouts, ghosts>>

\* A kill takes all but the tables, also between an action and its row.  The next
\* process has a service again.
Killed ==
  /\ downs < MaxDowns
  /\ downs' = downs + 1
  /\ up' = TRUE
  /\ entry' = [i \in Ids |-> NoWaiter]
  /\ waiter' = [w \in Waiters |->
       IF waiter[w].pc = "waits" THEN Done ELSE waiter[w]]
  /\ todo' = [s \in Sweeps |-> {}]
  /\ call' = [c \in Timers |-> NoCall]
  /\ UNCHANGED <<tables, ghosts>>

-----------------------------------------------------------------------------
\* A step of a call that has been made, or of the check that makes the next.
HandleTimeout(c) ==
  \/ executeTimeoutAction(c)
  \/ MarkTimeout(c)
  \/ c \in Sweeps /\ \E i \in Ids : handleTimeout(c, i)

InterventionNext ==
  \/ \E i \in Ids, p \in Projects \cup Unknown :
       \/ \E type \in Types : createRequest(i, type, p)
       \/ handleErrorReport(i, p)
       \/ handleBlockers(i, p)
  \/ \E w \in Waiters, i \in Ids, own \in BOOLEAN : awaitResponse(w, i, own)
  \/ \E i \in Ids, decision \in {"approve", "reject"} : recordResponse(i, decision)
  \/ \E i \in Ids : DeadlinePasses(i)
  \/ \E w \in Waiters : TimerFires(w)
  \/ \E s \in Sweeps : checkTimeouts(s)
  \/ \E c \in Timers : HandleTimeout(c)
  \/ Stop
  \/ Killed

\* Time passes, timers fire, imports and actions end; nobody has to answer.
InterventionFairness ==
  /\ WF_interventionVars(\E i \in Ids : DeadlinePasses(i))
  /\ \A w \in Waiters : WF_interventionVars(TimerFires(w))
  /\ WF_interventionVars(\E s \in Sweeps : checkTimeouts(s))
  /\ \A c \in Timers : WF_interventionVars(HandleTimeout(c))

InterventionSpec ==
  InterventionInit /\ [][InterventionNext]_interventionVars /\ InterventionFairness

-----------------------------------------------------------------------------
\* A human who answers in time has the last word: of a row that was answered while it
\* was pending no time-out is recorded, however many timers and checks were after it
\* when the answer came (intervention-timeout.ts looks the row up after the import).
\* Two of them may well record the time-out of a row nobody has answered.
AnswerStands == answered \cap timedOut = {}

\* Whoever awaits a response gets one, or the error that the service has stopped,
\* also the one whose entry another call or another's timer has taken.
WaitersReleased == \A w \in Waiters : waiter[w].pc # "idle" ~> waiter[w].pc = "done"

\* As long as the service runs a request past its deadline does not stay open, but for
\* one whose action throws; that one's failure every round holds up no other.
OverdueSettles ==
  \A i \in Ids : Pending(i) /\ ~Throws(i) /\ i \in overdue ~> ~Pending(i) \/ ~up
=============================================================================
