------------------------------- MODULE Colony -------------------------------
(***************************************************************************)
(* The children of the agent: replication (replication/spawn.ts,           *)
(* lifecycle.ts, health.ts, cleanup.ts, lineage.ts and the tools that call *)
(* them), the tracker of the orchestrator (simple-tracker.ts), the health  *)
(* monitor (health-monitor.ts) and the pool optimiser (heartbeat/tasks.ts).*)
(*                                                                         *)
(* A child is known by two records that are written apart: the last row of *)
(* child_lifecycle_events, which validates transitions, and the column     *)
(* children.status, which the tracker and the optimiser also write.  The   *)
(* agent does one thing at a time and so does the heartbeat; their awaits  *)
(* interleave, and what has no await in it is one step.  A heartbeat task  *)
(* that runs on after its time-out (see HeartbeatScheduler) is left out.   *)
(*                                                                         *)
(* The age of a heartbeat or a task is a choice of the step that looks at  *)
(* it: times are stored without a zone and read as local ones.  Left out:  *)
(* amounts (see Spending), local workers (see Orchestrator), messages to   *)
(* children, legacy paths without callers (spawnChildLegacy, cleanupAll).  *)
(*                                                                         *)
(* Definitions whose name ends in _Bug are variants with a bug a change of *)
(* the code could introduce; no action uses them.                          *)
(***************************************************************************)
EXTENDS Integers, FiniteSets

CONSTANTS
  MaxRows,      \* bound: rows ever inserted into table children
  MaxChildren,  \* the limit of spawnChild()
  KeepLast,     \* dead rows pruneDeadChildren() leaves
  Tasks, NoTask,
  MaxRetries,   \* max_retries of every task
  ErrorSamples, \* ERROR_LOOP_MIN_SAMPLES
  Incidents     \* what may go wrong: see AllIncidents

AllIncidents == {"lost_create", "delete_fails"}

ASSUME BoundsNat == {MaxRows, MaxChildren, KeepLast, MaxRetries} \subseteq Nat
ASSUME SamplesPos == ErrorSamples \in Nat \ {0}
ASSUME IncidentsKnown == Incidents \subseteq AllIncidents

\* Rows are numbered as they are inserted, and a sandbox and an address by the
\* row they were made for; 0 stands for an empty column.
Rows == 1..MaxRows

VARIABLES
  made,      \* rows inserted so far
  status,    \* children.status, "absent" without a row
  event,     \* to_state of the last row of child_lifecycle_events, or "none"
  box,       \* children.sandbox_id
  address,   \* children.address
  up,        \* sandboxes that run at the service
  blamed,    \* ghost: sandboxes an incident let go
  agent,     \* the replication tool or the spawn under way, and its row
  prune,     \* the two calls of pruneDeadChildren(): rows left, await reached
  probe,     \* check_child_health: status read of each row asked for
  heal,      \* autoHeal(): the reports left, and whether it awaits a transfer
  task       \* table task_graph: status, address and retry_count of each task

vars == <<made, status, event, box, address, up, blamed,
          agent, prune, probe, heal, task>>
rows == <<made, status, event, box, address>>
boxes == <<up, blamed>>

Lifecycle == {"requested", "sandbox_created", "runtime_ready", "wallet_verified",
              "funded", "starting", "healthy", "unhealthy", "stopped", "failed",
              "cleaned_up"}

\* VALID_TRANSITIONS.
Successors ==
  [requested |-> {"sandbox_created", "failed"},
   sandbox_created |-> {"runtime_ready", "failed"},
   runtime_ready |-> {"wallet_verified", "failed"},
   wallet_verified |-> {"funded", "failed"},
   funded |-> {"starting", "failed"},
   starting |-> {"healthy", "failed"},
   healthy |-> {"unhealthy", "stopped"},
   unhealthy |-> {"healthy", "stopped", "failed"},
   stopped |-> {"cleaned_up"},
   failed |-> {"cleaned_up"},
   cleaned_up |-> {},
   none |-> {}]

Present(c) == status[c] # "absent"
CanMove(c, to) == to \in Successors[event[c]]

\* transition(), where it does not throw.
Transition(c, to) ==
  /\ CanMove(c, to)
  /\ event' = [event EXCEPT ![c] = to]
  /\ status' = [status EXCEPT ![c] = to]

\* The column alone; the row is the newest with the address.
RowOf(a) == {c \in Rows : /\ Present(c) /\ address[c] = a
                          /\ \A d \in Rows : Present(d) /\ address[d] = a => d <= c}
WithStatus(a, s) == [c \in Rows |-> IF c \in RowOf(a) THEN s ELSE status[c]]

Free == [pc |-> "none", row |-> 0, for |-> "tool"]
NoPrune == [todo |-> {}, deleting |-> FALSE]
NoHeal == [todo |-> {}, funding |-> FALSE]

\* Other code runs only where autoHeal() awaits.
Yielded == heal.todo = {} \/ heal.funding
AgentFree == Yielded /\ agent = Free /\ prune["agent"] = NoPrune
HeartFree == heal = NoHeal /\ DOMAIN probe = {} /\ prune["heartbeat"] = NoPrune

Init ==
  /\ made = 0
  /\ status = [c \in Rows |-> "absent"]
  /\ event = [c \in Rows |-> "none"]
  /\ box = [c \in Rows |-> 0]
  /\ address = [c \in Rows |-> 0]
  /\ up = {}
  /\ blamed = {}
  /\ agent = Free
  /\ prune = [p \in {"agent", "heartbeat"} |-> NoPrune]
  /\ probe = [c \in {} |-> "none"]
  /\ heal = NoHeal
  /\ task = [t \in Tasks |-> [status |-> "pending", at |-> 0, retries |-> 0]]

(***************************************************************************)
(* spawnChild(), for the tool or for the orchestrator, which then enters   *)
(* the child a second time with a row of its own.                          *)
(***************************************************************************)
\* The limit counts children that are in service only.
Counted_Bug == {c \in Rows : status[c] \in {"running", "sleeping", "healthy"}}
Counted == {c \in Rows : status[c] \notin {"absent", "dead", "cleaned_up", "failed"}}

Spawn(for) ==
  /\ AgentFree
  /\ Cardinality(Counted) < MaxChildren
  /\ made + (IF for = "tool" THEN 1 ELSE 2) <= MaxRows
  /\ made' = made + 1
  /\ status' = [status EXCEPT ![made'] = "requested"]
  /\ event' = [event EXCEPT ![made'] = "requested"]
  /\ agent' = [pc |-> "create", row |-> made', for |-> for]
  /\ UNCHANGED <<box, address, boxes, prune, probe, heal, task>>

SandboxCreated ==
  LET c == agent.row IN
  /\ Yielded
  /\ agent.pc = "create"
  /\ up' = up \union {c}
  /\ box' = [box EXCEPT ![c] = c]
  /\ Transition(c, "sandbox_created")
  /\ agent' = [agent EXCEPT !.pc = "install"]
  /\ UNCHANGED <<made, address, blamed, prune, probe, heal, task>>

RuntimeInstalled ==
  /\ Yielded
  /\ agent.pc = "install"
  /\ Transition(agent.row, "runtime_ready")
  /\ agent' = [agent EXCEPT !.pc = "wallet"]
  /\ UNCHANGED <<made, box, address, boxes, prune, probe, heal, task>>

WalletVerified ==
  LET c == agent.row IN
  /\ Yielded
  /\ agent.pc = "wallet"
  /\ CanMove(c, "wallet_verified")
  /\ event' = [event EXCEPT ![c] = "wallet_verified"]
  /\ IF agent.for = "tool"
       THEN /\ status' = [status EXCEPT ![c] = "wallet_verified"]
            /\ address' = [address EXCEPT ![c] = c]
            /\ UNCHANGED <<made, box>>
       ELSE /\ made' = made + 1
            /\ status' = [status EXCEPT ![c] = "wallet_verified", ![made'] = "running"]
            /\ address' = [address EXCEPT ![c] = c, ![made'] = c]
            /\ box' = [box EXCEPT ![made'] = c]
  /\ agent' = Free
  /\ UNCHANGED <<boxes, prune, probe, heal, task>>

\* An await of spawnChild() throws.  A sandbox whose creation was not answered
\* is not known, and nothing deletes it.
SpawnThrows ==
  LET c == agent.row IN
  /\ Yielded
  /\ agent.pc \in {"create", "install", "wallet"}
  /\ IF agent.pc = "create"
       THEN /\ Transition(c, "failed")
            /\ \/ UNCHANGED boxes
               \/ /\ "lost_create" \in Incidents
                  /\ up' = up \union {c}
                  /\ blamed' = blamed \union {c}
            /\ agent' = Free
       ELSE /\ agent' = [agent EXCEPT !.pc = "undo"]
            /\ UNCHANGED <<status, event, boxes>>
  /\ UNCHANGED <<made, box, address, prune, probe, heal, task>>

\* The answer to deleteSandbox(); an error is suppressed.
SpawnUndone ==
  /\ Yielded
  /\ agent.pc = "undo"
  /\ \/ up' = up \ {agent.row}
     \/ "delete_fails" \in Incidents /\ UNCHANGED up
  /\ Transition(agent.row, "failed")
  /\ agent' = Free
  /\ UNCHANGED <<made, box, address, blamed, prune, probe, heal, task>>

(***************************************************************************)
(* The tools fund_child and start_child.                                   *)
(***************************************************************************)
\* With any other status the call moves money only.
FundChild(c) ==
  /\ AgentFree
  /\ address[c] # 0
  /\ status[c] = "wallet_verified"
  /\ agent' = [pc |-> "fund", row |-> c, for |-> "tool"]
  /\ UNCHANGED <<rows, boxes, prune, probe, heal, task>>

\* A transition that throws is swallowed.
Funded ==
  /\ Yielded
  /\ agent.pc = "fund"
  /\ IF CanMove(agent.row, "funded")
       THEN Transition(agent.row, "funded")
       ELSE UNCHANGED <<event, status>>
  /\ agent' = Free
  /\ UNCHANGED <<made, box, address, boxes, prune, probe, heal, task>>

StartChild(c) ==
  /\ AgentFree
  /\ Present(c)
  /\ Transition(c, "starting")
  /\ agent' = [pc |-> "start", row |-> c, for |-> "tool"]
  /\ UNCHANGED <<made, box, address, boxes, prune, probe, heal, task>>

Started ==
  /\ Yielded
  /\ agent.pc = "start"
  /\ Transition(agent.row, "healthy")
  /\ agent' = Free
  /\ UNCHANGED <<made, box, address, boxes, prune, probe, heal, task>>

\* The transfer or the command fails, or the transition throws.
ToolThrows ==
  /\ Yielded
  /\ agent.pc \in {"fund", "start"}
  /\ agent' = Free
  /\ UNCHANGED <<rows, boxes, prune, probe, heal, task>>

(***************************************************************************)
(* pruneDeadChildren(), called by the tool and by two heartbeat tasks.     *)
(***************************************************************************)
\* Rows on their way up count as dead as well.
Dead_Bug == {c \in Rows : status[c] \in {"dead", "failed", "stopped", "starting"}}
Dead == {c \in Rows : status[c] \in {"dead", "failed", "stopped"}}

Oldest(S, n) == {c \in S : Cardinality({d \in S : d < c}) < n}

PruneBegins(p) ==
  /\ IF p = "agent" THEN AgentFree ELSE HeartFree
  /\ Cardinality(Dead) > KeepLast
  /\ prune' = [prune EXCEPT ![p].todo = Oldest(Dead, Cardinality(Dead) - KeepLast)]
  /\ UNCHANGED <<rows, boxes, agent, probe, heal, task>>

\* cleanup() goes to the service only for a child whose events say it may.
Cleanable(c) == event[c] \in {"stopped", "failed"}

DeleteRow(p, c) ==
  /\ status' = [status EXCEPT ![c] = "absent"]
  /\ event' = [event EXCEPT ![c] = "none"]
  /\ box' = [box EXCEPT ![c] = 0]
  /\ address' = [address EXCEPT ![c] = 0]
  /\ prune' = [prune EXCEPT ![p] = [todo |-> prune[p].todo \ {c}, deleting |-> FALSE]]

\* The rows of a call are taken in the order of their age.
IsNext(p, c) == c \in prune[p].todo /\ \A d \in prune[p].todo : c <= d

PruneNext(p) ==
  \E c \in Rows :
    /\ Yielded
    /\ IsNext(p, c)
    /\ ~prune[p].deleting
    /\ IF Cleanable(c) /\ box[c] # 0
         THEN /\ prune' = [prune EXCEPT ![p].deleting = TRUE]
              /\ UNCHANGED <<status, event, box, address>>
         ELSE DeleteRow(p, c)
    /\ UNCHANGED <<made, boxes, agent, probe, heal, task>>

\* The service answers; whatever it says, the row goes.
SandboxDeleted(p) ==
  \E c \in Rows :
    /\ Yielded
    /\ IsNext(p, c)
    /\ prune[p].deleting
    /\ \/ up' = up \ {box[c]} /\ UNCHANGED blamed
       \/ /\ "delete_fails" \in Incidents
          /\ blamed' = blamed \union {box[c]}
          /\ UNCHANGED up
    /\ DeleteRow(p, c)
    /\ UNCHANGED <<made, agent, probe, heal, task>>

(***************************************************************************)
(* check_child_health: all children are asked, then the answers applied to *)
(* the status read before.  The command runs in the sandbox of the agent   *)
(* itself, so an answer is any answer.                                     *)
(***************************************************************************)
ProbeBegins ==
  LET asked == {c \in Rows : status[c] \in {"healthy", "unhealthy"}} IN
  /\ HeartFree
  /\ asked # {}
  /\ probe' = [c \in asked |-> status[c]]
  /\ UNCHANGED <<rows, boxes, agent, prune, heal, task>>

\* Those that answered otherwise than their status and can still move.
ProbeEnds ==
  \E changed \in SUBSET DOMAIN probe :
    LET next(c) == IF probe[c] = "healthy" THEN "unhealthy" ELSE "healthy"
        moved == {c \in changed : CanMove(c, next(c))}
        after(f) == [c \in Rows |-> IF c \in moved THEN next(c) ELSE f[c]] IN
    /\ Yielded
    /\ DOMAIN probe # {}
    /\ event' = after(event)
    /\ status' = after(status)
    /\ probe' = [c \in {} |-> "none"]
    /\ UNCHANGED <<made, box, address, boxes, agent, prune, heal, task>>

(***************************************************************************)
(* The tables of the orchestrator, as far as tracker and monitor need.     *)
(***************************************************************************)
Addresses == {address[c] : c \in {d \in Rows : Present(d)}} \ {0}
Busy == {task[t].at : t \in {u \in Tasks : task[u].status = "assigned"}}
Idle == {address[c] : c \in {d \in Rows : status[d] \in {"running", "healthy"}}} \ Busy

Assign(t, a) ==
  /\ Yielded
  /\ task[t].status = "pending"
  /\ a \in Idle
  /\ task' = [task EXCEPT ![t].status = "assigned", ![t].at = a]
  /\ UNCHANGED <<rows, boxes, agent, prune, probe, heal>>

\* completeTask(), and failTask() with and without a retry.
TaskEnds(t) ==
  /\ Yielded
  /\ task[t].status = "assigned"
  /\ \/ task' = [task EXCEPT ![t].status = "completed"]
     \/ task' = [task EXCEPT ![t].status = "failed", ![t].at = 0]
     \/ /\ task[t].retries < MaxRetries
        /\ task' = [task EXCEPT ![t] =
             [status |-> "pending", at |-> 0, retries |-> @.retries + 1]]
  /\ UNCHANGED <<rows, boxes, agent, prune, probe, heal>>

(***************************************************************************)
(* colony_health_check: checkAll() takes a report of every child, then     *)
(* autoHeal() works the reports off, newest row first.                     *)
(***************************************************************************)
Crashed == {"dead", "failed", "stopped", "unknown", "unhealthy"}

TasksAt(a, s) == {t \in Tasks : task[t].status = s /\ task[t].at = a}
ErrorLoop(a) ==
  LET failed == Cardinality(TasksAt(a, "failed"))
      total == failed + Cardinality(TasksAt(a, "completed")) IN
  total >= ErrorSamples /\ 5 * failed >= 3 * total

Report(c) ==
  [row |-> c, at |-> address[c], crashed |-> status[c] \in Crashed,
   task |-> IF TasksAt(address[c], "assigned") = {} \/ address[c] = 0
              THEN NoTask
              ELSE CHOOSE t \in TasksAt(address[c], "assigned") : TRUE,
   loop |-> address[c] # 0 /\ ErrorLoop(address[c])]

CheckAll ==
  LET present == {c \in Rows : Present(c)} IN
  /\ HeartFree
  /\ present # {}
  /\ heal' = [todo |-> {Report(c) : c \in present}, funding |-> FALSE]
  /\ UNCHANGED <<rows, boxes, agent, prune, probe, task>>

\* stopAgent() and restartAgent() write the column and no event.
StatusWritten(a, s) ==
  /\ status' = WithStatus(a, s)
  /\ blamed' = IF s = "stopped" THEN blamed \union {box[c] : c \in RowOf(a)} ELSE blamed

MayRetry(t) == task[t].retries + 1 <= MaxRetries

\* reassignTask() looks at the counter of the task and at nothing else.
Reassign(t, from) ==
  LET idle == Idle \ {from} IN
  IF ~MayRetry(t)
    THEN task' = [task EXCEPT ![t].status = "failed"]
    ELSE IF idle = {}
      THEN task' = [task EXCEPT ![t] = [status |-> "pending", at |-> 0, retries |-> @.retries + 1]]
      ELSE \E a \in idle :
             task' = [task EXCEPT ![t] = [status |-> "assigned", at |-> a, retries |-> @.retries + 1]]

\* The report worked off now is that of the newest row.
IsWorkedOff(r) == r \in heal.todo /\ \A q \in heal.todo : q.row <= r.row

Healed(r) == heal' = [todo |-> heal.todo \ {r}, funding |-> FALSE]

\* A child with an error loop is stopped and nothing else is done for it.
StopAgent ==
  \E r \in heal.todo :
    /\ IsWorkedOff(r)
    /\ r.loop
    /\ StatusWritten(r.at, "stopped")
    /\ Healed(r)
    /\ UNCHANGED <<made, event, box, address, up, agent, prune, probe, task>>

\* Out of credits: a transfer first.
FundAgent ==
  \E r \in heal.todo :
    /\ IsWorkedOff(r)
    /\ ~r.loop
    /\ ~heal.funding
    /\ heal' = [heal EXCEPT !.funding = TRUE]
    /\ UNCHANGED <<rows, boxes, agent, prune, probe, task>>

RestartAndReassign ==
  \E r \in heal.todo :
    /\ IsWorkedOff(r)
    /\ ~r.loop
    /\ \/ StatusWritten(r.at, "starting")
       \/ ~r.crashed /\ UNCHANGED <<status, blamed>>
    /\ \/ UNCHANGED task
       \/ r.task # NoTask /\ Reassign(r.task, r.at)
    /\ Healed(r)
    /\ UNCHANGED <<made, event, box, address, up, agent, prune, probe>>

\* agent_pool_optimize stops idle children that were not seen for an hour.
Cull ==
  \E culled \in SUBSET {c \in Rows : /\ status[c] \in {"running", "healthy", "sleeping"}
                                     /\ address[c] \notin Busy} :
    /\ Yielded
    /\ culled # {}
    /\ status' = [c \in Rows |-> IF c \in culled THEN "stopped" ELSE status[c]]
    /\ blamed' = blamed \union {box[c] : c \in culled}
    /\ UNCHANGED <<made, event, box, address, up, agent, prune, probe, heal, task>>

-----------------------------------------------------------------------------
Next ==
  \/ \E for \in {"tool", "orchestrator"} : Spawn(for)
  \/ SandboxCreated \/ RuntimeInstalled \/ WalletVerified
  \/ SpawnThrows \/ SpawnUndone
  \/ \E c \in Rows : FundChild(c) \/ StartChild(c)
  \/ Funded \/ Started \/ ToolThrows
  \/ \E p \in {"agent", "heartbeat"} : PruneBegins(p) \/ PruneNext(p) \/ SandboxDeleted(p)
  \/ ProbeBegins \/ ProbeEnds
  \/ \E t \in Tasks : TaskEnds(t) \/ \E a \in Addresses : Assign(t, a)
  \/ CheckAll \/ StopAgent \/ FundAgent \/ RestartAndReassign \/ Cull

Spec == Init /\ [][Next]_vars

(***************************************************************************)
(* Properties.                                                             *)
(***************************************************************************)
\* Every variable has values of its type.
TypeOK ==
  /\ made \in 0..MaxRows
  /\ status \in [Rows -> Lifecycle \union {"absent", "running"}]
  /\ event \in [Rows -> Lifecycle \union {"none"}]
  /\ box \in [Rows -> Rows \union {0}]
  /\ address \in [Rows -> Rows \union {0}]
  /\ up \subseteq Rows
  /\ blamed \subseteq Rows \union {0}
  /\ agent \in [pc : {"none", "create", "install", "wallet", "undo", "fund", "start"},
                row : Rows \union {0}, for : {"tool", "orchestrator"}]
  /\ task \in [Tasks -> [status : {"pending", "assigned", "completed", "failed"},
                         at : Rows \union {0}, retries : 0..MaxRetries]]

\* A sandbox that runs, and costs, is named by a row of children or by the spawn
\* that made it, however spawns, prunes, probes and the monitor interleave and
\* whoever deletes rows; otherwise an answer of the service was lost or bad, or
\* its child was stopped without an event (simple-tracker.ts:67, tasks.ts:603).
SandboxesHaveRows ==
  \A b \in up \ blamed : \E c \in Rows : Present(c) /\ box[c] = b

\* No more children than the limit are in the course of their life by their
\* events, though the count looks at the column, which the monitor resurrects
\* and the tracker enters a second time (spawn.ts:41).
ChildrenWithinLimit ==
  Cardinality({c \in Rows : event[c] \notin {"none", "failed", "cleaned_up"}}) <= MaxChildren
=============================================================================
