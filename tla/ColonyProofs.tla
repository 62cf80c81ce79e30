---------------------------- MODULE ColonyProofs -----------------------------
(***************************************************************************)
(* Proofs about Colony, for any number of rows, children and tasks: the    *)
(* limit of spawnChild() holds although it counts another column than the  *)
(* one that the lifecycle keeps, and no sandbox is left without a row.     *)
(***************************************************************************)
EXTENDS Colony, FiniteSetTheorems, TLAPS

Pruners == {"agent", "heartbeat"}
Statuses == Lifecycle \union {"absent", "running"}
Agents == [pc : {"none", "create", "install", "wallet", "undo", "fund", "start"},
           row : Rows \union {0}, for : {"tool", "orchestrator"}]
Prunes == [todo : SUBSET Rows, deleting : BOOLEAN]

\* No error loop is reported of a child that has no address, so that the monitor
\* does not stop whoever has none.
Heals(h) ==
  /\ h = [todo |-> h.todo, funding |-> h.funding]
  /\ \A r \in h.todo : r.loop => r.at # 0

RowTypes ==
  /\ made \in 0..MaxRows
  /\ status \in [Rows -> Statuses]
  /\ event \in [Rows -> Lifecycle \union {"none"}]
  /\ box \in [Rows -> Rows \union {0}]
  /\ address \in [Rows -> Rows \union {0}]
  /\ up \subseteq Rows
  /\ blamed \subseteq Rows \union {0}

\* Whoever spawns, funds or starts has a row, and a spawn for the orchestrator
\* has room for its second one.
CallTypes ==
  /\ agent \in Agents
  /\ agent.pc # "none" => agent.row \in Rows
  /\ agent.for = "orchestrator" => made < MaxRows
  /\ prune \in [Pruners -> Prunes]
  /\ DOMAIN probe \subseteq Rows
  /\ \A c \in DOMAIN probe : probe[c] \in {"healthy", "unhealthy"}
  /\ Heals(heal)

\* A row without a status has nothing, and none is inserted twice.  The column
\* says what the last event says, or was written by those who write no event: the
\* tracker for its second row, the monitor and the optimiser.  A row has its
\* sandbox from the event on that says so, and its address later.
RowFits(c) ==
  /\ c > made => status[c] = "absent"
  /\ status[c] = "absent" => event[c] = "none" /\ box[c] = 0 /\ address[c] = 0
  /\ event[c] \notin {"stopped", "cleaned_up"}
  /\ \/ status[c] = event[c]
     \/ status[c] = "starting"
     \/ status[c] = "stopped" /\ event[c] # "requested"
     \/ status[c] \in {"absent", "running"} /\ event[c] = "none"
  /\ event[c] = "requested" => box[c] = 0 /\ address[c] = 0
  /\ event[c] \notin {"none", "requested", "failed"} => box[c] = c
  /\ status[c] = "stopped" => box[c] \in blamed

\* What is pruned has failed by its events too, in which case the service is asked
\* to delete its sandbox, or was stopped by one who writes no event.
PrunedFits ==
  \A p \in Pruners : \A c \in prune[p].todo :
    /\ c <= made
    /\ event[c] # "requested"
    /\ event[c] = "failed" \/ box[c] \in blamed \union {0}

ColonyIInv ==
  /\ RowTypes
  /\ CallTypes
  /\ \A c \in Rows : RowFits(c)
  /\ PrunedFits
  /\ SandboxesHaveRows
  /\ ChildrenWithinLimit

----------------------------------------------------------------------------
(* Steps of the rows.                                                      *)

Ended == {"none", "failed", "cleaned_up"}

\* What a step other than Spawn may do to a row.
RowKept(c) ==
  /\ event'[c] = "requested" => event[c] = "requested"
  /\ event'[c] \notin Ended => event[c] \notin Ended
  /\ event[c] = "failed" => event'[c] = "failed" \/ box'[c] = 0
  /\ box'[c] \in {0, box[c]} \/ event[c] = "requested" \/ c > made
  /\ status[c] # "absent" /\ box[c] \in up' \ blamed' =>
       status'[c] # "absent" /\ box'[c] = box[c]

\* What it does to the rest: it adds rows at the end and sandboxes with a row, and
\* takes work from a prune.
Kept ==
  /\ made <= made'
  /\ blamed \subseteq blamed'
  /\ \A p \in Pruners : prune'[p].todo \subseteq prune[p].todo
  /\ \A b \in up' \ blamed' :
       b \in up \/ \E c \in Rows : status'[c] # "absent" /\ box'[c] = b

USE BoundsNat, SamplesPos

LEMMA RowsFinite == IsFiniteSet(Rows) /\ Rows \subseteq Nat /\ 0 \notin Rows
BY FS_Interval DEF Rows

\* A step in which every row fits and is kept keeps the invariant.
LEMMA KeptStep ==
  ASSUME ColonyIInv, RowTypes', CallTypes', Kept,
         \A c \in Rows : RowFits(c)' /\ RowKept(c)
  PROVE  ColonyIInv'
<1>1. PrunedFits'
  <2> SUFFICES ASSUME NEW p \in Pruners, NEW c \in prune'[p].todo
               PROVE  /\ c <= made'
                      /\ event'[c] # "requested"
                      /\ event'[c] = "failed" \/ box'[c] \in blamed' \union {0}
    BY DEF PrunedFits
  <2>1. c \in prune[p].todo /\ c \in Rows
    BY DEF Kept, ColonyIInv, CallTypes, Prunes
  <2>2. /\ c <= made
        /\ event[c] # "requested"
        /\ event[c] = "failed" \/ box[c] \in blamed \union {0}
    BY <2>1 DEF ColonyIInv, PrunedFits
  <2>3. c <= made' /\ ~(c > made)
    BY <2>1, <2>2, RowsFinite DEF Kept, ColonyIInv, RowTypes
  <2>4. RowKept(c) /\ blamed \subseteq blamed'
    BY <2>1 DEF Kept
  <2>5. QED
    BY <2>2, <2>3, <2>4 DEF RowKept
<1>2. SandboxesHaveRows'
  <2> SUFFICES ASSUME NEW b \in up' \ blamed'
               PROVE  \E c \in Rows : status'[c] # "absent" /\ box'[c] = b
    BY DEF SandboxesHaveRows, Present
  <2>1. CASE b \in up
    <3>1. PICK c \in Rows : status[c] # "absent" /\ box[c] = b
      BY <2>1 DEF Kept, ColonyIInv, SandboxesHaveRows, Present
    <3>2. QED
      BY <3>1 DEF RowKept
  <2>2. QED
    BY <2>1 DEF Kept
<1>3. ChildrenWithinLimit'
  <2> DEFINE E == {c \in Rows : event[c] \notin Ended}
             F == {c \in Rows : event'[c] \notin Ended}
  <2>1. F \subseteq E /\ IsFiniteSet(E)
    BY RowsFinite, FS_Subset DEF RowKept
  <2>2. Cardinality(F) <= Cardinality(E) /\ Cardinality(E) \in Nat /\ Cardinality(F) \in Nat
    BY <2>1, FS_Subset, FS_CardinalityType
  <2>3. Cardinality(E) <= MaxChildren
    BY DEF ColonyIInv, ChildrenWithinLimit, Ended
  <2>4. Cardinality(F) <= MaxChildren
    BY <2>2, <2>3
  <2>5. QED
    BY <2>4 DEF ChildrenWithinLimit, Ended
<1>4. QED
  BY <1>1, <1>2, <1>3 DEF ColonyIInv

\* A row that is left alone fits and is kept.
LEMMA RowAlone ==
  ASSUME ColonyIInv, NEW c \in Rows,
         made' \in Nat, made <= made', blamed \subseteq blamed',
         UNCHANGED <<status[c], event[c], box[c], address[c]>>
  PROVE  RowFits(c)' /\ RowKept(c)
<1>1. RowKept(c)
  BY DEF RowKept
<1>2. RowFits(c) /\ (c > made' => c > made)
  BY RowsFinite DEF ColonyIInv, RowTypes
<1>3. RowFits(c)'
  BY <1>2 DEF RowFits
<1>4. QED
  BY <1>1, <1>3

\* Where a transition may come from.
LEMMA Moves ==
  ASSUME NEW e \in Lifecycle \union {"none"}, NEW to \in Successors[e]
  PROVE  /\ to \in Lifecycle \ {"requested"}
         /\ e \notin {"none", "cleaned_up"}
         /\ to = "sandbox_created" <=> e = "requested" /\ to # "failed"
         /\ e = "failed" => to = "cleaned_up"
<1>1. CASE e \in {"requested", "sandbox_created", "runtime_ready"}
  BY <1>1 DEF Successors, Lifecycle
<1>2. CASE e \in {"wallet_verified", "funded", "starting"}
  BY <1>2 DEF Successors, Lifecycle
<1>3. CASE e \in {"healthy", "unhealthy", "stopped"}
  BY <1>3 DEF Successors, Lifecycle
<1>4. CASE e \in {"failed", "cleaned_up", "none"}
  BY <1>4 DEF Successors, Lifecycle
<1>5. QED
  BY <1>1, <1>2, <1>3, <1>4 DEF Lifecycle

\* A row whose event and column move together fits and is kept.
LEMMA RowMoves ==
  ASSUME ColonyIInv, NEW c \in Rows, NEW to,
         to \notin {"sandbox_created", "stopped", "cleaned_up"},
         CanMove(c, to),
         made' \in Nat, made <= made', blamed \subseteq blamed',
         event'[c] = to, status'[c] = to, box'[c] = box[c],
         address'[c] = address[c] \/ to = "wallet_verified"
  PROVE  RowFits(c)' /\ RowKept(c)
<1>1. /\ to \in Lifecycle \ {"requested"}
      /\ event[c] \notin {"none", "cleaned_up", "failed"}
      /\ event[c] = "requested" => to = "failed"
  BY Moves DEF CanMove, ColonyIInv, RowTypes
<1>2. status[c] # "absent" /\ ~(c > made)
  BY <1>1 DEF ColonyIInv, RowFits
<1>3. to # "absent" /\ to # "none"
  BY <1>1 DEF Lifecycle
<1>4. RowFits(c) /\ ~(c > made')
  BY <1>2, RowsFinite DEF ColonyIInv, RowTypes
<1>5. RowFits(c)'
  BY <1>1, <1>3, <1>4 DEF RowFits
<1>6. RowKept(c)
  BY <1>1, <1>3 DEF RowKept, Ended
<1>7. QED
  BY <1>5, <1>6

----------------------------------------------------------------------------
(* The actions.                                                            *)

\* Steps that write no row, start no prune and touch no sandbox.
LEMMA SilentStep ==
  ASSUME ColonyIInv, CallTypes', UNCHANGED <<rows, boxes, prune>>
  PROVE  ColonyIInv'
<1>1. UNCHANGED <<made, status, event, box, address, up, blamed>>
  BY DEF rows, boxes
<1>2. RowTypes'
  BY <1>1 DEF ColonyIInv, RowTypes
<1>3. made' \in Nat /\ made <= made'
  BY <1>1 DEF ColonyIInv, RowTypes
<1>4. Kept
  BY <1>1, <1>3 DEF Kept
<1>5. \A c \in Rows : RowFits(c)' /\ RowKept(c)
  BY <1>1, <1>3, RowAlone
<1>6. QED
  BY <1>2, <1>4, <1>5, KeptStep

LEMMA FreeTypes ==
  /\ Free \in Agents /\ Free.pc = "none" /\ Free.for = "tool"
  /\ Heals(NoHeal) /\ NoHeal.todo = {}
BY DEF Free, Agents, Heals, NoHeal

LEMMA SilentActions ==
  ASSUME ColonyIInv,
         \/ \E c \in Rows : FundChild(c)
         \/ ToolThrows \/ ProbeBegins \/ CheckAll \/ FundAgent
         \/ \E t \in Tasks : TaskEnds(t) \/ \E a \in Addresses : Assign(t, a)
  PROVE  ColonyIInv'
<1> USE DEF ColonyIInv, CallTypes
<1>1. ASSUME NEW c \in Rows, FundChild(c)
      PROVE  ColonyIInv'
  <2>1. /\ agent' = [pc |-> "fund", row |-> c, for |-> "tool"]
        /\ UNCHANGED <<rows, boxes, prune, probe, heal>>
    BY <1>1 DEF FundChild
  <2>2. agent' \in Agents /\ agent'.for = "tool" /\ agent'.row \in Rows
    BY <2>1 DEF Agents
  <2>3. CallTypes'
    BY <2>1, <2>2
  <2>4. QED
    BY <2>1, <2>3, SilentStep
<1>2. CASE ToolThrows
  <2>1. agent' = Free /\ UNCHANGED <<rows, boxes, prune, probe, heal>>
    BY <1>2 DEF ToolThrows
  <2>2. CallTypes'
    BY <2>1, FreeTypes
  <2>3. QED
    BY <2>1, <2>2, SilentStep
<1>3. CASE ProbeBegins
  <2>1. /\ UNCHANGED <<rows, boxes, agent, prune, heal>>
        /\ probe' = [c \in {d \in Rows : status[d] \in {"healthy", "unhealthy"}} |-> status[c]]
    BY <1>3 DEF ProbeBegins
  <2>2. UNCHANGED made
    BY <2>1 DEF rows
  <2>3. CallTypes'
    BY <2>1, <2>2
  <2>4. QED
    BY <2>1, <2>3, SilentStep
<1>4. CASE CheckAll
  <2>1. /\ UNCHANGED <<rows, boxes, agent, prune, probe>>
        /\ heal' = [todo |-> {Report(c) : c \in {d \in Rows : Present(d)}}, funding |-> FALSE]
    BY <1>4 DEF CheckAll
  <2>2. ASSUME NEW c \in Rows, Report(c).loop
        PROVE  Report(c).at # 0
    BY <2>2 DEF Report
  <2>3. Heals(heal')
    BY <2>1, <2>2 DEF Heals
  <2>4. CallTypes'
    BY <2>1, <2>3 DEF rows
  <2>5. QED
    BY <2>1, <2>4, SilentStep
<1>5. CASE FundAgent
  <2>1. /\ UNCHANGED <<rows, boxes, agent, prune, probe>>
        /\ heal' = [todo |-> heal.todo, funding |-> TRUE]
    BY <1>5 DEF FundAgent, Heals
  <2>2. Heals(heal')
    BY <2>1 DEF Heals
  <2>3. CallTypes'
    BY <2>1, <2>2 DEF rows
  <2>4. QED
    BY <2>1, <2>3, SilentStep
<1>6. ASSUME NEW t \in Tasks, TaskEnds(t) \/ \E a \in Addresses : Assign(t, a)
      PROVE  ColonyIInv'
  <2>1. UNCHANGED <<rows, boxes, agent, prune, probe, heal>>
    BY <1>6 DEF TaskEnds, Assign
  <2>2. CallTypes'
    BY <2>1 DEF rows
  <2>3. QED
    BY <2>1, <2>2, SilentStep
<1>7. QED
  BY <1>1, <1>2, <1>3, <1>4, <1>5, <1>6

\* A step of a spawn or of a tool whose transition is valid.
LEMMA TransitionStep ==
  ASSUME ColonyIInv, NEW c \in Rows, NEW to \in Lifecycle,
         to \notin {"sandbox_created", "stopped", "cleaned_up"},
         Transition(c, to), CallTypes',
         UNCHANGED <<made, box, address, prune>>,
         up' \subseteq up, blamed' = blamed
  PROVE  ColonyIInv'
<1>1. /\ CanMove(c, to)
      /\ event' = [event EXCEPT ![c] = to]
      /\ status' = [status EXCEPT ![c] = to]
  BY DEF Transition
<1>2. RowTypes'
  BY <1>1 DEF ColonyIInv, RowTypes, Statuses
<1>3. made' \in Nat /\ made <= made' /\ blamed \subseteq blamed'
  BY DEF ColonyIInv, RowTypes
<1>4. event'[c] = to /\ status'[c] = to
  BY <1>1 DEF ColonyIInv, RowTypes
<1>5. RowFits(c)' /\ RowKept(c)
  BY <1>1, <1>3, <1>4, RowMoves
<1>6. ASSUME NEW d \in Rows, d # c
      PROVE  RowFits(d)' /\ RowKept(d)
  <2>1. UNCHANGED <<status[d], event[d], box[d], address[d]>>
    BY <1>1, <1>6 DEF ColonyIInv, RowTypes
  <2>2. QED
    BY <1>3, <2>1, RowAlone
<1>7. Kept
  BY <1>3 DEF Kept
<1>8. QED
  BY <1>2, <1>5, <1>6, <1>7, KeptStep

\* The agent goes on with its call, or is done, or begins one for the tool.
LEMMA AgentGoesOn ==
  ASSUME ColonyIInv, UNCHANGED <<made, prune, probe, heal>>,
         \/ agent' = Free
         \/ /\ agent.pc # "none"
            /\ \E pc \in {"install", "wallet", "undo"} : agent' = [agent EXCEPT !.pc = pc]
         \/ \E c \in Rows, pc \in {"fund", "start"} :
              agent' = [pc |-> pc, row |-> c, for |-> "tool"]
  PROVE  CallTypes'
<1> USE DEF ColonyIInv, CallTypes
<1>1. /\ agent' \in Agents
      /\ agent'.pc # "none" => agent'.row \in Rows
      /\ agent'.for = "orchestrator" => made < MaxRows
  <2>1. CASE agent' = Free
    BY <2>1, FreeTypes
  <2>2. ASSUME NEW pc \in {"install", "wallet", "undo"}, agent.pc # "none",
               agent' = [agent EXCEPT !.pc = pc]
        PROVE  <1>1!:
    BY <2>2 DEF Agents
  <2>3. ASSUME NEW c \in Rows, NEW pc \in {"fund", "start"},
               agent' = [pc |-> pc, row |-> c, for |-> "tool"]
        PROVE  <1>1!:
    BY <2>3 DEF Agents
  <2>4. QED
    BY <2>1, <2>2, <2>3
<1>2. QED
  BY <1>1

LEMMA Transitions ==
  ASSUME ColonyIInv,
         \/ RuntimeInstalled \/ SpawnUndone \/ Funded \/ Started
         \/ \E c \in Rows : StartChild(c)
  PROVE  ColonyIInv'
<1> DEFINE c == agent.row
<1>t. {"runtime_ready", "failed", "funded", "starting", "healthy"} \subseteq Lifecycle
  BY DEF Lifecycle
<1>c. agent.pc # "none" => c \in Rows
  BY DEF ColonyIInv, CallTypes
<1>1. CASE RuntimeInstalled
  <2>1. /\ Transition(c, "runtime_ready") /\ agent.pc # "none"
        /\ agent' = [agent EXCEPT !.pc = "wallet"]
        /\ UNCHANGED <<made, box, address, boxes, prune, probe, heal>>
    BY <1>1 DEF RuntimeInstalled
  <2>2. CallTypes'
    BY <2>1, AgentGoesOn
  <2>3. QED
    BY <1>c, <1>t, <2>1, <2>2, TransitionStep DEF boxes
<1>2. CASE SpawnUndone
  <2>1. /\ Transition(c, "failed") /\ agent.pc # "none"
        /\ agent' = Free
        /\ UNCHANGED <<made, box, address, blamed, prune, probe, heal>>
        /\ up' \subseteq up
    BY <1>2 DEF SpawnUndone
  <2>2. CallTypes'
    BY <2>1, AgentGoesOn
  <2>3. QED
    BY <1>c, <1>t, <2>1, <2>2, TransitionStep
<1>3. CASE Funded
  <2>1. /\ agent.pc # "none" /\ agent' = Free
        /\ UNCHANGED <<made, box, address, boxes, prune, probe, heal>>
    BY <1>3 DEF Funded
  <2>2. CallTypes'
    BY <2>1, AgentGoesOn
  <2>3. CASE Transition(c, "funded")
    BY <1>c, <1>t, <2>1, <2>2, <2>3, TransitionStep DEF boxes
  <2>4. CASE UNCHANGED <<event, status>>
    BY <2>1, <2>2, <2>4, SilentStep DEF rows
  <2>5. QED
    BY <1>3, <2>3, <2>4 DEF Funded
<1>4. CASE Started
  <2>1. /\ Transition(c, "healthy") /\ agent.pc # "none" /\ agent' = Free
        /\ UNCHANGED <<made, box, address, boxes, prune, probe, heal>>
    BY <1>4 DEF Started
  <2>2. CallTypes'
    BY <2>1, AgentGoesOn
  <2>3. QED
    BY <1>c, <1>t, <2>1, <2>2, TransitionStep DEF boxes
<1>5. ASSUME NEW d \in Rows, StartChild(d)
      PROVE  ColonyIInv'
  <2>1. /\ Transition(d, "starting")
        /\ agent' = [pc |-> "start", row |-> d, for |-> "tool"]
        /\ UNCHANGED <<made, box, address, boxes, prune, probe, heal>>
    BY <1>5 DEF StartChild
  <2>2. CallTypes'
    BY <2>1, AgentGoesOn
  <2>3. QED
    BY <1>t, <2>1, <2>2, TransitionStep DEF boxes
<1>6. QED
  BY <1>1, <1>2, <1>3, <1>4, <1>5

\* A spawn that throws: before there is a sandbox it is over, but the sandbox may
\* have been made, which is the incident to blame.
LEMMA ThrowsStep == ASSUME ColonyIInv, SpawnThrows PROVE ColonyIInv'
<1>1. agent.pc # "none" /\ UNCHANGED <<made, box, address, prune, probe, heal>>
  BY DEF SpawnThrows
<1>c. PICK c \in Rows : c = agent.row
  BY <1>1 DEF ColonyIInv, CallTypes
<1>2. CASE agent.pc # "create"
  <2>1. agent' = [agent EXCEPT !.pc = "undo"] /\ UNCHANGED <<status, event, boxes>>
    BY <1>2 DEF SpawnThrows
  <2>2. CallTypes'
    BY <1>1, <2>1, AgentGoesOn
  <2>3. QED
    BY <1>1, <2>1, <2>2, SilentStep DEF rows
<1>3. CASE agent.pc = "create"
  <2>1. /\ Transition(c, "failed") /\ agent' = Free
        /\ UNCHANGED boxes \/ (up' = up \union {c} /\ blamed' = blamed \union {c})
    BY <1>c, <1>3 DEF SpawnThrows
  <2>2. CallTypes'
    BY <1>1, <2>1, AgentGoesOn
  <2>3. "failed" \in Lifecycle
    BY DEF Lifecycle
  <2>4. CASE UNCHANGED boxes
    BY <1>1, <2>1, <2>2, <2>3, <2>4, TransitionStep DEF boxes
  <2>5. CASE up' = up \union {c} /\ blamed' = blamed \union {c}
    <3>1. /\ CanMove(c, "failed")
          /\ event' = [event EXCEPT ![c] = "failed"]
          /\ status' = [status EXCEPT ![c] = "failed"]
      BY <2>1 DEF Transition
    <3>2. RowTypes'
      BY <1>1, <2>3, <2>5, <3>1 DEF ColonyIInv, RowTypes, Statuses
    <3>3. made' \in Nat /\ made <= made' /\ blamed \subseteq blamed'
      BY <1>1, <2>5 DEF ColonyIInv, RowTypes
    <3>4. event'[c] = "failed" /\ status'[c] = "failed"
      BY <1>1, <3>1 DEF ColonyIInv, RowTypes
    <3>5. RowFits(c)' /\ RowKept(c)
      BY <1>1, <3>1, <3>3, <3>4, RowMoves
    <3>6. ASSUME NEW d \in Rows, d # c
          PROVE  RowFits(d)' /\ RowKept(d)
      <4>1. UNCHANGED <<status[d], event[d], box[d], address[d]>>
        BY <1>1, <3>1, <3>6 DEF ColonyIInv, RowTypes
      <4>2. QED
        BY <3>3, <4>1, RowAlone
    <3>7. Kept
      BY <1>1, <2>5, <3>3 DEF Kept
    <3>8. QED
      BY <2>2, <3>2, <3>5, <3>6, <3>7, KeptStep
  <2>6. QED
    BY <2>1, <2>4, <2>5
<1>4. QED
  BY <1>2, <1>3

\* The sandbox is there from this step on, and the row names it.
LEMMA CreatedStep == ASSUME ColonyIInv, SandboxCreated PROVE ColonyIInv'
<1>c. PICK c \in Rows : c = agent.row
  BY DEF SandboxCreated, ColonyIInv, CallTypes
<1>1. /\ agent.pc # "none"
      /\ UNCHANGED <<made, address, blamed, prune, probe, heal>>
      /\ agent' = [agent EXCEPT !.pc = "install"]
      /\ up' = up \union {c}
      /\ box' = [box EXCEPT ![c] = c]
      /\ CanMove(c, "sandbox_created")
      /\ event' = [event EXCEPT ![c] = "sandbox_created"]
      /\ status' = [status EXCEPT ![c] = "sandbox_created"]
  BY <1>c DEF SandboxCreated, Transition
<1>2. CallTypes'
  BY <1>1, AgentGoesOn
<1>3. RowTypes'
  BY <1>1 DEF ColonyIInv, RowTypes, Statuses, Lifecycle
<1>4. made' \in Nat /\ made <= made'
  BY <1>1 DEF ColonyIInv, RowTypes
<1>5. /\ event[c] = "requested"
      /\ event'[c] = "sandbox_created" /\ status'[c] = "sandbox_created" /\ box'[c] = c
  BY <1>1, Moves DEF CanMove, ColonyIInv, RowTypes
<1>6. RowFits(c)' /\ RowKept(c)
  <2>1. RowFits(c) /\ box[c] = 0 /\ ~(c > made')
    BY <1>1, <1>5 DEF ColonyIInv, RowFits
  <2>2. RowFits(c)'
    BY <1>1, <1>5, <2>1 DEF RowFits
  <2>3. 0 \notin up'
    BY <1>3, RowsFinite DEF RowTypes
  <2>4. RowKept(c)
    BY <1>5, <2>1, <2>3 DEF RowKept, Ended
  <2>5. QED
    BY <2>2, <2>4
<1>7. ASSUME NEW d \in Rows, d # c
      PROVE  RowFits(d)' /\ RowKept(d)
  <2>1. UNCHANGED <<status[d], event[d], box[d], address[d]>>
    BY <1>1, <1>7 DEF ColonyIInv, RowTypes
  <2>2. QED
    BY <1>1, <1>4, <2>1, RowAlone
<1>8. Kept
  BY <1>1, <1>4, <1>5 DEF Kept
<1>9. QED
  BY <1>2, <1>3, <1>6, <1>7, <1>8, KeptStep

\* The wallet is verified; for the orchestrator the child gets a second row, the
\* next one, which no prune has in its list.
LEMMA WalletStep == ASSUME ColonyIInv, WalletVerified PROVE ColonyIInv'
<1>1. /\ agent.pc # "none" /\ agent' = Free
      /\ UNCHANGED <<boxes, prune, probe, heal>>
  BY DEF WalletVerified
<1>c. PICK c \in Rows : c = agent.row
  BY <1>1 DEF ColonyIInv, CallTypes
<1>2. /\ CanMove(c, "wallet_verified")
      /\ event' = [event EXCEPT ![c] = "wallet_verified"]
  BY <1>c DEF WalletVerified
<1>l. "wallet_verified" \in Lifecycle
  BY DEF Lifecycle
<1>3. CASE agent.for = "tool"
  <2>1. /\ status' = [status EXCEPT ![c] = "wallet_verified"]
        /\ address' = [address EXCEPT ![c] = c]
        /\ UNCHANGED <<made, box>>
    BY <1>3, <1>c DEF WalletVerified
  <2>2. CallTypes'
    BY <1>1, <2>1, AgentGoesOn
  <2>3. RowTypes'
    BY <1>1, <1>2, <1>l, <2>1 DEF ColonyIInv, RowTypes, Statuses, boxes
  <2>4. made' \in Nat /\ made <= made' /\ blamed \subseteq blamed'
    BY <1>1, <2>1 DEF ColonyIInv, RowTypes, boxes
  <2>5. event'[c] = "wallet_verified" /\ status'[c] = "wallet_verified"
    BY <1>2, <2>1 DEF ColonyIInv, RowTypes
  <2>6. RowFits(c)' /\ RowKept(c)
    BY <1>2, <2>1, <2>4, <2>5, RowMoves
  <2>7. ASSUME NEW d \in Rows, d # c
        PROVE  RowFits(d)' /\ RowKept(d)
    <3>1. UNCHANGED <<status[d], event[d], box[d], address[d]>>
      BY <1>2, <2>1, <2>7 DEF ColonyIInv, RowTypes
    <3>2. QED
      BY <2>4, <3>1, RowAlone
  <2>8. Kept
    BY <1>1, <2>4 DEF Kept, boxes
  <2>9. QED
    BY <2>2, <2>3, <2>6, <2>7, <2>8, KeptStep
<1>4. CASE agent.for # "tool"
  <2>m. PICK m : m = made'
    OBVIOUS
  <2>1. /\ made' = made + 1
        /\ status' = [status EXCEPT ![c] = "wallet_verified", ![m] = "running"]
        /\ address' = [address EXCEPT ![c] = c, ![m] = c]
        /\ box' = [box EXCEPT ![m] = c]
    BY <1>4, <1>c, <2>m DEF WalletVerified
  <2>2. m \in Rows /\ m > made /\ made' \in Nat /\ made <= made' /\ m = made + 1
    BY <1>4, <2>m, <2>1 DEF ColonyIInv, CallTypes, RowTypes, Agents, Rows
  <2>3. status[m] = "absent" /\ event[m] = "none" /\ box[m] = 0
    BY <2>2 DEF ColonyIInv, RowFits
  <2>4. event[c] \notin {"none", "requested"} /\ m # c
    BY <1>2, <2>3, Moves DEF CanMove, ColonyIInv, RowTypes
  <2>5. CallTypes'
    BY <1>1, <2>2, FreeTypes DEF ColonyIInv, CallTypes
  <2>6. RowTypes'
    <3>1. made' \in 0..MaxRows
      BY <2>m, <2>2 DEF Rows
    <3>2. status' \in [Rows -> Statuses]
      BY <1>l, <2>1 DEF ColonyIInv, RowTypes, Statuses
    <3>3. event' \in [Rows -> Lifecycle \union {"none"}]
      BY <1>2, <1>l DEF ColonyIInv, RowTypes
    <3>4. box' \in [Rows -> Rows \union {0}] /\ address' \in [Rows -> Rows \union {0}]
      BY <2>1 DEF ColonyIInv, RowTypes
    <3>5. QED
      BY <1>1, <3>1, <3>2, <3>3, <3>4 DEF ColonyIInv, RowTypes, boxes
  <2>7. blamed \subseteq blamed'
    BY <1>1 DEF boxes
  <2>8. /\ event'[c] = "wallet_verified" /\ status'[c] = "wallet_verified"
        /\ box'[c] = box[c]
        /\ event'[m] = "none" /\ status'[m] = "running" /\ box'[m] = c
    BY <1>2, <2>1, <2>2, <2>3, <2>4 DEF ColonyIInv, RowTypes
  <2>9. RowFits(c)' /\ RowKept(c)
    BY <1>2, <2>2, <2>7, <2>8, RowMoves
  <2>10. RowFits(m)' /\ RowKept(m)
    <3>1. ~(m > made')
      BY <2>2, <2>1
    <3>2. RowFits(m)'
      BY <2>8, <3>1 DEF RowFits
    <3>3. RowKept(m)
      BY <2>2, <2>3, <2>8 DEF RowKept, Ended
    <3>4. QED
      BY <3>2, <3>3
  <2>11. ASSUME NEW d \in Rows, d # c, d # m
         PROVE  RowFits(d)' /\ RowKept(d)
    <3>1. UNCHANGED <<status[d], event[d], box[d], address[d]>>
      BY <1>2, <2>1, <2>11 DEF ColonyIInv, RowTypes
    <3>2. QED
      BY <2>2, <2>7, <3>1, RowAlone
  <2>12. Kept
    BY <1>1, <2>2, <2>7 DEF Kept, boxes
  <2>13. QED
    BY <2>5, <2>6, <2>9, <2>10, <2>11, <2>12, KeptStep
<1>5. QED
  BY <1>3, <1>4

\* A child that has not ended by its events is counted: whoever writes the column
\* alone writes nothing that takes a row out of the count.
LEMMA SpawnStep ==
  ASSUME ColonyIInv, NEW for \in {"tool", "orchestrator"}, Spawn(for)
  PROVE  ColonyIInv'
<1>m. PICK m : m = made'
  OBVIOUS
<1>1. /\ made + (IF for = "tool" THEN 1 ELSE 2) <= MaxRows
      /\ made' = made + 1
      /\ status' = [status EXCEPT ![m] = "requested"]
      /\ event' = [event EXCEPT ![m] = "requested"]
      /\ agent' = [pc |-> "create", row |-> m, for |-> for]
      /\ UNCHANGED <<box, address, up, blamed, prune, probe, heal>>
      /\ Cardinality(Counted) < MaxChildren
  BY <1>m DEF Spawn, boxes
<1>2. m \in Rows /\ m > made /\ made' \in 0..MaxRows /\ m = made + 1
  BY <1>m, <1>1 DEF ColonyIInv, RowTypes, Rows
<1>3. status[m] = "absent" /\ event[m] = "none" /\ box[m] = 0 /\ address[m] = 0
  BY <1>2 DEF ColonyIInv, RowFits
<1>4. RowTypes'
  BY <1>1, <1>2 DEF ColonyIInv, RowTypes, Statuses, Lifecycle
<1>5. CallTypes'
  <2>1. for = "orchestrator" => made' < MaxRows
    BY <1>1, <1>2 DEF ColonyIInv, RowTypes
  <2>2. agent' \in Agents /\ agent'.row = m /\ agent'.for = for
    BY <1>1, <1>2 DEF Agents
  <2>3. QED
    BY <1>1, <1>2, <2>1, <2>2 DEF ColonyIInv, CallTypes
<1>6. /\ event'[m] = "requested" /\ status'[m] = "requested"
      /\ \A d \in Rows \ {m} : event'[d] = event[d] /\ status'[d] = status[d]
  BY <1>1, <1>2 DEF ColonyIInv, RowTypes
<1>7. \A c \in Rows : RowFits(c)'
  <2>1. RowFits(m)'
    <3>1. ~(m > made') /\ box'[m] = 0 /\ address'[m] = 0
      BY <1>1, <1>2, <1>3
    <3>2. QED
      BY <1>6, <3>1 DEF RowFits
  <2>2. ASSUME NEW d \in Rows, d # m
        PROVE  RowFits(d)'
    <3>1. made' \in Nat /\ made <= made' /\ blamed \subseteq blamed'
      BY <1>1, <1>2 DEF ColonyIInv, RowTypes
    <3>2. UNCHANGED <<status[d], event[d], box[d], address[d]>>
      BY <1>1, <1>6, <2>2
    <3>3. QED
      BY <3>1, <3>2, RowAlone
  <2>3. QED
    BY <2>1, <2>2
<1>8. PrunedFits'
  <2> SUFFICES ASSUME NEW p \in Pruners, NEW c \in prune[p].todo
               PROVE  /\ c <= made'
                      /\ event'[c] # "requested"
                      /\ event'[c] = "failed" \/ box'[c] \in blamed' \union {0}
    BY <1>1 DEF PrunedFits
  <2>1. c \in Rows
    BY DEF ColonyIInv, CallTypes, Prunes
  <2>2. /\ c <= made
        /\ event[c] # "requested"
        /\ event[c] = "failed" \/ box[c] \in blamed \union {0}
    BY DEF ColonyIInv, PrunedFits
  <2>3. c # m /\ c <= made'
    BY <1>1, <1>2, <2>1, <2>2 DEF Rows, ColonyIInv, RowTypes
  <2>4. QED
    BY <1>1, <1>6, <2>1, <2>2, <2>3
<1>9. SandboxesHaveRows'
  <2> SUFFICES ASSUME NEW b \in up \ blamed
               PROVE  \E c \in Rows : status'[c] # "absent" /\ box[c] = b
    BY <1>1 DEF SandboxesHaveRows, Present
  <2>1. PICK c \in Rows : status[c] # "absent" /\ box[c] = b
    BY DEF ColonyIInv, SandboxesHaveRows, Present
  <2>2. QED
    BY <1>3, <1>6, <2>1
<1>10. ChildrenWithinLimit'
  <2> DEFINE E == {c \in Rows : event[c] \notin Ended}
             F == {c \in Rows : event'[c] \notin Ended}
  <2>1. ASSUME NEW c \in Rows, event[c] \notin Ended
        PROVE  status[c] \notin {"absent", "dead", "cleaned_up", "failed"}
    <3>1. RowFits(c) /\ event[c] \in Lifecycle
      BY <2>1 DEF ColonyIInv, RowTypes, Ended
    <3>2. event[c] \notin {"absent", "dead", "cleaned_up", "failed", "none"}
      BY <2>1, <3>1 DEF Lifecycle, Ended
    <3>3. QED
      BY <3>1, <3>2 DEF RowFits
  <2>2. E \subseteq Counted /\ IsFiniteSet(Counted) /\ IsFiniteSet(E)
    BY <2>1, RowsFinite, FS_Subset DEF Counted
  <2>3. Cardinality(E) <= Cardinality(Counted)
    BY <2>2, FS_Subset
  <2>4. F = E \union {m} /\ m \notin E
    BY <1>2, <1>3, <1>6 DEF Ended
  <2>5. Cardinality(F) = Cardinality(E) + 1
    BY <2>2, <2>4, FS_AddElement
  <2>6. Cardinality(E) \in Nat /\ Cardinality(Counted) \in Nat
    BY <2>2, FS_CardinalityType
  <2>7. Cardinality(F) <= MaxChildren
    BY <1>1, <2>3, <2>5, <2>6
  <2>8. QED
    BY <2>7 DEF ChildrenWithinLimit, Ended
<1>11. QED
  BY <1>4, <1>5, <1>7, <1>8, <1>9, <1>10 DEF ColonyIInv

\* What is dead by the column has failed, or was stopped without an event.
LEMMA PruneBeginsStep ==
  ASSUME ColonyIInv, NEW p \in Pruners, PruneBegins(p)
  PROVE  ColonyIInv'
<1>1. /\ UNCHANGED <<rows, boxes, agent, probe, heal>>
      /\ prune' = [prune EXCEPT ![p].todo = Oldest(Dead, Cardinality(Dead) - KeepLast)]
  BY DEF PruneBegins
<1>2. UNCHANGED <<made, status, event, box, address, up, blamed>>
  BY <1>1 DEF rows, boxes
<1>3. PICK list : /\ list = Oldest(Dead, Cardinality(Dead) - KeepLast)
                  /\ list \subseteq Dead
  BY DEF Oldest
<1>4. Dead \subseteq Rows
  BY DEF Dead
<1>5. prune' = [prune EXCEPT ![p].todo = list]
  BY <1>1, <1>3
<1>6. CallTypes'
  <2>1. prune' \in [Pruners -> Prunes]
    BY <1>3, <1>4, <1>5 DEF ColonyIInv, CallTypes, Prunes
  <2>2. QED
    BY <1>1, <1>2, <2>1 DEF ColonyIInv, CallTypes
<1>7. PrunedFits'
  <2> SUFFICES ASSUME NEW q \in Pruners, NEW c \in prune'[q].todo
               PROVE  /\ c <= made
                      /\ event[c] # "requested"
                      /\ event[c] = "failed" \/ box[c] \in blamed \union {0}
    BY <1>2 DEF PrunedFits
  <2>1. CASE c \in prune[q].todo
    BY <2>1 DEF ColonyIInv, PrunedFits
  <2>2. CASE c \notin prune[q].todo
    <3>1. c \in Dead
      BY <1>3, <1>5, <2>2 DEF ColonyIInv, CallTypes, Prunes
    <3>2. c \in Rows /\ status[c] \in {"failed", "stopped"}
      BY <3>1 DEF Dead, ColonyIInv, RowTypes, Statuses, Lifecycle
    <3>3. RowFits(c)
      BY <3>2 DEF ColonyIInv
    <3>4. c <= made
      BY <3>2, <3>3, RowsFinite DEF RowFits, ColonyIInv, RowTypes
    <3>5. QED
      BY <3>2, <3>3, <3>4 DEF RowFits
  <2>3. QED
    BY <2>1, <2>2
<1>8. RowTypes'
  BY <1>2 DEF ColonyIInv, RowTypes
<1>9. \A c \in Rows : RowFits(c)'
  BY <1>2 DEF ColonyIInv, RowFits
<1>10. SandboxesHaveRows' /\ ChildrenWithinLimit'
  BY <1>2 DEF ColonyIInv, SandboxesHaveRows, ChildrenWithinLimit, Present
<1>11. QED
  BY <1>6, <1>7, <1>8, <1>9, <1>10 DEF ColonyIInv

\* A row goes whose sandbox is deleted, or to blame on an incident.
LEMMA DeleteStep ==
  ASSUME ColonyIInv, NEW p \in Pruners, NEW c \in Rows, DeleteRow(p, c),
         UNCHANGED <<made, agent, probe, heal>>,
         up' \subseteq up, blamed \subseteq blamed', blamed' \subseteq Rows \union {0},
         box[c] \notin up' \ blamed'
  PROVE  ColonyIInv'
<1>1. /\ status' = [status EXCEPT ![c] = "absent"]
      /\ event' = [event EXCEPT ![c] = "none"]
      /\ box' = [box EXCEPT ![c] = 0]
      /\ address' = [address EXCEPT ![c] = 0]
      /\ prune' = [prune EXCEPT ![p] = [todo |-> prune[p].todo \ {c}, deleting |-> FALSE]]
  BY DEF DeleteRow
<1>2. [todo |-> prune[p].todo \ {c}, deleting |-> FALSE] \in Prunes
  <2>1. FALSE \in BOOLEAN /\ prune[p].todo \ {c} \in SUBSET Rows
    BY DEF ColonyIInv, CallTypes, Prunes
  <2>2. QED
    BY <2>1 DEF Prunes
<1>3. CallTypes'
  <2>1. prune' \in [Pruners -> Prunes]
    BY <1>1, <1>2 DEF ColonyIInv, CallTypes
  <2>2. QED
    BY <2>1 DEF ColonyIInv, CallTypes
<1>4. RowTypes'
  BY <1>1 DEF ColonyIInv, RowTypes, Statuses
<1>5. made' \in Nat /\ made <= made'
  BY DEF ColonyIInv, RowTypes
<1>6. RowFits(c)' /\ RowKept(c)
  <2>1. status'[c] = "absent" /\ event'[c] = "none" /\ box'[c] = 0 /\ address'[c] = 0
    BY <1>1 DEF ColonyIInv, RowTypes
  <2>2. QED
    BY <2>1 DEF RowFits, RowKept, Ended
<1>7. ASSUME NEW d \in Rows, d # c
      PROVE  RowFits(d)' /\ RowKept(d)
  <2>1. UNCHANGED <<status[d], event[d], box[d], address[d]>>
    BY <1>1, <1>7 DEF ColonyIInv, RowTypes
  <2>2. QED
    BY <1>5, <2>1, RowAlone
<1>8. Kept
  <2>1. \A q \in Pruners : prune'[q].todo \subseteq prune[q].todo
    BY <1>1 DEF ColonyIInv, CallTypes
  <2>2. QED
    BY <1>5, <2>1 DEF Kept
<1>9. QED
  BY <1>3, <1>4, <1>6, <1>7, <1>8, KeptStep

LEMMA PruneStep ==
  ASSUME ColonyIInv, NEW p \in Pruners, PruneNext(p) \/ SandboxDeleted(p)
  PROVE  ColonyIInv'
<1>1. ASSUME NEW c \in Rows, IsNext(p, c), ~(Cleanable(c) /\ box[c] # 0), DeleteRow(p, c),
             UNCHANGED <<made, boxes, agent, probe, heal>>
      PROVE  ColonyIInv'
  <2>1. c \in prune[p].todo /\ RowFits(c)
    BY <1>1 DEF IsNext, ColonyIInv
  <2>2. box[c] \in blamed \union {0}
    BY <1>1, <2>1 DEF ColonyIInv, PrunedFits, Cleanable
  <2>3. /\ UNCHANGED <<made, agent, probe, heal>>
        /\ up' = up /\ blamed' = blamed
        /\ blamed \subseteq Rows \union {0} /\ 0 \notin up
    BY <1>1, RowsFinite DEF boxes, ColonyIInv, RowTypes
  <2>4. QED
    BY <1>1, <2>2, <2>3, DeleteStep
<1>2. ASSUME NEW c \in Rows, prune' = [prune EXCEPT ![p].deleting = TRUE],
             UNCHANGED <<status, event, box, address>>,
             UNCHANGED <<made, boxes, agent, probe, heal>>
      PROVE  ColonyIInv'
  <2>1. /\ prune' \in [Pruners -> Prunes]
        /\ \A q \in Pruners : prune'[q].todo = prune[q].todo
    BY <1>2 DEF ColonyIInv, CallTypes, Prunes
  <2>2. CallTypes'
    BY <1>2, <2>1 DEF ColonyIInv, CallTypes
  <2>3. RowTypes'
    BY <1>2 DEF ColonyIInv, RowTypes, boxes
  <2>4. made' \in Nat /\ made <= made' /\ blamed \subseteq blamed'
    BY <1>2 DEF ColonyIInv, RowTypes, boxes
  <2>5. Kept
    BY <1>2, <2>1, <2>4 DEF Kept, boxes
  <2>6. \A d \in Rows : RowFits(d)' /\ RowKept(d)
    BY <1>2, <2>4, RowAlone
  <2>7. QED
    BY <2>2, <2>3, <2>5, <2>6, KeptStep
<1>3. CASE PruneNext(p)
  BY <1>1, <1>2, <1>3 DEF PruneNext
<1>4. CASE SandboxDeleted(p)
  <2>1. PICK c \in Rows :
          /\ DeleteRow(p, c)
          /\ UNCHANGED <<made, agent, probe, heal>>
          /\ \/ up' = up \ {box[c]} /\ blamed' = blamed
             \/ blamed' = blamed \union {box[c]} /\ up' = up
    BY <1>4 DEF SandboxDeleted
  <2>2. /\ up' \subseteq up /\ blamed \subseteq blamed'
        /\ blamed' \subseteq Rows \union {0}
        /\ box[c] \notin up' \ blamed'
    BY <2>1 DEF ColonyIInv, RowTypes
  <2>3. QED
    BY <2>1, <2>2, DeleteStep
<1>5. QED
  BY <1>3, <1>4

\* Answers are applied only where the transition is valid by now.
LEMMA ProbeStep == ASSUME ColonyIInv, ProbeEnds PROVE ColonyIInv'
<1> DEFINE to(c) == IF probe[c] = "healthy" THEN "unhealthy" ELSE "healthy"
<1>1. PICK changed \in SUBSET DOMAIN probe :
        /\ event' = [c \in Rows |-> IF c \in changed /\ CanMove(c, to(c)) THEN to(c) ELSE event[c]]
        /\ status' = [c \in Rows |-> IF c \in changed /\ CanMove(c, to(c)) THEN to(c) ELSE status[c]]
        /\ probe' = [c \in {} |-> "none"]
        /\ UNCHANGED <<made, box, address, boxes, agent, prune, heal>>
  BY DEF ProbeEnds
<1>2. CallTypes'
  BY <1>1 DEF ColonyIInv, CallTypes
<1>3. RowTypes'
  BY <1>1 DEF ColonyIInv, RowTypes, Statuses, Lifecycle, boxes
<1>4. made' \in Nat /\ made <= made' /\ blamed \subseteq blamed'
  BY <1>1 DEF ColonyIInv, RowTypes, boxes
<1>5. ASSUME NEW c \in Rows
      PROVE  RowFits(c)' /\ RowKept(c)
  <2>t. PICK new : new = to(c)
    OBVIOUS
  <2>1. CASE c \in changed /\ CanMove(c, to(c))
    <3>1. /\ new \in {"healthy", "unhealthy"} /\ CanMove(c, new)
          /\ event'[c] = new /\ status'[c] = new
          /\ box'[c] = box[c] /\ address'[c] = address[c]
      BY <1>1, <2>t, <2>1
    <3>2. QED
      BY <1>4, <3>1, RowMoves
  <2>2. CASE ~(c \in changed /\ CanMove(c, to(c)))
    <3>1. UNCHANGED <<status[c], event[c], box[c], address[c]>>
      BY <1>1, <2>2
    <3>2. QED
      BY <1>4, <3>1, RowAlone
  <2>3. QED
    BY <2>1, <2>2
<1>6. Kept
  BY <1>1, <1>4 DEF Kept, boxes
<1>7. QED
  BY <1>2, <1>3, <1>5, <1>6, KeptStep

\* The column alone is written, and a sandbox whose child is stopped is blamed.
LEMMA ColumnStep ==
  ASSUME ColonyIInv, NEW S \in SUBSET Rows, NEW s \in {"stopped", "starting"},
         \A c \in S : status[c] # "absent",
         s = "stopped" => \A c \in S : event[c] # "requested" /\ box[c] \in blamed',
         status' = [c \in Rows |-> IF c \in S THEN s ELSE status[c]],
         blamed \subseteq blamed', blamed' \subseteq Rows \union {0},
         CallTypes', UNCHANGED <<made, event, box, address, up, prune>>
  PROVE  ColonyIInv'
<1>1. RowTypes'
  BY DEF ColonyIInv, RowTypes, Statuses, Lifecycle
<1>2. made' \in Nat /\ made <= made'
  BY DEF ColonyIInv, RowTypes
<1>3. ASSUME NEW c \in Rows
      PROVE  RowFits(c)' /\ RowKept(c)
  <2>1. CASE c \in S
    <3>1. status'[c] = s /\ status[c] # "absent" /\ RowFits(c)
      BY <2>1 DEF ColonyIInv
    <3>2. ~(c > made')
      BY <3>1 DEF RowFits
    <3>3. /\ s # "absent"
          /\ s = "starting" \/ (s = "stopped" /\ event[c] # "requested" /\ box[c] \in blamed')
      BY <2>1
    <3>4. RowFits(c)'
      BY <3>1, <3>2, <3>3 DEF RowFits
    <3>5. RowKept(c)
      BY <3>1, <3>3 DEF RowKept
    <3>6. QED
      BY <3>4, <3>5
  <2>2. CASE c \notin S
    <3>1. UNCHANGED <<status[c], event[c], box[c], address[c]>>
      BY <2>2
    <3>2. QED
      BY <1>2, <3>1, RowAlone
  <2>3. QED
    BY <2>1, <2>2
<1>4. Kept
  BY <1>2 DEF Kept
<1>5. QED
  BY <1>1, <1>3, <1>4, KeptStep

LEMMA MonitorStep ==
  ASSUME ColonyIInv, StopAgent \/ RestartAndReassign \/ Cull
  PROVE  ColonyIInv'
<1>a. ASSUME NEW r \in heal.todo, Healed(r)
      PROVE  Heals(heal')
  <2>1. heal' = [todo |-> heal.todo \ {r}, funding |-> FALSE]
    BY <1>a DEF Healed
  <2>2. \A q \in heal'.todo : q.loop => q.at # 0
    BY <2>1 DEF ColonyIInv, CallTypes, Heals
  <2>3. QED
    BY <2>1, <2>2 DEF Heals
<1>b. \A a : RowOf(a) \subseteq Rows /\ \A c \in RowOf(a) : status[c] # "absent" /\ address[c] = a
  BY DEF RowOf, Present
<1>1. CASE StopAgent
  <2>1. PICK r \in heal.todo :
          /\ r.loop /\ Healed(r) /\ StatusWritten(r.at, "stopped")
          /\ UNCHANGED <<made, event, box, address, up, agent, prune, probe>>
    BY <1>1 DEF StopAgent
  <2>2. CallTypes'
    BY <1>a, <2>1 DEF ColonyIInv, CallTypes
  <2>3. PICK S : S = RowOf(r.at)
    OBVIOUS
  <2>4. /\ status' = [c \in Rows |-> IF c \in S THEN "stopped" ELSE status[c]]
        /\ blamed' = blamed \union {box[c] : c \in S}
    BY <2>1, <2>3 DEF StatusWritten, WithStatus
  <2>5. S \subseteq Rows /\ \A c \in S : status[c] # "absent" /\ address[c] # 0
    BY <1>b, <2>1, <2>3 DEF ColonyIInv, CallTypes, Heals
  <2>6. \A c \in S : event[c] # "requested" /\ box[c] \in blamed'
    BY <2>4, <2>5 DEF ColonyIInv, RowFits
  <2>7. blamed \subseteq blamed' /\ blamed' \subseteq Rows \union {0}
    BY <2>4, <2>5 DEF ColonyIInv, RowTypes
  <2>8. QED
    BY <2>1, <2>2, <2>4, <2>5, <2>6, <2>7, ColumnStep
<1>2. CASE RestartAndReassign
  <2>1. PICK r \in heal.todo :
          /\ Healed(r)
          /\ StatusWritten(r.at, "starting") \/ UNCHANGED <<status, blamed>>
          /\ UNCHANGED <<made, event, box, address, up, agent, prune, probe>>
    BY <1>2 DEF RestartAndReassign
  <2>2. CallTypes'
    BY <1>a, <2>1 DEF ColonyIInv, CallTypes
  <2>3. CASE UNCHANGED <<status, blamed>>
    BY <2>1, <2>2, <2>3, SilentStep DEF rows, boxes
  <2>4. CASE StatusWritten(r.at, "starting")
    <3>1. PICK S : S = RowOf(r.at)
      OBVIOUS
    <3>2. /\ status' = [c \in Rows |-> IF c \in S THEN "starting" ELSE status[c]]
          /\ blamed' = blamed
      BY <2>4, <3>1 DEF StatusWritten, WithStatus
    <3>3. S \subseteq Rows /\ \A c \in S : status[c] # "absent"
      BY <1>b, <3>1
    <3>4. blamed \subseteq blamed' /\ blamed' \subseteq Rows \union {0}
      BY <3>2 DEF ColonyIInv, RowTypes
    <3>5. QED
      BY <2>1, <2>2, <3>2, <3>3, <3>4, ColumnStep
  <2>5. QED
    BY <2>1, <2>3, <2>4
<1>3. CASE Cull
  <2>1. PICK S \in SUBSET {c \in Rows : status[c] \in {"running", "healthy", "sleeping"}} :
          /\ status' = [c \in Rows |-> IF c \in S THEN "stopped" ELSE status[c]]
          /\ blamed' = blamed \union {box[c] : c \in S}
          /\ UNCHANGED <<made, event, box, address, up, agent, prune, probe, heal>>
    BY <1>3 DEF Cull
  <2>2. CallTypes'
    BY <2>1 DEF ColonyIInv, CallTypes
  <2>3. S \in SUBSET Rows /\ \A c \in S : status[c] # "absent"
    BY <2>1
  <2>4. \A c \in S : event[c] # "requested" /\ box[c] \in blamed'
    BY <2>1, <2>3 DEF ColonyIInv, RowFits
  <2>5. blamed \subseteq blamed' /\ blamed' \subseteq Rows \union {0}
    BY <2>1, <2>3 DEF ColonyIInv, RowTypes
  <2>6. QED
    BY <2>1, <2>2, <2>3, <2>4, <2>5, ColumnStep
<1>4. QED
  BY <1>1, <1>2, <1>3

----------------------------------------------------------------------------
(* The invariant and what follows from it.                                 *)

LEMMA ColonyInit == Init => ColonyIInv
<1> SUFFICES ASSUME Init PROVE ColonyIInv
  OBVIOUS
<1>1. RowTypes
  BY DEF Init, RowTypes, Statuses
<1>2. CallTypes
  <2>1. NoPrune \in Prunes
    <3>1. FALSE \in BOOLEAN /\ {} \in SUBSET Rows
      OBVIOUS
    <3>2. QED
      BY <3>1 DEF NoPrune, Prunes
  <2>2. prune \in [Pruners -> Prunes]
    BY <2>1 DEF Init, Pruners
  <2>3. QED
    BY <2>2, FreeTypes DEF Init, CallTypes
<1>3. \A c \in Rows : RowFits(c)
  BY DEF Init, RowFits
<1>4. PrunedFits
  BY DEF Init, PrunedFits, Pruners, NoPrune
<1>5. SandboxesHaveRows
  BY DEF Init, SandboxesHaveRows
<1>6. ChildrenWithinLimit
  <2>1. {c \in Rows : event[c] \notin {"none", "failed", "cleaned_up"}} = {}
    BY DEF Init
  <2>2. QED
    BY <2>1, FS_EmptySet DEF ChildrenWithinLimit
<1>7. QED
  BY <1>1, <1>2, <1>3, <1>4, <1>5, <1>6 DEF ColonyIInv

LEMMA ColonyStep == ColonyIInv /\ [Next]_vars => ColonyIInv'
<1> SUFFICES ASSUME ColonyIInv, [Next]_vars PROVE ColonyIInv'
  OBVIOUS
<1>1. CASE UNCHANGED vars
  <2>1. CallTypes'
    BY <1>1 DEF vars, ColonyIInv, CallTypes
  <2>2. QED
    BY <1>1, <2>1, SilentStep DEF vars, rows, boxes
<1>2. CASE \E p \in {"agent", "heartbeat"} :
             PruneBegins(p) \/ PruneNext(p) \/ SandboxDeleted(p)
  BY <1>2, PruneBeginsStep, PruneStep DEF Pruners
<1>3. CASE Next /\ ~\E p \in {"agent", "heartbeat"} :
                     PruneBegins(p) \/ PruneNext(p) \/ SandboxDeleted(p)
  BY <1>3, SpawnStep, CreatedStep, WalletStep, ThrowsStep, Transitions, SilentActions,
     ProbeStep, MonitorStep DEF Next
<1>4. QED
  BY <1>1, <1>2, <1>3

THEOREM ColonyInvariant == Spec => []ColonyIInv
BY ColonyInit, ColonyStep, PTL DEF Spec

\* A sandbox that runs is named by a row, unless an answer of the service was lost
\* or bad or its child was stopped without an event: no order of spawns, prunes,
\* probes and the monitor deletes a row before its sandbox.
THEOREM NoSandboxLeaks == Spec => []SandboxesHaveRows
<1>1. ColonyIInv => SandboxesHaveRows
  BY DEF ColonyIInv
<1>2. QED
  BY <1>1, ColonyInvariant, PTL

\* No more children than the limit are in the course of their life by their
\* events, although the limit is checked against a column that others write.
THEOREM LimitHolds == Spec => []ChildrenWithinLimit
<1>1. ColonyIInv => ChildrenWithinLimit
  BY DEF ColonyIInv
<1>2. QED
  BY <1>1, ColonyInvariant, PTL
=============================================================================
