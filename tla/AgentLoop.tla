----------------------------- MODULE AgentLoop -----------------------------
(***************************************************************************)
(* The agent loop (automaton/src/agent/loop.ts), the main loop that starts *)
(* it again after each sleep (index.ts) and table inbox_messages, which it *)
(* shares with the poller of the heartbeat (check_social_inbox in          *)
(* heartbeat/tasks.ts) and with the colony messaging of the orchestrator   *)
(* (processInbox in orchestration/messaging.ts).                           *)
(*                                                                         *)
(* A turn is broken where the code awaits: the balances, the tick of the   *)
(* orchestrator, the model, and its tool calls.  The heartbeat acts and    *)
(* the process may be killed at those places; memory is lost then and the  *)
(* database is kept.                                                       *)
(*                                                                         *)
(* Left out: what a turn says and which tool it calls beyond the kinds     *)
(* that the loop tells apart, the memory and the prompt, the amounts of    *)
(* money (module Spending has those), the wake events (HeartbeatScheduler  *)
(* has those), the key agent_state, which is written at every turning      *)
(* point and which nothing here reads but index.ts, just after the loop    *)
(* has set it to sleeping, and failing statements of the database other    *)
(* than the transaction that ends a turn.                                  *)
(*                                                                         *)
(* Definitions whose name ends in _Bug are variants with a bug a change of *)
(* the code could introduce; no action uses them.                          *)
(***************************************************************************)
EXTENDS Integers, FiniteSets

CONSTANTS
  Messages,    \* bound: the messages the relay will ever hold
  MaxClaims,   \* column max_retries of inbox_messages
  Batch,       \* rows claimed by one turn
  MaxErrors,   \* MAX_CONSECUTIVE_ERRORS
  MaxIdle,     \* MAX_IDLE_TURNS
  MaxRepeat,   \* MAX_REPETITIVE_TURNS
  MaxKills     \* bound: how often the process is killed

ASSUME MessagesFinite == IsFiniteSet(Messages)
ASSUME ClaimsPos == MaxClaims \in Nat \ {0}
ASSUME BatchPos == Batch \in Nat \ {0}
ASSUME LimitsPos == {MaxErrors, MaxIdle, MaxRepeat} \subseteq Nat \ {0}
ASSUME KillsNat == MaxKills \in Nat

VARIABLES
  status,      \* of each row of inbox_messages; "absent": not inserted yet
  claims,      \* column retry_count
  routed,      \* rows processInbox has handled: it sets processed_at, not status
  cursor,      \* messages before social_inbox_cursor: they are not polled again
  sleepUntil,  \* key sleep_until is set; its time may be past
  loop,        \* the call of runAgentLoop(): its place and its locals
  reads,       \* ghost: turns that ended with the message in their input
  orphans,     \* ghost: rows claimed, or not yet inserted, when the process was killed
  kills        \* ghost: how often the process was killed

inbox == <<status, claims, routed, cursor>>
ghosts == <<reads, orphans, kills>>
vars == <<status, claims, routed, cursor, sleepUntil, loop,
          reads, orphans, kills>>

\* What the model answers, as the loop tells answers apart: text that ends or
\* that is cut off, tools of IDLE_ONLY_TOOLS only, tools of neither list, tools
\* with one of MUTATING_TOOLS, and sleep, which a policy may refuse.
Answers == {"text", "cut", "status", "read", "work", "sleep", "refused"}
Mutating == {"work", "sleep", "refused"}
ToolAnswers == Answers \ {"text", "cut"}

NoInput == [from |-> "none", shown |-> {}]
Fresh == [pc |-> "down", pending |-> NoInput, claimed |-> {}, input |-> NoInput,
          answer |-> "text", last |-> "text", repeats |-> 0, idleTools |-> 0,
          idle |-> 0, errors |-> 0]

Init ==
  /\ status = [m \in Messages |-> "absent"]
  /\ claims = [m \in Messages |-> 0]
  /\ routed = {}
  /\ cursor = {}
  /\ sleepUntil = FALSE
  /\ loop = Fresh
  /\ reads = [m \in Messages |-> 0]
  /\ orphans = {}
  /\ kills = 0

At(pc) == loop.pc = pc
Goto(pc) == loop' = [loop EXCEPT !.pc = pc]
Up == ~At("down")

(***************************************************************************)
(* The start of runAgentLoop(), which waits for the balances.              *)
(***************************************************************************)
StartLoop ==
  /\ loop.pc \in {"down", "again"}
  /\ sleepUntil' = FALSE
  /\ loop' = [Fresh EXCEPT !.pc = "waking"]
  /\ UNCHANGED <<inbox, ghosts>>

WakeUp ==
  /\ At("waking")
  /\ loop' = [loop EXCEPT !.pc = "top", !.pending = [NoInput EXCEPT !.from = "wakeup"]]
  /\ UNCHANGED <<inbox, sleepUntil, ghosts>>

(***************************************************************************)
(* The first part of a turn.                                               *)
(***************************************************************************)
StaySleeping ==
  /\ At("top")
  /\ sleepUntil
  /\ Goto("asleep")
  /\ UNCHANGED <<inbox, sleepUntil, ghosts>>

\* Rows another consumer has processed are left to it.
Claimable_Bug == {m \in Messages : status[m] = "received" /\ claims[m] < MaxClaims} \ routed
\* The rows claimInboxMessages() selects.
Claimable == {m \in Messages : status[m] = "received" /\ claims[m] < MaxClaims}

\* claimInboxMessages(), which the turn calls unless it has an input.
ClaimNow == loop.pending = NoInput

BeginTurn ==
  /\ At("top")
  /\ \E S \in SUBSET Claimable :
       /\ Cardinality(S) = IF ~ClaimNow THEN 0
                           ELSE IF Cardinality(Claimable) < Batch
                                  THEN Cardinality(Claimable) ELSE Batch
       /\ status' = [m \in Messages |-> IF m \in S THEN "in_progress" ELSE status[m]]
       /\ claims' = [m \in Messages |-> IF m \in S THEN claims[m] + 1 ELSE claims[m]]
       /\ loop' = [loop EXCEPT
            !.pc = "balance", !.claimed = S,
            !.pending = IF S = {} \/ @ # NoInput THEN @
                        ELSE [from |-> "agent", shown |-> S]]
  /\ UNCHANGED <<routed, cursor, sleepUntil, ghosts>>

\* The balances, once more after a top-up.
ReadBalance ==
  /\ At("balance")
  /\ Goto("tick")
  /\ UNCHANGED <<inbox, sleepUntil, ghosts>>

\* orchestrator.tick().  A tick that executes a goal handles every row not
\* processed, also rows this very turn has claimed.
Unprocessed == {m \in Messages : status[m] # "absent" /\ status[m] # "processed"} \ routed

OrchestratorTick ==
  /\ At("tick")
  /\ routed' \in {routed, routed \union Unprocessed}
  /\ Goto("prepared")
  /\ UNCHANGED <<status, claims, cursor, sleepUntil, ghosts>>

\* An input with claimed rows is kept, in case the turn fails.
AskModel_Bug ==
  /\ At("prepared")
  /\ loop' = [loop EXCEPT !.pc = "model", !.input = loop.pending,
                          !.pending = IF loop.claimed = {} THEN NoInput ELSE @]
  /\ UNCHANGED <<inbox, sleepUntil, ghosts>>

AskModel ==
  /\ At("prepared")
  /\ loop' = [loop EXCEPT !.pc = "model", !.input = loop.pending, !.pending = NoInput]
  /\ UNCHANGED <<inbox, sleepUntil, ghosts>>

ModelAnswers(a) ==
  /\ At("model")
  /\ loop' = [loop EXCEPT !.pc = IF a = "sleep" THEN "tool" ELSE "answered", !.answer = a]
  /\ UNCHANGED <<inbox, sleepUntil, ghosts>>

\* The tool sleep, which is one call among those of the turn.
SleepTool ==
  /\ At("tool")
  /\ sleepUntil' = TRUE
  /\ Goto("answered")
  /\ UNCHANGED <<inbox, ghosts>>

(***************************************************************************)
(* The end of a turn.  One transaction stores the turn and marks the rows  *)
(* it claimed; what follows it up to the next await cannot be interrupted. *)
(***************************************************************************)
\* The rows keep the status the claim gave them.
Acknowledged_Bug == status
Acknowledged ==
  [m \in Messages |-> IF m \in loop.claimed THEN "processed" ELSE status[m]]

\* Turns in a row with the same tools.  A turn without tools does not count.
Repeats(same) ==
  IF loop.answer \notin ToolAnswers THEN loop.repeats
  ELSE IF same THEN loop.repeats + 1 ELSE 1

IdleTools ==
  IF loop.answer \notin ToolAnswers THEN loop.idleTools
  ELSE IF loop.answer # "status" THEN 0
  ELSE IF loop.idleTools < MaxRepeat THEN loop.idleTools + 1 ELSE MaxRepeat

\* The loop detection: a repetition is looked for first, a turn gets one warning.
Detected(same) ==
  LET tools == loop.answer \in ToolAnswers
      repetition == tools /\ Repeats(same) = MaxRepeat
      maintenance == ~repetition /\ loop.answer = "status" /\ IdleTools = MaxRepeat
  IN [loop EXCEPT
        !.repeats = IF repetition THEN 0 ELSE Repeats(same),
        !.last = IF repetition THEN "text" ELSE IF tools THEN loop.answer ELSE @,
        !.idleTools = IF maintenance THEN 0 ELSE IdleTools,
        !.pending = IF repetition \/ maintenance
                      THEN [NoInput EXCEPT !.from = "system"] ELSE @]

\* Turns without input and without work.
IdleTurns ==
  IF loop.input = NoInput /\ loop.answer \notin Mutating THEN loop.idle + 1 ELSE 0

Rest(l) == loop' = [l EXCEPT !.pc = "asleep"]

EndTurn ==
  /\ At("answered")
  /\ status' = Acknowledged
  /\ reads' = [m \in Messages |->
       IF m \in loop.input.shown THEN reads[m] + 1 ELSE reads[m]]
  /\ \E same \in {FALSE, loop.last = loop.answer} :
       LET next == [Detected(same) EXCEPT !.pc = "top", !.claimed = {}, !.input = NoInput,
                                          !.answer = "text", !.errors = 0]
       IN IF loop.answer = "sleep"
            THEN /\ Rest(next)
                 /\ UNCHANGED sleepUntil
          ELSE IF loop.answer = "text" \/ IdleTurns >= MaxIdle
            THEN /\ Rest(next)
                 /\ sleepUntil' = TRUE
          ELSE /\ loop' = [next EXCEPT !.idle = IdleTurns]
               /\ UNCHANGED <<sleepUntil>>
  /\ UNCHANGED <<claims, routed, cursor, orphans, kills>>

AfterFailure(m) == IF claims[m] >= MaxClaims THEN "failed" ELSE "received"

\* The catch of a turn.  An input that was not yet taken stays pending.
TurnFails ==
  /\ loop.pc \in {"balance", "tick", "prepared", "model", "tool", "answered"}
  /\ status' = [m \in Messages |->
       IF m \in loop.claimed THEN AfterFailure(m) ELSE status[m]]
  /\ LET next == [loop EXCEPT !.pc = "top", !.claimed = {}, !.input = NoInput,
                              !.answer = "text", !.errors = @ + 1]
     IN IF next.errors >= MaxErrors
          THEN /\ Rest(next)
               /\ sleepUntil' = TRUE
          ELSE /\ loop' = next
               /\ UNCHANGED <<sleepUntil>>
  /\ UNCHANGED <<claims, routed, cursor, ghosts>>

(***************************************************************************)
(* The main loop.  It reads agent_state in the step the agent loop ends    *)
(* in, so it finds sleeping, and its branch for the dead is not reached.   *)
(* It waits for the end of the sleep or for a wake event.                  *)
(***************************************************************************)
WakeOrTimeUp ==
  /\ At("asleep")
  /\ sleepUntil' = FALSE
  /\ loop' = [Fresh EXCEPT !.pc = "again"]
  /\ UNCHANGED <<inbox, reads, orphans, kills>>

\* Killed, or told to stop.
Exit ==
  /\ Up
  /\ kills < MaxKills
  /\ kills' = kills + 1
  /\ orphans' = orphans \union loop.claimed
  /\ loop' = Fresh
  /\ UNCHANGED <<inbox, sleepUntil, reads>>

(***************************************************************************)
(* The heartbeat beside it.                                                *)
(***************************************************************************)
\* Rows that are in the inbox already are ignored.
Stored(new) ==
  [m \in Messages |-> IF m \in new /\ status[m] = "absent" THEN "received" ELSE status[m]]

\* check_social_inbox.  A relay that gives no cursor gives the messages again.
Poll ==
  /\ Up
  /\ \E new \in (SUBSET (Messages \ cursor)) \ {{}} :
       /\ cursor' \in {cursor, cursor \union new}
       /\ status' = Stored(new)
       /\ UNCHANGED <<claims, routed, sleepUntil, loop, ghosts>>

\* The cursor is stored before the rows: those not inserted when the process is
\* killed are not polled again.
PollCutShort ==
  /\ Up
  /\ kills < MaxKills
  /\ kills' = kills + 1
  /\ \E new \in (SUBSET (Messages \ cursor)) \ {{}} : \E lost \in SUBSET new :
       /\ cursor' = cursor \union new
       /\ status' = Stored(new \ lost)
       /\ orphans' = orphans \union loop.claimed \union {m \in lost : status[m] = "absent"}
  /\ loop' = Fresh
  /\ UNCHANGED <<claims, routed, sleepUntil, reads>>

Turn ==
  \/ StartLoop \/ WakeUp \/ StaySleeping \/ BeginTurn \/ ReadBalance
  \/ OrchestratorTick \/ AskModel \/ (\E a \in Answers : ModelAnswers(a))
  \/ SleepTool \/ EndTurn \/ WakeOrTimeUp

Next == Turn \/ TurnFails \/ Exit \/ Poll \/ PollCutShort

Spec == Init /\ [][Next]_vars

\* Timers fire and calls are answered or time out, so the loop goes on.  Nothing is
\* assumed of what the model answers or of whether a turn fails.
FairSpec == Spec /\ WF_vars(Turn)

-----------------------------------------------------------------------------
Inputs == [from : {"none", "wakeup", "system", "agent"}, shown : SUBSET Messages]
Places == {"down", "again", "waking", "top", "balance", "tick", "prepared", "model",
           "tool", "answered", "asleep"}

Calls == [pc : Places, pending : Inputs, claimed : SUBSET Messages, input : Inputs,
          answer : Answers, last : Answers, repeats : 0..(MaxRepeat - 1),
          idleTools : 0..MaxRepeat, idle : 0..(MaxIdle - 1), errors : 0..MaxErrors]

TypeOK ==
  /\ status \in [Messages -> {"absent", "received", "in_progress", "processed", "failed"}]
  /\ claims \in [Messages -> 0..MaxClaims]
  /\ routed \subseteq Messages
  /\ cursor \subseteq Messages
  /\ sleepUntil \in BOOLEAN
  /\ loop \in Calls
  /\ reads \in [Messages -> Nat]
  /\ orphans \subseteq Messages
  /\ kills \in 0..MaxKills

\* Every row is where somebody will look at it or is rightly settled.  A row
\* waiting can still be claimed, none is left with its claims used up.  A row in
\* progress is held by the turn under way, unless the process was killed under
\* it: no way out of a turn, by sleep, warning or error, forgets what it claimed.
\* A row is marked processed only if a turn ended that had it in its input.
RowsAccountedFor ==
  /\ \A m \in Messages : status[m] = "received" => claims[m] < MaxClaims
  /\ loop.claimed \subseteq {m \in Messages : status[m] = "in_progress"}
  /\ \A m \in Messages : status[m] = "in_progress" => m \in loop.claimed \union orphans
  /\ \A m \in Messages : status[m] = "processed" => reads[m] > 0

\* Delivery is at least once, with a bound: a message is read in no more turns
\* than it was claimed in, although a failed turn may hand its input on.
ReadsWithinClaims == \A m \in Messages : reads[m] <= claims[m]

\* Turns go on to end in which the agent uses tools other than sleep: it may fail,
\* be killed, write text and sleep in between as often as it likes.
AgentKeepsWorking == []<><<EndTurn /\ loop.answer \in ToolAnswers \ {"sleep"}>>_vars

\* The message of an agent that keeps working is at some time processed or given up,
\* or its row is one that a killed process left behind: no way through wake-ups,
\* warnings of the loop detection, failures and sleep leaves it waiting for ever.
\* The first turn after a start has the wake-up for its input and claims nothing, so
\* that the message of an agent that answers each wake-up with text or sleep waits.
MessageSettles ==
  AgentKeepsWorking =>
    \A m \in Messages :
      status[m] = "received" ~> status[m] \in {"processed", "failed"} \/ m \in orphans
=============================================================================
