-------------------------- MODULE AgentLoopProofs --------------------------
(***************************************************************************)
(* Safety of module AgentLoop, for any messages and any limits.            *)
(*                                                                         *)
(* The two invariants are about rows; what makes them inductive is where   *)
(* the messages of a turn are.  ReadsLeft counts the reading that a        *)
(* message is still to get from an input that waits (pending) or is at     *)
(* the model (input) together with those it got: each claim pays for one.  *)
(* ClaimedIsShown says which of the two inputs holds the claimed rows, so  *)
(* that a turn acknowledges only what the model has seen.                  *)
(***************************************************************************)
EXTENDS AgentLoop, FiniteSetTheorems, TLAPS

In(m, an_input) == IF m \in an_input.shown THEN 1 ELSE 0

ReadsLeft ==
  \A m \in Messages : reads[m] + In(m, loop.pending) + In(m, loop.input) <= claims[m]

BeforeModel == {"balance", "tick", "prepared"}
AfterModel == {"model", "tool", "answered"}

ClaimedIsShown ==
  /\ loop.pc \in BeforeModel => loop.claimed \subseteq loop.pending.shown
  /\ loop.pc \in AfterModel => loop.claimed \subseteq loop.input.shown
  /\ loop.pc \notin BeforeModel \union AfterModel => loop.claimed = {}

\* Only a loop that sleeps has used up its errors.
ErrorsLeft == loop.pc # "asleep" => loop.errors < MaxErrors

\* A row that is not there was never claimed.
AbsentUnclaimed == \A m \in Messages : status[m] = "absent" => claims[m] = 0

IInv ==
  /\ TypeOK
  /\ RowsAccountedFor
  /\ ReadsLeft
  /\ ClaimedIsShown
  /\ ErrorsLeft
  /\ AbsentUnclaimed

LEMMA Limits ==
  /\ MaxClaims \in Nat \ {0} /\ MaxErrors \in Nat \ {0}
  /\ MaxIdle \in Nat \ {0} /\ MaxRepeat \in Nat \ {0} /\ MaxKills \in Nat
<1> QED  BY ClaimsPos, LimitsPos, KillsNat

LEMMA FreshFits ==
  /\ Fresh \in Calls
  /\ Fresh.pc = "down" /\ Fresh.claimed = {} /\ Fresh.errors = 0
  /\ Fresh.pending = NoInput /\ Fresh.input = NoInput
<1> QED  BY Limits DEF Fresh, Calls, Places, Inputs, NoInput, Answers

\* What the database and the ghosts say, with the loop's claim and inputs as
\* parameters: steps of the loop that leave these alone preserve it.
LEMMA SameRows ==
  ASSUME IInv, UNCHANGED <<inbox, reads, orphans>>, loop' \in Calls,
         loop'.claimed = loop.claimed,
         \A m \in Messages :
           In(m, loop'.pending) + In(m, loop'.input) <= In(m, loop.pending) + In(m, loop.input)
  PROVE  RowsAccountedFor' /\ ReadsLeft' /\ AbsentUnclaimed'
<1>1. RowsAccountedFor' /\ AbsentUnclaimed'
  BY DEF IInv, RowsAccountedFor, AbsentUnclaimed, inbox
<1>2. ReadsLeft'
  <2> SUFFICES ASSUME NEW m \in Messages
      PROVE  (reads[m] + In(m, loop.pending) + In(m, loop.input) <= claims[m])'
    BY DEF ReadsLeft
  <2>1. /\ reads[m] \in Nat /\ claims[m] \in Nat /\ reads'[m] = reads[m] /\ claims'[m] = claims[m]
        /\ reads[m] + In(m, loop.pending) + In(m, loop.input) <= claims[m]
    BY Limits DEF IInv, TypeOK, ReadsLeft, inbox
  <2>2. /\ In(m, loop.pending) \in Nat /\ In(m, loop.input) \in Nat
        /\ In(m, loop'.pending) \in Nat /\ In(m, loop'.input) \in Nat
        /\ In(m, loop'.pending) + In(m, loop'.input) <= In(m, loop.pending) + In(m, loop.input)
    BY DEF In
  <2>3. In(m, loop.pending)' = In(m, loop'.pending) /\ In(m, loop.input)' = In(m, loop'.input)
    BY DEF In
  <2> QED  BY <2>1, <2>2, <2>3
<1> QED  BY <1>1, <1>2

LEMMA InitInv == Init => IInv
<1> SUFFICES ASSUME Init PROVE IInv
  OBVIOUS
<1>1. TypeOK
  <2>1. claims \in [Messages -> 0..MaxClaims] /\ kills \in 0..MaxKills
    BY Limits DEF Init
  <2>2. /\ status \in [Messages -> {"absent", "received", "in_progress", "processed", "failed"}]
        /\ reads \in [Messages -> Nat]
    BY DEF Init
  <2> QED  BY <2>1, <2>2, FreshFits DEF Init, TypeOK
<1>2. RowsAccountedFor /\ AbsentUnclaimed
  BY FreshFits DEF Init, RowsAccountedFor, AbsentUnclaimed
<1>3. ReadsLeft
  BY FreshFits DEF Init, ReadsLeft, In, NoInput
<1>4. ClaimedIsShown /\ ErrorsLeft
  BY FreshFits, Limits DEF Init, ClaimedIsShown, ErrorsLeft, BeforeModel, AfterModel
<1> QED  BY <1>1, <1>2, <1>3, <1>4 DEF IInv

(***************************************************************************)
(* Steps that begin a loop or only go on in it.                            *)
(***************************************************************************)
\* A loop that begins holds nothing; what the one before it held must be
\* settled or, after a kill, among the orphans.
LEMMA BeginsFresh ==
  ASSUME IInv, NEW p \in Places, loop' = [Fresh EXCEPT !.pc = p], loop.claimed = {},
         UNCHANGED <<inbox, ghosts>>, sleepUntil' \in BOOLEAN,
         p \notin BeforeModel \union AfterModel \union {"asleep"}
  PROVE  IInv'
<1>1. /\ loop' \in Calls
      /\ loop'.pc = p /\ loop'.claimed = {} /\ loop'.errors = 0
      /\ loop'.pending = NoInput /\ loop'.input = NoInput
  BY FreshFits DEF Calls
<1>2. TypeOK'
  BY <1>1 DEF IInv, TypeOK, inbox, ghosts
<1>3. \A m \in Messages :
        In(m, loop'.pending) + In(m, loop'.input) <= In(m, loop.pending) + In(m, loop.input)
  BY <1>1 DEF In, NoInput
<1>4. RowsAccountedFor' /\ ReadsLeft' /\ AbsentUnclaimed'
  BY <1>1, <1>3, SameRows DEF ghosts
<1>5. ClaimedIsShown' /\ ErrorsLeft'
  BY <1>1, Limits DEF ClaimedIsShown, ErrorsLeft, BeforeModel, AfterModel
<1> QED  BY <1>2, <1>4, <1>5 DEF IInv

LEMMA StartInv == IInv /\ (StartLoop \/ WakeOrTimeUp) => IInv'
<1> SUFFICES ASSUME IInv, StartLoop \/ WakeOrTimeUp PROVE IInv'
  OBVIOUS
<1>1. loop.claimed = {}
  BY DEF IInv, ClaimedIsShown, BeforeModel, AfterModel, StartLoop, WakeOrTimeUp, At
<1>2. CASE StartLoop
  BY <1>1, <1>2, BeginsFresh DEF StartLoop, Places, BeforeModel, AfterModel
<1>3. CASE WakeOrTimeUp
  BY <1>1, <1>3, BeginsFresh DEF WakeOrTimeUp, Places, BeforeModel, AfterModel, ghosts
<1> QED  BY <1>2, <1>3

\* The place changes within BeforeModel, within AfterModel or outside of both.
LEMMA GoesOn ==
  ASSUME IInv, NEW p \in Places, NEW a \in Answers,
         loop' = [loop EXCEPT !.pc = p, !.answer = a],
         loop.pc # "asleep",
         loop.pc \in BeforeModel <=> p \in BeforeModel,
         loop.pc \in AfterModel <=> p \in AfterModel,
         UNCHANGED <<status, claims, reads, orphans, kills>>,
         routed' \subseteq Messages, cursor' = cursor, sleepUntil' \in BOOLEAN
  PROVE  TypeOK' /\ ClaimedIsShown' /\ ErrorsLeft' /\ loop' \in Calls
         /\ loop'.claimed = loop.claimed /\ loop'.pending = loop.pending
         /\ loop'.input = loop.input
<1>1. /\ loop' \in Calls
      /\ loop'.pc = p /\ loop'.claimed = loop.claimed /\ loop'.errors = loop.errors
      /\ loop'.pending = loop.pending /\ loop'.input = loop.input
  BY DEF IInv, TypeOK, Calls
<1>2. TypeOK'
  BY <1>1 DEF IInv, TypeOK
<1>3. ClaimedIsShown' /\ ErrorsLeft'
  BY <1>1 DEF IInv, ClaimedIsShown, ErrorsLeft
<1> QED  BY <1>1, <1>2, <1>3

LEMMA QuietInv ==
  IInv /\ (ReadBalance \/ OrchestratorTick \/ SleepTool \/ \E a \in Answers : ModelAnswers(a))
    => IInv'
<1> SUFFICES ASSUME IInv,
                    ReadBalance \/ OrchestratorTick \/ SleepTool
                    \/ \E a \in Answers : ModelAnswers(a)
             PROVE  IInv'
  OBVIOUS
<1>1. loop \in Calls /\ loop.answer \in Answers /\ Unprocessed \subseteq Messages
      /\ routed \subseteq Messages
  BY DEF IInv, TypeOK, Calls, Unprocessed
<1>2. PICK p \in Places, a \in Answers :
        /\ loop' = [loop EXCEPT !.pc = p, !.answer = a]
        /\ loop.pc # "asleep"
        /\ loop.pc \in BeforeModel <=> p \in BeforeModel
        /\ loop.pc \in AfterModel <=> p \in AfterModel
  <2>1. CASE ReadBalance
    <3>1. loop' = [loop EXCEPT !.pc = "tick", !.answer = loop.answer]
      BY <1>1, <2>1 DEF ReadBalance, Goto, Calls
    <3> QED  BY <1>1, <2>1, <3>1 DEF ReadBalance, At, Places, BeforeModel, AfterModel
  <2>2. CASE OrchestratorTick
    <3>1. loop' = [loop EXCEPT !.pc = "prepared", !.answer = loop.answer]
      BY <1>1, <2>2 DEF OrchestratorTick, Goto, Calls
    <3> QED  BY <1>1, <2>2, <3>1 DEF OrchestratorTick, At, Places, BeforeModel, AfterModel
  <2>3. CASE SleepTool
    <3>1. loop' = [loop EXCEPT !.pc = "answered", !.answer = loop.answer]
      BY <1>1, <2>3 DEF SleepTool, Goto, Calls
    <3> QED  BY <1>1, <2>3, <3>1 DEF SleepTool, At, Places, BeforeModel, AfterModel
  <2>4. ASSUME NEW a \in Answers, ModelAnswers(a)
        PROVE  \E p \in Places, b \in Answers :
                 /\ loop' = [loop EXCEPT !.pc = p, !.answer = b]
                 /\ loop.pc # "asleep"
                 /\ loop.pc \in BeforeModel <=> p \in BeforeModel
                 /\ loop.pc \in AfterModel <=> p \in AfterModel
    BY <2>4 DEF ModelAnswers, At, Places, BeforeModel, AfterModel
  <2> QED  BY <2>1, <2>2, <2>3, <2>4
<1>3. /\ UNCHANGED <<status, claims, reads, orphans, kills>>
      /\ routed' \subseteq Messages /\ cursor' = cursor /\ sleepUntil' \in BOOLEAN
  BY <1>1 DEF IInv, TypeOK, ReadBalance, OrchestratorTick, SleepTool, ModelAnswers, inbox, ghosts
<1>4. /\ TypeOK' /\ ClaimedIsShown' /\ ErrorsLeft'
      /\ loop' \in Calls /\ loop'.claimed = loop.claimed
      /\ loop'.pending = loop.pending /\ loop'.input = loop.input
  BY <1>2, <1>3, GoesOn
<1>5. RowsAccountedFor' /\ ReadsLeft' /\ AbsentUnclaimed'
  BY <1>3, <1>4 DEF IInv, RowsAccountedFor, ReadsLeft, AbsentUnclaimed, In
<1> QED  BY <1>4, <1>5 DEF IInv

LEMMA WakeUpInv == IInv /\ (WakeUp \/ StaySleeping \/ AskModel) => IInv'
<1> SUFFICES ASSUME IInv, WakeUp \/ StaySleeping \/ AskModel PROVE IInv'
  OBVIOUS
<1>1. loop \in Calls /\ NoInput \in Inputs /\ [NoInput EXCEPT !.from = "wakeup"] \in Inputs
      /\ NoInput.shown = {} /\ [NoInput EXCEPT !.from = "wakeup"].shown = {}
  BY DEF IInv, TypeOK, NoInput, Inputs
<1>2. CASE WakeUp
  <2>1. /\ loop' \in Calls /\ loop'.pc = "top" /\ loop'.claimed = loop.claimed
        /\ loop'.pending.shown = {} /\ loop'.input = loop.input /\ loop'.errors = loop.errors
    BY <1>1, <1>2 DEF WakeUp, Calls, Places
  <2>2. \A m \in Messages :
          In(m, loop'.pending) + In(m, loop'.input) <= In(m, loop.pending) + In(m, loop.input)
    BY <2>1 DEF In
  <2>3. ClaimedIsShown' /\ ErrorsLeft'
    BY <1>2, <2>1 DEF WakeUp, At, IInv, ClaimedIsShown, ErrorsLeft, BeforeModel, AfterModel
  <2>4. TypeOK'
    BY <1>2, <2>1 DEF WakeUp, IInv, TypeOK, inbox, ghosts
  <2> QED  BY <1>2, <2>1, <2>2, <2>3, <2>4, SameRows DEF WakeUp, ghosts, IInv
<1>3. CASE StaySleeping
  <2>1. /\ loop' \in Calls /\ loop'.pc = "asleep" /\ loop'.claimed = loop.claimed
        /\ loop'.pending = loop.pending /\ loop'.input = loop.input
    BY <1>1, <1>3 DEF StaySleeping, Goto, Calls, Places
  <2>2. \A m \in Messages :
          In(m, loop'.pending) + In(m, loop'.input) <= In(m, loop.pending) + In(m, loop.input)
    BY <2>1 DEF In
  <2>3. ClaimedIsShown' /\ ErrorsLeft'
    BY <1>3, <2>1 DEF StaySleeping, At, IInv, ClaimedIsShown, ErrorsLeft, BeforeModel, AfterModel
  <2>4. TypeOK'
    BY <1>3, <2>1 DEF StaySleeping, IInv, TypeOK, inbox, ghosts
  <2> QED  BY <1>3, <2>1, <2>2, <2>3, <2>4, SameRows DEF StaySleeping, ghosts, IInv
<1>4. CASE AskModel
  <2>1. /\ loop' \in Calls /\ loop'.pc = "model" /\ loop'.claimed = loop.claimed
        /\ loop'.pending.shown = {} /\ loop'.input = loop.pending /\ loop'.errors = loop.errors
    BY <1>1, <1>4 DEF AskModel, Calls, Places
  <2>2. \A m \in Messages :
          In(m, loop'.pending) + In(m, loop'.input) <= In(m, loop.pending) + In(m, loop.input)
    BY <2>1 DEF In
  <2>3. ClaimedIsShown' /\ ErrorsLeft'
    BY <1>4, <2>1 DEF AskModel, At, IInv, ClaimedIsShown, ErrorsLeft, BeforeModel, AfterModel
  <2>4. TypeOK'
    BY <1>4, <2>1 DEF AskModel, IInv, TypeOK, inbox, ghosts
  <2> QED  BY <1>4, <2>1, <2>2, <2>3, <2>4, SameRows DEF AskModel, ghosts, IInv
<1> QED  BY <1>2, <1>3, <1>4

(***************************************************************************)
(* A turn claims, acknowledges or gives back.                              *)
(***************************************************************************)
\* Rows are claimed only for an input of their own: with an input waiting the
\* claim is empty.
LEMMA BeginTurnInv == IInv /\ BeginTurn => IInv'
<1> SUFFICES ASSUME IInv, BeginTurn PROVE IInv'
  OBVIOUS
<1>1. PICK S \in SUBSET Claimable :
        /\ Cardinality(S) = IF ~ClaimNow THEN 0
                            ELSE IF Cardinality(Claimable) < Batch
                                   THEN Cardinality(Claimable) ELSE Batch
        /\ status' = [m \in Messages |-> IF m \in S THEN "in_progress" ELSE status[m]]
        /\ claims' = [m \in Messages |-> IF m \in S THEN claims[m] + 1 ELSE claims[m]]
        /\ loop' = [loop EXCEPT
             !.pc = "balance", !.claimed = S,
             !.pending = IF S = {} \/ @ # NoInput THEN @
                         ELSE [from |-> "agent", shown |-> S]]
  BY DEF BeginTurn
<1>2. S \subseteq Messages /\ \A m \in S : status[m] = "received" /\ claims[m] < MaxClaims
  BY DEF Claimable
<1>3. S # {} => loop.pending = NoInput
  <2> SUFFICES ASSUME ~ClaimNow PROVE S = {}
    BY DEF ClaimNow
  <2>1. IsFiniteSet(S)
    BY <1>2, MessagesFinite, FS_Subset
  <2>2. Cardinality(S) = 0
    BY <1>1
  <2> QED  BY <2>1, <2>2, FS_EmptySet
<1>4. loop \in Calls /\ loop.claimed = {} /\ loop.pc = "top"
  BY DEF IInv, TypeOK, ClaimedIsShown, BeforeModel, AfterModel, BeginTurn, At
<1>5. /\ loop' \in Calls /\ loop'.pc = "balance" /\ loop'.claimed = S
      /\ loop'.input = loop.input /\ loop'.errors = loop.errors
      /\ loop'.pending.shown = IF S = {} THEN loop.pending.shown ELSE S
  <2>1. CASE S = {}
    BY <1>1, <1>4, <2>1 DEF Calls, Places
  <2>2. CASE S # {}
    <3>1. loop' = [loop EXCEPT !.pc = "balance", !.claimed = S,
                               !.pending = [from |-> "agent", shown |-> S]]
      BY <1>1, <1>3, <2>2
    <3>2. [from |-> "agent", shown |-> S] \in Inputs
      BY <1>2 DEF Inputs
    <3> QED  BY <1>2, <1>4, <2>2, <3>1, <3>2 DEF Calls, Places
  <2> QED  BY <2>1, <2>2
<1>6. \A m \in Messages : claims[m] \in 0..MaxClaims /\ reads[m] \in Nat
  BY DEF IInv, TypeOK
<1>7. TypeOK'
  <2>1. claims' \in [Messages -> 0..MaxClaims]
    BY <1>1, <1>2, <1>6, Limits
  <2>2. status' \in [Messages -> {"absent", "received", "in_progress", "processed", "failed"}]
    BY <1>1 DEF IInv, TypeOK
  <2> QED  BY <1>5, <2>1, <2>2 DEF IInv, TypeOK, BeginTurn, ghosts
<1>8. RowsAccountedFor' /\ AbsentUnclaimed'
  BY <1>1, <1>2, <1>4, <1>5 DEF IInv, RowsAccountedFor, AbsentUnclaimed, BeginTurn, ghosts
<1>9. ReadsLeft'
  <2> SUFFICES ASSUME NEW m \in Messages
      PROVE  (reads[m] + In(m, loop.pending) + In(m, loop.input) <= claims[m])'
    BY DEF ReadsLeft
  <2>1. /\ reads'[m] = reads[m]
        /\ reads[m] + In(m, loop.pending) + In(m, loop.input) <= claims[m]
        /\ In(m, loop.pending) \in {0, 1} /\ In(m, loop.input) \in {0, 1}
        /\ In(m, loop.input)' = In(m, loop.input)
    BY <1>5 DEF IInv, ReadsLeft, BeginTurn, ghosts, In
  <2>2. CASE m \in S
    <3>1. In(m, loop.pending) = 0 /\ In(m, loop.pending)' = 1
      BY <1>3, <1>5, <2>2 DEF In, NoInput
    <3> QED  BY <1>1, <1>6, <2>1, <2>2, <3>1
  <2>3. CASE m \notin S
    <3>1. In(m, loop.pending)' <= In(m, loop.pending) /\ In(m, loop.pending)' \in {0, 1}
      BY <1>5, <2>3 DEF In
    <3> QED  BY <1>1, <1>6, <2>1, <2>3, <3>1
  <2> QED  BY <2>2, <2>3
<1>10. ClaimedIsShown' /\ ErrorsLeft'
  BY <1>4, <1>5 DEF IInv, ClaimedIsShown, ErrorsLeft, BeforeModel, AfterModel
<1> QED  BY <1>7, <1>8, <1>9, <1>10 DEF IInv

\* The fields of the call after a turn, whatever the loop detection found.
LEMMA DetectedFits ==
  ASSUME loop \in Calls, NEW same \in BOOLEAN
  PROVE  /\ Detected(same) \in Calls
         /\ Detected(same).pending \in {loop.pending, [NoInput EXCEPT !.from = "system"]}
<1>1. /\ loop.repeats \in 0..(MaxRepeat - 1) /\ loop.idleTools \in 0..MaxRepeat
      /\ loop.last \in Answers /\ loop.answer \in Answers /\ loop.pending \in Inputs
  BY DEF Calls
<1>2. Repeats(same) \in 0..MaxRepeat /\ IdleTools \in 0..MaxRepeat
  BY <1>1, Limits DEF Repeats, IdleTools
<1>3. [NoInput EXCEPT !.from = "system"] \in Inputs /\ "text" \in Answers
  BY DEF NoInput, Inputs, Answers
<1> DEFINE tools == loop.answer \in ToolAnswers
           repetition == tools /\ Repeats(same) = MaxRepeat
           maintenance == ~repetition /\ loop.answer = "status" /\ IdleTools = MaxRepeat
           r == IF repetition THEN 0 ELSE Repeats(same)
           l == IF repetition THEN "text" ELSE IF tools THEN loop.answer ELSE loop.last
           i == IF maintenance THEN 0 ELSE IdleTools
           n == IF repetition \/ maintenance
                  THEN [NoInput EXCEPT !.from = "system"] ELSE loop.pending
<1>4. Detected(same) = [loop EXCEPT !.repeats = r, !.last = l, !.idleTools = i, !.pending = n]
  BY DEF Detected
<1>5. r \in 0..(MaxRepeat - 1)
  <2>1. CASE tools
    BY <1>2, <2>1, Limits
  <2>2. CASE ~tools
    BY <1>1, <2>2, Limits DEF Repeats
  <2> QED  BY <2>1, <2>2
<1>6. l \in Answers /\ n \in Inputs /\ n \in {loop.pending, [NoInput EXCEPT !.from = "system"]}
  BY <1>1, <1>3
<1>7. i \in 0..MaxRepeat
  BY <1>2, Limits
<1> HIDE DEF r, l, i, n
<1> QED  BY <1>4, <1>5, <1>6, <1>7 DEF Calls

LEMMA EndTurnInv == IInv /\ EndTurn => IInv'
<1> SUFFICES ASSUME IInv, EndTurn PROVE IInv'
  OBVIOUS
<1>1. loop \in Calls /\ loop.pc = "answered" /\ loop.claimed \subseteq loop.input.shown
  BY DEF IInv, TypeOK, ClaimedIsShown, BeforeModel, AfterModel, EndTurn, At
<1>2. PICK same \in BOOLEAN :
        LET next == [Detected(same) EXCEPT !.pc = "top", !.claimed = {}, !.input = NoInput,
                                           !.answer = "text", !.errors = 0]
        IN IF loop.answer = "sleep"
             THEN /\ Rest(next)
                  /\ UNCHANGED sleepUntil
           ELSE IF loop.answer = "text" \/ IdleTurns >= MaxIdle
             THEN /\ Rest(next)
                  /\ sleepUntil' = TRUE
           ELSE /\ loop' = [next EXCEPT !.idle = IdleTurns]
                /\ UNCHANGED <<sleepUntil>>
  BY DEF EndTurn
<1> DEFINE next == [Detected(same) EXCEPT !.pc = "top", !.claimed = {}, !.input = NoInput,
                                          !.answer = "text", !.errors = 0]
<1>3. NoInput \in Inputs /\ NoInput.shown = {} /\ [NoInput EXCEPT !.from = "system"].shown = {}
      /\ "text" \in Answers
  BY DEF NoInput, Inputs, Answers
<1>4. /\ next \in Calls /\ next.pc = "top" /\ next.claimed = {} /\ next.input = NoInput
      /\ next.errors = 0 /\ next.pending \in {loop.pending, [NoInput EXCEPT !.from = "system"]}
  <2> DEFINE d == Detected(same)
  <2>1. d \in Calls /\ d.pending \in {loop.pending, [NoInput EXCEPT !.from = "system"]}
    BY <1>1, DetectedFits
  <2>2. 0 \in 0..MaxErrors
    BY Limits
  <2> HIDE DEF d
  <2>3. LET e == [d EXCEPT !.pc = "top", !.claimed = {}, !.input = NoInput,
                           !.answer = "text", !.errors = 0]
        IN /\ e \in Calls /\ e.pc = "top" /\ e.claimed = {} /\ e.input = NoInput
           /\ e.errors = 0 /\ e.pending = d.pending
    BY <1>3, <2>1, <2>2 DEF Calls, Places
  <2> QED  BY <2>1, <2>3 DEF d
<1>5. loop.idle \in Nat /\ IdleTurns \in Nat
  BY <1>1, Limits DEF Calls, IdleTurns
<1>6. /\ loop' \in Calls /\ loop'.pc \in {"top", "asleep"} /\ loop'.claimed = {}
      /\ loop'.input = NoInput /\ loop'.errors = 0 /\ loop'.pending = next.pending
      /\ sleepUntil' \in BOOLEAN
  <2> HIDE DEF next
  <2>1. CASE Rest(next)
    <3>1. sleepUntil' \in BOOLEAN
      BY <1>2 DEF next, IInv, TypeOK
    <3> QED  BY <1>4, <2>1, <3>1 DEF Rest, Calls, Places
  <2>2. CASE loop' = [next EXCEPT !.idle = IdleTurns] /\ ~(IdleTurns >= MaxIdle)
             /\ UNCHANGED sleepUntil
    <3>1. IdleTurns \in 0..(MaxIdle - 1)
      BY <1>5, <2>2, Limits
    <3> QED  BY <1>4, <2>2, <3>1 DEF Calls, IInv, TypeOK
  <2> QED  BY <1>2, <2>1, <2>2 DEF next
<1> HIDE DEF next
<1>7. /\ status' = [m \in Messages |-> IF m \in loop.claimed THEN "processed" ELSE status[m]]
      /\ reads' = [m \in Messages |->
           IF m \in loop.input.shown THEN reads[m] + 1 ELSE reads[m]]
      /\ UNCHANGED <<claims, routed, cursor, orphans, kills>>
  BY DEF EndTurn, Acknowledged
<1>8. TypeOK'
  BY <1>6, <1>7 DEF IInv, TypeOK
<1>9. RowsAccountedFor' /\ AbsentUnclaimed'
  <2>1. \A m \in Messages : reads[m] \in Nat
    BY DEF IInv, TypeOK
  <2> QED  BY <1>1, <1>6, <1>7, <2>1 DEF IInv, RowsAccountedFor, AbsentUnclaimed
<1>10. ReadsLeft'
  <2> SUFFICES ASSUME NEW m \in Messages
      PROVE  (reads[m] + In(m, loop.pending) + In(m, loop.input) <= claims[m])'
    BY DEF ReadsLeft
  <2>1. /\ reads[m] + In(m, loop.pending) + In(m, loop.input) <= claims[m]
        /\ reads[m] \in Nat /\ claims[m] \in Nat
    BY Limits DEF IInv, ReadsLeft, TypeOK
  <2>2. In(m, loop.pending) \in {0, 1} /\ In(m, loop.input) \in {0, 1}
    BY DEF In
  <2>3. reads'[m] = reads[m] + In(m, loop.input) /\ claims'[m] = claims[m]
    BY <1>7, <2>1 DEF In
  <2>4. In(m, loop.input)' = 0
    BY <1>3, <1>6 DEF In
  <2>5. loop'.pending = loop.pending \/ loop'.pending.shown = {}
    BY <1>3, <1>4, <1>6
  <2>6. In(m, loop.pending)' <= In(m, loop.pending) /\ In(m, loop.pending)' \in {0, 1}
    BY <2>2, <2>5 DEF In
  <2> QED  BY <2>1, <2>2, <2>3, <2>4, <2>6
<1>11. ClaimedIsShown' /\ ErrorsLeft'
  BY <1>6, Limits DEF ClaimedIsShown, ErrorsLeft, BeforeModel, AfterModel
<1> QED  BY <1>8, <1>9, <1>10, <1>11 DEF IInv

LEMMA TurnFailsInv == IInv /\ TurnFails => IInv'
<1> SUFFICES ASSUME IInv, TurnFails PROVE IInv'
  OBVIOUS
<1>1. loop \in Calls /\ loop.pc # "asleep" /\ loop.errors < MaxErrors /\ loop.errors \in Nat
  BY Limits DEF IInv, TypeOK, ErrorsLeft, TurnFails, Calls
<1> DEFINE next == [loop EXCEPT !.pc = "top", !.claimed = {}, !.input = NoInput,
                                !.answer = "text", !.errors = @ + 1]
<1>2. NoInput \in Inputs /\ NoInput.shown = {} /\ "text" \in Answers
  BY DEF NoInput, Inputs, Answers
<1>3. /\ next \in Calls /\ next.pc = "top" /\ next.claimed = {} /\ next.input = NoInput
      /\ next.pending = loop.pending /\ next.errors = loop.errors + 1
  <2>1. loop.errors + 1 \in 0..MaxErrors
    BY <1>1, Limits
  <2> QED  BY <1>1, <1>2, <2>1 DEF Calls, Places
<1>4. /\ status' = [m \in Messages |->
           IF m \in loop.claimed THEN AfterFailure(m) ELSE status[m]]
      /\ IF next.errors >= MaxErrors
           THEN Rest(next) /\ sleepUntil' = TRUE
           ELSE loop' = next /\ UNCHANGED <<sleepUntil>>
      /\ UNCHANGED <<claims, routed, cursor, ghosts>>
  BY DEF TurnFails
<1> HIDE DEF next
<1>5. /\ loop' \in Calls /\ loop'.claimed = {} /\ loop'.input = NoInput
      /\ loop'.pending = loop.pending /\ sleepUntil' \in BOOLEAN
      /\ loop'.pc \in {"top", "asleep"} /\ (loop'.pc = "top" => loop'.errors < MaxErrors)
  <2>1. CASE next.errors >= MaxErrors
    BY <1>3, <1>4, <2>1 DEF Rest, Calls, Places
  <2>2. CASE ~(next.errors >= MaxErrors)
    <3>1. loop' = next /\ next.errors < MaxErrors
      BY <1>1, <1>3, <1>4, <2>2, Limits
    <3> QED  BY <1>3, <1>4, <2>2, <3>1 DEF IInv, TypeOK
  <2> QED  BY <2>1, <2>2
<1>6. \A m \in Messages : AfterFailure(m) \in {"received", "failed"}
                         /\ (AfterFailure(m) = "received" => claims[m] < MaxClaims)
  BY Limits DEF AfterFailure, IInv, TypeOK
<1>7. TypeOK'
  BY <1>4, <1>5, <1>6 DEF IInv, TypeOK, ghosts
<1>8. RowsAccountedFor' /\ AbsentUnclaimed'
  BY <1>4, <1>5, <1>6 DEF IInv, RowsAccountedFor, AbsentUnclaimed, ghosts
<1>9. ReadsLeft'
  <2> SUFFICES ASSUME NEW m \in Messages
      PROVE  (reads[m] + In(m, loop.pending) + In(m, loop.input) <= claims[m])'
    BY DEF ReadsLeft
  <2>1. /\ reads[m] + In(m, loop.pending) + In(m, loop.input) <= claims[m]
        /\ reads[m] \in Nat /\ claims[m] \in Nat
        /\ reads'[m] = reads[m] /\ claims'[m] = claims[m]
    BY <1>4, Limits DEF IInv, ReadsLeft, TypeOK, ghosts
  <2>2. In(m, loop.pending) \in {0, 1} /\ In(m, loop.input) \in {0, 1}
    BY DEF In
  <2>3. In(m, loop.input)' = 0 /\ In(m, loop.pending)' = In(m, loop.pending)
    BY <1>2, <1>5 DEF In
  <2> QED  BY <2>1, <2>2, <2>3
<1>10. ClaimedIsShown' /\ ErrorsLeft'
  BY <1>5 DEF ClaimedIsShown, ErrorsLeft, BeforeModel, AfterModel
<1> QED  BY <1>7, <1>8, <1>9, <1>10 DEF IInv

(***************************************************************************)
(* Kills and the heartbeat.                                                *)
(***************************************************************************)
\* Rows come in only where there were none; the loop goes on or was killed.
LEMMA ArrivalsInv ==
  ASSUME IInv, NEW new \in SUBSET Messages, NEW lost \in SUBSET Messages,
         status' = Stored(new), cursor' \subseteq Messages,
         UNCHANGED <<claims, routed, sleepUntil, reads>>,
         kills' \in 0..MaxKills, orphans' \subseteq Messages,
         \/ loop' = loop /\ orphans' = orphans
         \/ loop' = Fresh /\ orphans' = orphans \union loop.claimed \union lost
  PROVE  IInv'
<1>1. /\ loop' \in Calls
      /\ (loop' = Fresh) => /\ loop'.claimed = {} /\ loop'.pending = NoInput
                            /\ loop'.input = NoInput /\ loop'.pc = "down" /\ loop'.errors = 0
  BY FreshFits DEF IInv, TypeOK
<1>2. status' = [m \in Messages |->
        IF m \in new /\ status[m] = "absent" THEN "received" ELSE status[m]]
  BY DEF Stored
<1>3. TypeOK'
  BY <1>1, <1>2 DEF IInv, TypeOK
<1>4. RowsAccountedFor' /\ AbsentUnclaimed'
  BY <1>1, <1>2, Limits DEF IInv, RowsAccountedFor, AbsentUnclaimed
<1>5. ReadsLeft'
  <2> SUFFICES ASSUME NEW m \in Messages
      PROVE  (reads[m] + In(m, loop.pending) + In(m, loop.input) <= claims[m])'
    BY DEF ReadsLeft
  <2>1. /\ reads[m] + In(m, loop.pending) + In(m, loop.input) <= claims[m]
        /\ reads[m] \in Nat /\ claims[m] \in Nat
        /\ reads'[m] = reads[m] /\ claims'[m] = claims[m]
    BY Limits DEF IInv, ReadsLeft, TypeOK
  <2>2. In(m, loop.pending) \in {0, 1} /\ In(m, loop.input) \in {0, 1}
    BY DEF In
  <2>3. In(m, loop.input)' <= In(m, loop.input) /\ In(m, loop.pending)' <= In(m, loop.pending)
        /\ In(m, loop.input)' \in {0, 1} /\ In(m, loop.pending)' \in {0, 1}
    BY <1>1 DEF In, NoInput
  <2> QED  BY <2>1, <2>2, <2>3
<1>6. ClaimedIsShown' /\ ErrorsLeft'
  BY <1>1, Limits DEF IInv, ClaimedIsShown, ErrorsLeft, BeforeModel, AfterModel
<1> QED  BY <1>3, <1>4, <1>5, <1>6 DEF IInv

LEMMA ExitInv == IInv /\ (Exit \/ Poll \/ PollCutShort) => IInv'
<1> SUFFICES ASSUME IInv, Exit \/ Poll \/ PollCutShort PROVE IInv'
  OBVIOUS
<1>1. loop.claimed \subseteq Messages /\ orphans \subseteq Messages /\ cursor \subseteq Messages
      /\ kills \in 0..MaxKills /\ (kills < MaxKills => kills + 1 \in 0..MaxKills)
  BY Limits DEF IInv, TypeOK, Calls
<1>2. CASE Exit
  <2>1. status = Stored({})
    BY DEF IInv, TypeOK, Stored
  <2> QED  BY <1>1, <1>2, <2>1, ArrivalsInv DEF Exit, inbox
<1>3. CASE Poll
  <2>1. PICK new \in SUBSET Messages :
          cursor' \in {cursor, cursor \union new} /\ status' = Stored(new)
          /\ UNCHANGED <<claims, routed, sleepUntil, loop, ghosts>>
    BY <1>3 DEF Poll
  <2> QED  BY <1>1, <2>1, ArrivalsInv DEF ghosts
<1>4. CASE PollCutShort
  <2>0. PICK new \in SUBSET Messages : \E lost \in SUBSET new :
          /\ cursor' = cursor \union new
          /\ status' = Stored(new \ lost)
          /\ orphans' = orphans \union loop.claimed \union {m \in lost : status[m] = "absent"}
    BY <1>4 DEF PollCutShort
  <2>1. PICK lost \in SUBSET new :
          /\ cursor' = cursor \union new
          /\ status' = Stored(new \ lost)
          /\ orphans' = orphans \union loop.claimed \union {m \in lost : status[m] = "absent"}
    BY <2>0
  <2> DEFINE gone == {m \in lost : status[m] = "absent"}
  <2>2. new \ lost \in SUBSET Messages /\ gone \in SUBSET Messages
    OBVIOUS
  <2>3. /\ kills' \in 0..MaxKills /\ cursor' \subseteq Messages /\ orphans' \subseteq Messages
        /\ loop' = Fresh /\ UNCHANGED <<claims, routed, sleepUntil, reads>>
    BY <1>1, <1>4, <2>1 DEF PollCutShort
  <2> HIDE DEF gone
  <2> QED  BY <2>1, <2>2, <2>3, ArrivalsInv DEF gone
<1> QED  BY <1>2, <1>3, <1>4

LEMMA StepInv == IInv /\ [Next]_vars => IInv'
<1>1. CASE UNCHANGED vars
  BY <1>1 DEF vars, IInv, TypeOK, RowsAccountedFor, ReadsLeft, In, ClaimedIsShown, ErrorsLeft,
     AbsentUnclaimed
<1> QED
  BY <1>1, StartInv, WakeUpInv, QuietInv, BeginTurnInv, EndTurnInv, TurnFailsInv, ExitInv
     DEF Next, Turn

LEMMA InvariantHolds == Spec => []IInv
<1> QED  BY InitInv, StepInv, PTL DEF Spec

(***************************************************************************)
(* The theorems.                                                           *)
(***************************************************************************)
\* The counters of the loop stay below their limits where the loop goes on.
THEOREM LoopTypes == Spec => []TypeOK
<1>1. IInv => TypeOK
  BY DEF IInv
<1> QED  BY <1>1, InvariantHolds, PTL

\* No way out of a turn loses a row: what waits can be claimed, what is in
\* progress is held by a turn or was held when the process was killed, and what
\* is processed was read.
THEOREM RowsNeverLost == Spec => []RowsAccountedFor
<1>1. IInv => RowsAccountedFor
  BY DEF IInv
<1> QED  BY <1>1, InvariantHolds, PTL

\* A failed turn may hand on its input and its rows, but no message is read
\* more often than it was claimed.
THEOREM ReadsBounded == Spec => []ReadsWithinClaims
<1>1. ASSUME IInv PROVE ReadsWithinClaims
  <2> SUFFICES ASSUME NEW m \in Messages PROVE reads[m] <= claims[m]
    BY DEF ReadsWithinClaims
  <2>1. reads[m] + In(m, loop.pending) + In(m, loop.input) <= claims[m]
        /\ reads[m] \in Nat /\ claims[m] \in Nat
    BY <1>1, Limits DEF IInv, ReadsLeft, TypeOK
  <2>2. In(m, loop.pending) \in {0, 1} /\ In(m, loop.input) \in {0, 1}
    BY DEF In
  <2> QED  BY <2>1, <2>2
<1> QED  BY <1>1, InvariantHolds, PTL
=============================================================================
