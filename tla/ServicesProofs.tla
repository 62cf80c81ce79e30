---------------------------- MODULE ServicesProofs ---------------------------
(***************************************************************************)
(* Proofs about the two services that several callers share: the models    *)
(* (Inference), for any workers, budgets, providers and thresholds, and    *)
(* the human who decides (Interventions), for any requests and waiters.    *)
(* The two have no state in common.                                        *)
(***************************************************************************)
EXTENDS Inference, Interventions, TLAPS

----------------------------------------------------------------------------
(* Models.                                                                 *)

Requests == [pc : {"idle", "fetch", "backoff"}, attempt : 0..MaxRetries]
Circuits == [failures : 0..Failures, until : {"never", "future", "past"}]

HttpTypeOK ==
  /\ failures \in 0..Threshold
  /\ open \in 0..Period
  /\ req \in [Callers -> Requests]
  /\ hourCost \in Nat

\* What a call of chat() still has to try is what SelectSeq leaves of Order: no
\* property needs to know more of it than that it is some value.
UnifiedTypeOK ==
  /\ breaker \in [Providers -> Circuits]
  /\ chat = [pc |-> chat.pc, todo |-> chat.todo, retries |-> chat.retries]
  /\ chat.pc \in {"idle", "next", "request", "backoff"}
  /\ chat.retries \in 0..Backoffs

\* The provider that is being asked has a closed circuit: the failure that opens
\* it is counted after the call, and a period that is over was forgotten before.
AskedIsClosed ==
  chat.pc \in {"request", "backoff"} =>
    \A p \in Providers : p = Head(chat.todo) => breaker[p].until = "never"

\* A turn that is under way was let in by an estimate for which there is still
\* room: nobody but a turn adds to the hour, and there is one turn at a time.
RoomForTurn ==
  req[Turn].pc # "idle" => \E e \in Estimates : hourCost + e <= HourBudget

HttpInv == HttpTypeOK /\ RoomForTurn /\ HourWithinBudget
UnifiedInv == UnifiedTypeOK /\ BreakersAgree /\ AskedIsClosed

LEMMA Bounds ==
  /\ {Threshold, Period, Failures} \subseteq Nat \ {0}
  /\ MaxRetries \in Nat /\ Backoffs \in Nat /\ HourBudget \in Nat
  /\ Estimates \subseteq Nat /\ Costs \subseteq Nat
BY ThresholdsPos, BoundsNat

USE Bounds

LEMMA HttpInit == Init => HttpInv
<1> SUFFICES ASSUME Init PROVE HttpInv
  OBVIOUS
<1>1. HttpTypeOK
  BY DEF Init, HttpTypeOK, Requests, Idle
<1>2. req[Turn] = Idle
  BY DEF Init, Callers
<1>3. RoomForTurn /\ HourWithinBudget
  BY <1>2 DEF Init, RoomForTurn, HourWithinBudget, Idle
<1>4. QED
  BY <1>1, <1>3 DEF HttpInv

\* A request is let in, sent again, answered or given up; ticks pass.
LEMMA HttpStep ==
  ASSUME HttpInv,
         \/ \E e \in Estimates : Route(e)
         \/ \E w \in Workers : AskAsWorker(w)
         \/ \E c \in Callers : Step(c)
         \/ Tick \/ HourEnds
  PROVE  HttpInv'
<1> USE DEF HttpInv, HttpTypeOK
<1>t. Turn \in Callers /\ Workers \subseteq Callers
  BY DEF Callers
<1>i. Idle \in Requests /\ Idle.pc = "idle"
  BY DEF Requests, Idle
<1>1. ASSUME NEW e \in Estimates, Route(e)
      PROVE  HttpInv'
  <2>1. UNCHANGED <<failures, open, hourCost>>
    BY <1>1 DEF Route
  <2>2. req' \in [Callers -> Requests]
    BY <1>1 DEF Route, Send, Requests
  <2>3. RoomForTurn'
    BY <1>1, <2>1 DEF Route, WithinBudget, RoomForTurn
  <2>4. QED
    BY <2>1, <2>2, <2>3 DEF HourWithinBudget
<1>2. ASSUME NEW w \in Workers, AskAsWorker(w)
      PROVE  HttpInv'
  <2>1. UNCHANGED <<failures, open, hourCost>> /\ w \in Callers
    BY <1>2, <1>t DEF AskAsWorker
  <2>2. req' \in [Callers -> Requests]
    BY <1>2, <2>1 DEF AskAsWorker, Send, Requests
  <2>3. req'[Turn] = req[Turn]
    BY <1>2, <1>t, <2>1, WorkersNamed DEF AskAsWorker, Send
  <2>4. QED
    BY <2>1, <2>2, <2>3 DEF HourWithinBudget, RoomForTurn
<1>3. ASSUME NEW c \in Callers, Fail(c) \/ Resend(c)
      PROVE  HttpInv'
  <2>1. failures' \in 0..Threshold /\ open' \in 0..Period /\ hourCost' = hourCost
    BY <1>3 DEF Fail, Resend
  <2>2. req' \in [Callers -> Requests]
    BY <1>3, <1>i DEF Fail, Resend, Requests
  <2>3. req[c].pc # "idle" /\ \A d \in Callers \ {c} : req'[d] = req[d]
    BY <1>3 DEF Fail, Resend
  <2>4. RoomForTurn'
    BY <1>t, <2>1, <2>3 DEF RoomForTurn
  <2>5. QED
    BY <2>1, <2>2, <2>4 DEF HourWithinBudget
<1>4. ASSUME NEW c \in Callers, NEW cost \in Costs, Respond(c, cost)
      PROVE  HttpInv'
  <2>1. /\ failures' = 0 /\ open' = open
        /\ req' = [req EXCEPT ![c] = Idle]
        /\ req[c].pc = "fetch"
        /\ hourCost' = IF c = Turn THEN hourCost + cost ELSE hourCost
    BY <1>4 DEF Respond
  <2>2. req' \in [Callers -> Requests]
    BY <1>i, <2>1
  <2>3. CASE c = Turn
    <3>1. PICK e \in Estimates : hourCost + e <= HourBudget
      BY <2>1, <2>3 DEF RoomForTurn
    <3>2. hourCost' \in Nat /\ hourCost' <= HourBudget - e + cost
      BY <2>1, <2>3, <3>1
    <3>3. req'[Turn].pc = "idle"
      BY <1>i, <1>t, <2>1, <2>3
    <3>4. QED
      BY <2>1, <2>2, <3>2, <3>3 DEF RoomForTurn, HourWithinBudget
  <2>4. CASE c # Turn
    <3>1. hourCost' = hourCost /\ req'[Turn] = req[Turn]
      BY <1>t, <2>1, <2>4
    <3>2. QED
      BY <2>1, <2>2, <3>1 DEF RoomForTurn, HourWithinBudget
  <2>5. QED
    BY <2>3, <2>4
<1>5. CASE Tick
  BY <1>5 DEF Tick, RoomForTurn, HourWithinBudget
<1>6. CASE HourEnds
  <2>1. UNCHANGED <<failures, open, req>> /\ hourCost' = 0
    BY <1>6 DEF HourEnds
  <2>2. RoomForTurn'
    BY <2>1 DEF RoomForTurn
  <2>3. QED
    BY <2>1, <2>2 DEF HourWithinBudget
<1>7. QED
  BY <1>1, <1>2, <1>3, <1>4, <1>5, <1>6 DEF Step

LEMMA UnifiedInit == Init => UnifiedInv
<1> SUFFICES ASSUME Init PROVE UnifiedInv
  OBVIOUS
<1>1. Closed \in Circuits /\ Closed.until = "never" /\ Closed.failures = 0
  BY DEF Closed, Circuits
<1>2. UnifiedTypeOK /\ AskedIsClosed
  BY <1>1 DEF Init, UnifiedTypeOK, NoChat, AskedIsClosed
<1>3. BreakersAgree
  BY <1>1 DEF Init, BreakersAgree
<1>4. QED
  BY <1>2, <1>3 DEF UnifiedInv

\* The circuit of the provider that has failed counts one more failure, and is
\* opened together with the disablement.
LEMMA MarkFailure ==
  ASSUME UnifiedTypeOK, BreakersAgree, NEW p,
         p \in Providers => breaker[p].until = "never",
         markProviderFailure(p)
  PROVE  /\ breaker' \in [Providers -> Circuits]
         /\ BreakersAgree'
<1>1. CASE p \in Providers
  <2> DEFINE failed == [failures |-> breaker[p].failures + 1,
                        until |-> IF breaker[p].failures + 1 >= Failures
                                    THEN "future" ELSE breaker[p].until]
  <2>1. breaker[p] \in Circuits /\ breaker[p].failures < Failures
    BY <1>1 DEF UnifiedTypeOK, BreakersAgree
  <2>2. /\ failed \in Circuits
        /\ failed.until = "never" <=> failed.failures < Failures
        /\ failed.until \in {"never", "future"}
    BY <1>1, <2>1 DEF Circuits
  <2>3. breaker' = [breaker EXCEPT ![p] = failed]
    BY DEF markProviderFailure
  <2>4. breaker' \in [Providers -> Circuits] /\ breaker'[p] = failed
    BY <1>1, <2>2, <2>3 DEF UnifiedTypeOK
  <2>5. disabled' = IF failed.until = "future" THEN disabled \cup {p} ELSE disabled
    BY <2>4 DEF markProviderFailure
  <2>6. p \notin disabled
    BY <1>1 DEF BreakersAgree
  <2>7. BreakersAgree'
    BY <1>1, <2>2, <2>3, <2>4, <2>5, <2>6 DEF BreakersAgree, UnifiedTypeOK
  <2>8. QED
    BY <1>1, <2>4, <2>5, <2>7 DEF UnifiedTypeOK
<1>2. CASE p \notin Providers
  <2>1. breaker' = breaker
    BY <1>2 DEF markProviderFailure, UnifiedTypeOK
  <2>2. disabled' = disabled \/ disabled' = disabled \cup {p}
    BY DEF markProviderFailure
  <2>3. QED
    BY <1>2, <2>1, <2>2 DEF BreakersAgree, UnifiedTypeOK
<1>3. QED
  BY <1>1, <1>2

\* The steps of chat() and the end of a provider's period.
LEMMA UnifiedStep ==
  ASSUME UnifiedInv,
         \/ \E tier \in Tiers : StartChat(tier)
         \/ ChatStep
         \/ \E p \in Providers : PeriodEnds(p)
  PROVE  UnifiedInv'
<1> USE DEF UnifiedInv
<1>c. Closed \in Circuits /\ Closed.until = "never" /\ Closed.failures = 0
  BY DEF Closed, Circuits
<1>1. ASSUME NEW tier \in Tiers, StartChat(tier)
      PROVE  UnifiedInv'
  <2>1. /\ UNCHANGED <<breaker, disabled>>
        /\ chat' = [pc |-> "next", todo |-> resolveCandidates(tier), retries |-> 0]
    BY <1>1 DEF StartChat, NoChat
  <2>2. UnifiedTypeOK' /\ AskedIsClosed'
    BY <2>1 DEF UnifiedTypeOK, AskedIsClosed
  <2>3. BreakersAgree'
    BY <2>1 DEF BreakersAgree
  <2>4. QED
    BY <2>2, <2>3
<1>2. CASE TryNext
  <2> DEFINE p == Head(chat.todo)
  <2>1. CASE UNCHANGED <<breaker, disabled>> /\ (chat' = NoChat \/ chat' = [chat EXCEPT !.todo = Tail(@)])
    <3>1. chat'.pc \in {"idle", "next"} /\ UnifiedTypeOK'
      BY <1>2, <2>1 DEF TryNext, NoChat, UnifiedTypeOK
    <3>2. AskedIsClosed' /\ BreakersAgree'
      BY <2>1, <3>1 DEF AskedIsClosed, BreakersAgree
    <3>3. QED
      BY <3>1, <3>2
  <2>2. CASE /\ breaker[p].until # "future"
             /\ chat' = [chat EXCEPT !.pc = "request", !.retries = 0]
             /\ breaker' = IF breaker[p].until = "past"
                             THEN [breaker EXCEPT ![p] = Closed] ELSE breaker
             /\ disabled' = IF breaker[p].until = "past"
                              THEN disabled \ {p} ELSE disabled
    <3>1. chat' = [pc |-> "request", todo |-> chat.todo, retries |-> 0]
      BY <2>2 DEF UnifiedTypeOK
    <3>c. chat'.pc = "request" /\ chat'.retries = 0 /\ chat'.todo = chat.todo
      BY <3>1
    <3>b. breaker' \in [Providers -> Circuits]
      BY <1>c, <2>2 DEF UnifiedTypeOK
    <3>2. UnifiedTypeOK'
      BY <3>1, <3>b, <3>c DEF UnifiedTypeOK
    <3>3. AskedIsClosed'
      BY <1>c, <2>2, <3>1 DEF AskedIsClosed, UnifiedTypeOK, Circuits
    <3>4. BreakersAgree'
      BY <1>c, <2>2 DEF BreakersAgree, UnifiedTypeOK
    <3>5. QED
      BY <3>2, <3>3, <3>4
  <2>3. QED
    BY <1>2, <2>1, <2>2 DEF TryNext
<1>3. CASE Answered
  <2>1. /\ breaker' = [breaker EXCEPT ![Head(chat.todo)] = Closed]
        /\ disabled' = disabled \ {Head(chat.todo)}
        /\ chat' = NoChat
    BY <1>3 DEF Answered
  <2>b. breaker' \in [Providers -> Circuits]
    BY <1>c, <2>1 DEF UnifiedTypeOK
  <2>2. UnifiedTypeOK' /\ AskedIsClosed'
    BY <2>1, <2>b DEF UnifiedTypeOK, AskedIsClosed, NoChat
  <2>3. BreakersAgree'
    BY <1>c, <2>1 DEF BreakersAgree, UnifiedTypeOK
  <2>4. QED
    BY <2>2, <2>3
<1>4. CASE FailTransient \/ FailHard
  <2>1. CASE markProviderFailure(Head(chat.todo))
             /\ (chat' = NoChat \/ chat' = [chat EXCEPT !.pc = "next", !.todo = Tail(@)])
    <3>1. Head(chat.todo) \in Providers => breaker[Head(chat.todo)].until = "never"
      BY <1>4 DEF FailTransient, FailHard, AskedIsClosed
    <3>2. breaker' \in [Providers -> Circuits] /\ BreakersAgree'
      BY <2>1, <3>1, MarkFailure
    <3>c. \/ chat' = [pc |-> "idle", todo |-> <<>>, retries |-> 0]
          \/ chat' = [pc |-> "next", todo |-> Tail(chat.todo), retries |-> chat.retries]
      BY <2>1 DEF UnifiedTypeOK, NoChat
    <3>d. chat'.pc \in {"idle", "next"} /\ chat'.retries \in 0..Backoffs
      BY <3>c DEF UnifiedTypeOK
    <3>e. chat' = [pc |-> chat'.pc, todo |-> chat'.todo, retries |-> chat'.retries]
      BY <3>c
    <3>3. UnifiedTypeOK' /\ AskedIsClosed'
      BY <3>2, <3>d, <3>e DEF UnifiedTypeOK, AskedIsClosed
    <3>4. QED
      BY <3>2, <3>3
  <2>2. CASE /\ chat.retries < Backoffs
             /\ chat.pc = "request"
             /\ chat' = [chat EXCEPT !.pc = "backoff", !.retries = @ + 1]
             /\ UNCHANGED <<breaker, disabled>>
    <3>1. chat' = [pc |-> "backoff", todo |-> chat.todo, retries |-> chat.retries + 1]
      BY <2>2 DEF UnifiedTypeOK
    <3>c. /\ chat'.pc = "backoff" /\ chat'.todo = chat.todo
          /\ chat'.retries \in 0..Backoffs
      BY <2>2, <3>1 DEF UnifiedTypeOK
    <3>t. UnifiedTypeOK'
      BY <2>2, <3>1, <3>c DEF UnifiedTypeOK
    <3>2. UnifiedTypeOK' /\ AskedIsClosed'
      BY <2>2, <3>c, <3>t DEF AskedIsClosed
    <3>3. BreakersAgree'
      BY <2>2 DEF BreakersAgree
    <3>4. QED
      BY <3>2, <3>3
  <2>3. QED
    BY <1>4, <2>1, <2>2 DEF FailTransient, FailHard
<1>5. CASE Wake
  <2>1. /\ UNCHANGED <<breaker, disabled>>
        /\ chat.pc = "backoff"
        /\ chat' = [pc |-> "request", todo |-> chat.todo, retries |-> chat.retries]
    BY <1>5 DEF Wake, UnifiedTypeOK
  <2>2. UnifiedTypeOK' /\ AskedIsClosed'
    BY <2>1 DEF UnifiedTypeOK, AskedIsClosed
  <2>3. BreakersAgree'
    BY <2>1 DEF BreakersAgree
  <2>4. QED
    BY <2>2, <2>3
<1>6. ASSUME NEW p \in Providers, PeriodEnds(p)
      PROVE  UnifiedInv'
  <2> DEFINE over == [breaker[p] EXCEPT !.until = "past"]
  <2>1. /\ breaker[p].until = "future" /\ chat' = chat
        /\ breaker' = [breaker EXCEPT ![p] = over]
        /\ disabled' = disabled \ {p}
    BY <1>6 DEF PeriodEnds
  <2>2. /\ over \in Circuits /\ over.until = "past"
        /\ over.failures = breaker[p].failures
    BY DEF UnifiedTypeOK, Circuits
  <2>3. UnifiedTypeOK'
    BY <2>1, <2>2 DEF UnifiedTypeOK
  <2>4. AskedIsClosed'
    BY <2>1, <2>2 DEF AskedIsClosed, UnifiedTypeOK
  <2>5. BreakersAgree'
    BY <2>1, <2>2 DEF BreakersAgree, UnifiedTypeOK
  <2>6. QED
    BY <2>3, <2>4, <2>5
<1>7. QED
  BY <1>1, <1>2, <1>3, <1>4, <1>5, <1>6 DEF ChatStep

\* Each of the two clients leaves the state of the other alone.
LEMMA ClientsApart ==
  ASSUME HttpInv, UnifiedInv, [Next]_vars
  PROVE  HttpInv' /\ UnifiedInv'
<1>u. UNCHANGED http => HttpInv'
  BY DEF http, HttpInv, HttpTypeOK, RoomForTurn, HourWithinBudget
<1>v. UNCHANGED unified => UnifiedInv'
  BY DEF unified, UnifiedInv, UnifiedTypeOK, BreakersAgree, AskedIsClosed
<1>1. CASE \/ \E e \in Estimates : Route(e)
           \/ \E w \in Workers : AskAsWorker(w)
           \/ \E c \in Callers : Step(c)
           \/ Tick \/ HourEnds
  <2>1. UNCHANGED unified
    BY <1>1 DEF Route, AskAsWorker, Step, Fail, Resend, Respond, Tick, HourEnds
  <2>2. QED
    BY <1>1, <1>v, <2>1, HttpStep
<1>2. CASE \/ \E tier \in Tiers : StartChat(tier)
           \/ ChatStep
           \/ \E p \in Providers : PeriodEnds(p)
  <2>1. UNCHANGED http
    BY <1>2 DEF StartChat, ChatStep, TryNext, Answered, FailTransient, FailHard, Wake,
                PeriodEnds
  <2>2. QED
    BY <1>2, <1>u, <2>1, UnifiedStep
<1>3. CASE UNCHANGED vars
  <2>1. UNCHANGED http /\ UNCHANGED unified
    BY <1>3 DEF vars, http, unified
  <2>2. QED
    BY <1>u, <1>v, <2>1
<1>4. QED
  BY <1>1, <1>2, <1>3 DEF Next

THEOREM ClientsInvariant == Spec => [](HttpInv /\ UnifiedInv)
<1>1. Init => HttpInv /\ UnifiedInv
  BY HttpInit, UnifiedInit
<1>2. (HttpInv /\ UnifiedInv) /\ [Next]_vars => (HttpInv /\ UnifiedInv)'
  BY ClientsApart
<1>3. QED
  BY <1>1, <1>2, PTL DEF Spec

\* The circuit of a provider is open just when the registry has it disabled, and
\* only after Failures calls without an answer between.
THEOREM TwoBooksAgree == Spec => []BreakersAgree
<1>1. HttpInv /\ UnifiedInv => BreakersAgree
  BY DEF UnifiedInv
<1>2. QED
  BY <1>1, ClientsInvariant, PTL

\* What the turns of an hour cost exceeds the budget at most by what the last one
\* cost over its estimate, for any budget, estimates, costs and workers.
THEOREM HourIsBounded == Spec => []HourWithinBudget
<1>1. HttpInv /\ UnifiedInv => HourWithinBudget
  BY DEF HttpInv
<1>2. QED
  BY <1>1, ClientsInvariant, PTL

----------------------------------------------------------------------------
(* The human.                                                              *)

InterventionRows ==
  {NoRow} \cup [status : {"pending", "approved", "rejected"}, type : AllTypes,
                project : Projects \cup Unknown]
Promises == [pc : {"idle", "waits", "done"}, on : Ids \cup {"none"}, own : BOOLEAN]
TimeoutCalls == [pc : {"idle", "import", "acting"}, on : Ids \cup {"none"}]

InterventionTypeOK ==
  /\ row \in [Ids -> InterventionRows]
  /\ overdue \subseteq Ids
  /\ waiter \in [Waiters -> Promises]
  /\ \A w \in Waiters : waiter[w].pc = "waits" => waiter[w].on \in Ids
  /\ todo \in [Sweeps -> SUBSET Ids]
  /\ call \in [Timers -> TimeoutCalls]
  /\ \A c \in Timers : call[c].pc # "idle" => call[c].on \in Ids

\* A row with an answer or a time-out is decided and stays so, and the row a call has
\* acted on and not written yet is there and has no answer: none can come before it
\* is written.
DecidedRows ==
  /\ answered \subseteq Ids /\ timedOut \subseteq Ids
  /\ \A i \in answered \cup timedOut : row[i].status \in {"approved", "rejected"}
  /\ \A c \in Timers : call[c].pc = "acting" =>
       call[c].on \notin answered /\ row[call[c].on].status # "none"
  /\ AnswerStands

DecisionInv == InterventionTypeOK /\ DecidedRows

LEMMA InsertDecides ==
  ASSUME DecisionInv, NEW i \in Ids, NEW p \in Projects \cup Unknown, NEW type \in Types,
         Insert(i, type, p)
  PROVE  DecisionInv'
<1> USE DEF DecisionInv, InterventionTypeOK, DecidedRows, AnswerStands
<1>1. /\ row[i] = NoRow
      /\ row' = [row EXCEPT ![i] = [status |-> "pending", type |-> type, project |-> p]]
      /\ UNCHANGED <<overdue, waiter, todo, call, answered, timedOut>>
  BY DEF Insert, promises, timeouts, ghosts
<1>2. [status |-> "pending", type |-> type, project |-> p] \in InterventionRows
  BY TypesKnown DEF InterventionRows
<1>3. i \notin answered \cup timedOut
  BY <1>1 DEF NoRow
<1>4. QED
  BY <1>1, <1>2, <1>3

LEMMA AnswerDecides ==
  ASSUME DecisionInv, NEW i \in Ids, NEW decision \in {"approve", "reject"},
         recordResponse(i, decision)
  PROVE  DecisionInv'
<1> USE DEF DecisionInv, InterventionTypeOK, DecidedRows, AnswerStands
<1> DEFINE after == [row[i] EXCEPT !.status =
                       IF decision = "approve" THEN "approved" ELSE "rejected"]
<1>1. /\ Quiet
      /\ row[i] # NoRow
      /\ row' = [row EXCEPT ![i] = after]
      /\ answered' = IF Pending(i) THEN answered \cup {i} ELSE answered
      /\ waiter' = waiter \/ waiter' = Settled(entry[i])
      /\ UNCHANGED <<overdue, todo, call, timedOut>>
  BY DEF recordResponse, timeouts
<1>2. after \in InterventionRows /\ after.status \in {"approved", "rejected"}
  BY <1>1 DEF InterventionRows
<1>3. /\ row' \in [Ids -> InterventionRows]
      /\ row'[i].status \in {"approved", "rejected"}
      /\ \A j \in Ids \ {i} : row'[j] = row[j]
  BY <1>1, <1>2
<1>4. /\ waiter' \in [Waiters -> Promises]
      /\ \A w \in Waiters : waiter'[w].pc = "waits" => waiter'[w].on \in Ids
  <2>1. Done \in Promises /\ Done.pc = "done"
    BY DEF Done, Free, Promises
  <2>2. QED
    BY <1>1, <2>1 DEF Settled
<1>5. Pending(i) => i \notin timedOut
  BY DEF Pending
<1>6. InterventionTypeOK'
  BY <1>1, <1>3, <1>4
<1>7. DecidedRows'
  BY <1>1, <1>3, <1>5 DEF Quiet
<1>8. QED
  BY <1>6, <1>7

\* What the promises and the periodic check do before a call looks at a row.
LEMMA CallsMade ==
  ASSUME DecisionInv,
         \/ \E w \in Waiters, i \in Ids, own \in BOOLEAN : awaitResponse(w, i, own)
         \/ \E i \in Ids : DeadlinePasses(i)
         \/ \E w \in Waiters : TimerFires(w)
         \/ \E s \in Sweeps : checkTimeouts(s)
         \/ \E s \in Sweeps, i \in Ids : handleTimeout(s, i)
         \/ Stop \/ Killed
         \/ UNCHANGED interventionVars
  PROVE  DecisionInv'
<1> USE DEF DecisionInv, InterventionTypeOK, tables, promises, timeouts, ghosts
<1>d. Done \in Promises /\ Done.pc = "done" /\ NoCall \in TimeoutCalls /\ NoCall.pc = "idle"
  BY DEF Done, Free, NoCall, Promises, TimeoutCalls
<1>1. UNCHANGED <<row, answered, timedOut>>
  BY DEF awaitResponse, DeadlinePasses, TimerFires, checkTimeouts, StartSweep,
         handleTimeout, Stop, Killed, interventionVars
<1>2. InterventionTypeOK'
      /\ \A c \in Timers : call'[c].pc = "acting" => call'[c] = call[c]
  <2>1. ASSUME NEW w \in Waiters, NEW i \in Ids, NEW own \in BOOLEAN,
               awaitResponse(w, i, own)
        PROVE  <1>2!:
    <3>1. [pc |-> "waits", on |-> i, own |-> own] \in Promises
      BY DEF Promises
    <3>2. QED
      BY <1>1, <2>1, <3>1 DEF awaitResponse
  <2>2. ASSUME NEW i \in Ids, DeadlinePasses(i)
        PROVE  <1>2!:
    BY <1>1, <2>2 DEF DeadlinePasses
  <2>3. ASSUME NEW w \in Waiters, TimerFires(w)
        PROVE  <1>2!:
    <3>1. /\ waiter[w].on \in Ids
          /\ waiter' = [waiter EXCEPT ![w] = Done]
          /\ call' = [call EXCEPT ![w] = [pc |-> "import", on |-> waiter[w].on]]
          /\ UNCHANGED <<overdue, todo>>
      BY <2>3 DEF TimerFires, Settled
    <3>2. [pc |-> "import", on |-> waiter[w].on] \in TimeoutCalls
      BY <3>1 DEF TimeoutCalls
    <3>3. QED
      BY <1>1, <1>d, <3>1, <3>2 DEF Timers
  <2>4. ASSUME NEW s \in Sweeps, checkTimeouts(s)
        PROVE  <1>2!:
    BY <1>1, <2>4 DEF checkTimeouts, StartSweep, Expired
  <2>5. ASSUME NEW s \in Sweeps, NEW i \in Ids, handleTimeout(s, i)
        PROVE  <1>2!:
    <3>1. [pc |-> "import", on |-> i] \in TimeoutCalls
      BY DEF TimeoutCalls
    <3>2. QED
      BY <1>1, <2>5, <3>1 DEF handleTimeout, Timers
  <2>6. ASSUME Stop
        PROVE  <1>2!:
    BY <1>1, <1>d, <2>6 DEF Stop
  <2>7. ASSUME Killed
        PROVE  <1>2!:
    BY <1>1, <1>d, <2>7 DEF Killed
  <2>8. ASSUME UNCHANGED interventionVars
        PROVE  <1>2!:
    BY <2>8 DEF interventionVars
  <2>9. QED
    BY <2>1, <2>2, <2>3, <2>4, <2>5, <2>6, <2>7, <2>8
<1>3. DecidedRows'
  BY <1>1, <1>2 DEF DecidedRows, AnswerStands
<1>4. QED
  BY <1>2, <1>3

LEMMA CallDecides ==
  ASSUME DecisionInv, NEW c \in Timers, executeTimeoutAction(c) \/ MarkTimeout(c)
  PROVE  DecisionInv'
<1> USE DEF DecisionInv, InterventionTypeOK, DecidedRows, AnswerStands
<1>d. NoCall \in TimeoutCalls /\ NoCall.pc = "idle"
  BY DEF NoCall, TimeoutCalls
<1>1. CASE executeTimeoutAction(c)
  <2> DEFINE i == call[c].on
  <2>1. /\ UNCHANGED <<row, overdue, waiter, todo, answered, timedOut>>
        /\ call[c].pc = "import"
        /\ \/ Pending(i) /\ call' = [call EXCEPT ![c].pc = "acting"]
           \/ call' = [call EXCEPT ![c] = NoCall]
    BY <1>1 DEF executeTimeoutAction, ActOn, promises, ghosts
  <2>p. Pending(i) => row[i].status # "none"
    BY DEF Pending
  <2>2. i \in Ids /\ [call[c] EXCEPT !.pc = "acting"] \in TimeoutCalls
    BY <2>1 DEF TimeoutCalls
  <2>3. Pending(i) => i \notin answered
    BY DEF Pending
  <2>4. CASE Pending(i) /\ call' = [call EXCEPT ![c].pc = "acting"]
    <3>1. /\ call' \in [Timers -> TimeoutCalls]
          /\ call'[c].on = i
          /\ \A b \in Timers \ {c} : call'[b] = call[b]
      BY <2>2, <2>4 DEF TimeoutCalls
    <3>2. QED
      BY <2>1, <2>2, <2>3, <2>4, <2>p, <3>1
  <2>5. CASE call' = [call EXCEPT ![c] = NoCall]
    BY <1>d, <2>1, <2>5
  <2>6. QED
    BY <2>1, <2>4, <2>5
<1>2. CASE MarkTimeout(c)
  <2> DEFINE i == call[c].on
             after == [row[i] EXCEPT !.status = "rejected"]
  <2>1. /\ call[c].pc = "acting"
        /\ row' = [row EXCEPT ![i] = after]
        /\ timedOut' = timedOut \cup {i}
        /\ call' = [call EXCEPT ![c] = NoCall]
        /\ UNCHANGED <<overdue, waiter, todo, answered>>
    BY <1>2 DEF MarkTimeout, promises
  <2>2. i \in Ids /\ i \notin answered
    BY <2>1
  <2>3. after \in InterventionRows /\ after.status = "rejected"
    <3>1. row[i] # NoRow
      <4>1. row[i].status # "none"
        BY <1>2, <2>1
      <4>2. QED
        BY <4>1 DEF NoRow
    <3>2. QED
      BY <2>2, <3>1 DEF InterventionRows
  <2>4. /\ row' \in [Ids -> InterventionRows]
        /\ row'[i].status = "rejected"
        /\ \A j \in Ids \ {i} : row'[j] = row[j]
    BY <2>1, <2>2, <2>3
  <2>5. InterventionTypeOK'
    BY <1>d, <2>1, <2>4
  <2>6. DecidedRows'
    BY <1>d, <2>1, <2>2, <2>4
  <2>7. QED
    BY <2>5, <2>6
<1>3. QED
  BY <1>1, <1>2

LEMMA DecisionStep ==
  ASSUME DecisionInv, [InterventionNext]_interventionVars
  PROVE  DecisionInv'
<1>1. ASSUME NEW i \in Ids, NEW p \in Projects \cup Unknown,
             \/ \E type \in Types : createRequest(i, type, p)
             \/ handleErrorReport(i, p)
             \/ handleBlockers(i, p)
      PROVE  DecisionInv'
  <2>1. PICK type \in Types : Insert(i, type, p)
    BY <1>1 DEF createRequest, handleErrorReport, handleBlockers
  <2>2. QED
    BY <2>1, InsertDecides
<1>2. ASSUME NEW i \in Ids, NEW decision \in {"approve", "reject"},
             recordResponse(i, decision)
      PROVE  DecisionInv'
  BY <1>2, AnswerDecides
<1>3. ASSUME NEW c \in Timers, HandleTimeout(c)
      PROVE  DecisionInv'
  <2>1. CASE executeTimeoutAction(c) \/ MarkTimeout(c)
    BY <2>1, CallDecides
  <2>2. CASE c \in Sweeps /\ \E i \in Ids : handleTimeout(c, i)
    BY <2>2, CallsMade
  <2>3. QED
    BY <1>3, <2>1, <2>2 DEF HandleTimeout
<1>4. ASSUME \/ \E w \in Waiters, i \in Ids, own \in BOOLEAN : awaitResponse(w, i, own)
             \/ \E i \in Ids : DeadlinePasses(i)
             \/ \E w \in Waiters : TimerFires(w)
             \/ \E s \in Sweeps : checkTimeouts(s)
             \/ Stop \/ Killed
             \/ UNCHANGED interventionVars
      PROVE  DecisionInv'
  BY <1>4, CallsMade
<1>5. QED
  BY <1>1, <1>2, <1>3, <1>4 DEF InterventionNext

\* An answer that came in time stands, for any number of timers and periodic checks
\* that have been started for its row and whether or not a kill hits one of them:
\* none of them acts on a row it does not find pending, and between its action and
\* its write there is no room for an answer.
THEOREM AnswersStand == InterventionSpec => []AnswerStands
<1>1. InterventionInit => DecisionInv
  BY DEF InterventionInit, DecisionInv, InterventionTypeOK, DecidedRows, AnswerStands,
         InterventionRows, Promises, TimeoutCalls, NoRow, Free, NoCall
<1>2. DecisionInv /\ [InterventionNext]_interventionVars => DecisionInv'
  BY DecisionStep
<1>3. DecisionInv => AnswerStands
  BY DEF DecisionInv, DecidedRows
<1>4. QED
  BY <1>1, <1>2, <1>3, PTL DEF InterventionSpec
=============================================================================
