------------------------------ MODULE Inference -----------------------------
(***************************************************************************)
(* Everything that asks a model.  The agent loop alternates between its    *)
(* turn, which InferenceRouter.route() sends through the client of         *)
(* conway/inference.ts after a look at the budget, and the calls of the    *)
(* planner, the orchestrator and the compression engine, which go through  *)
(* UnifiedInferenceClient.chat() and the ProviderRegistry.  The local      *)
(* workers meanwhile use the client of the turn, and with it the one       *)
(* ResilientHttpClient, its counter of failures and its circuit, but not   *)
(* the router: nothing they spend is checked or recorded.                  *)
(*                                                                         *)
(* Time is a count-down: a failure at the threshold opens the circuit of   *)
(* the HTTP client for Period ticks, again if it was open.  Counters that  *)
(* are only compared with a threshold stop there.                          *)
(*                                                                         *)
(* Left out: the session budget (the check of the hour over another sum),  *)
(* the emergency stop (a call it refuses changes nothing), chatDirect(),   *)
(* which only tests call, and the shape of messages and answers.           *)
(***************************************************************************)
EXTENDS Integers, Sequences, SequencesExt

CONSTANTS
  Workers,      \* local workers
  Threshold,    \* circuitBreakerThreshold
  MaxRetries,   \* maxRetries of the HTTP client
  Period,       \* bound: ticks of circuitBreakerResetMs
  HourBudget,   \* hourlyBudgetCents
  Ceiling,      \* perCallCeilingCents
  Estimates,    \* bound: what route() takes a turn to cost
  Costs,        \* bound: what a turn turns out to cost
  Order,        \* the providers, as tierDefaults and priority order them
  Offers,       \* the tiers a provider has a model for
  Failures,     \* CIRCUIT_BREAKER_FAILURE_THRESHOLD
  Backoffs      \* length of RETRY_BACKOFF_MS

Providers == ToSet(Order)
Tiers == {"reasoning", "fast", "cheap"}

ASSUME ThresholdsPos == {Threshold, Period, Failures} \subseteq Nat \ {0}
ASSUME BoundsNat ==
  {MaxRetries, Backoffs, HourBudget, Ceiling} \cup Estimates \cup Costs \subseteq Nat
ASSUME OffersTiers == Offers \in [Providers -> SUBSET Tiers]

VARIABLES
  failures,  \* consecutiveFailures of the HTTP client
  open,      \* ticks until its circuit is closed
  req,       \* request() of the turn and of each worker
  hourCost,  \* sum of inference_costs in this hour
  breaker,   \* circuitBreaker of the unified client: failures, disabledUntil
  disabled,  \* providers the registry has a disablement for
  chat,      \* chat() of the unified client
  survival   \* isSurvivalMode(): the environment of the process

vars == <<failures, open, req, hourCost, breaker, disabled, chat, survival>>
http == <<failures, open, req, hourCost>>
unified == <<breaker, disabled, chat>>

Turn == "turn"
Callers == {Turn} \cup Workers

ASSUME WorkersNamed == Turn \notin Workers

Idle == [pc |-> "idle", attempt |-> 0]
NoChat == [pc |-> "idle", todo |-> <<>>, retries |-> 0]
Closed == [failures |-> 0, until |-> "never"]

Init ==
  /\ failures = 0
  /\ open = 0
  /\ req = [c \in Callers |-> Idle]
  /\ hourCost = 0
  /\ breaker = [p \in Providers |-> Closed]
  /\ disabled = {}
  /\ chat = NoChat
  /\ survival \in BOOLEAN

(***************************************************************************)
(* The HTTP client.  The circuit is looked at once, before the first       *)
(* attempt: a request under way keeps retrying while it is open.           *)
(***************************************************************************)
Send_Bug(c) == req' = [req EXCEPT ![c].pc = "fetch"]
Send(c) ==
  /\ open = 0
  /\ req' = [req EXCEPT ![c].pc = "fetch"]

\* checkBudget() compares what is spent already and forgets the estimate.
WithinBudget_Bug(e) == e <= Ceiling /\ hourCost <= HourBudget
WithinBudget(e) == e <= Ceiling /\ hourCost + e <= HourBudget

\* A turn over the budget returns "budget_exceeded" and changes nothing.
Route(e) ==
  /\ req[Turn] = Idle
  /\ chat = NoChat
  /\ WithinBudget(e)
  /\ Send(Turn)
  /\ UNCHANGED <<failures, open, hourCost, unified, survival>>

AskAsWorker(w) ==
  /\ req[w] = Idle
  /\ Send(w)
  /\ UNCHANGED <<failures, open, hourCost, unified, survival>>

\* A status worth a retry, no connection, or the time-out.
Fail_Bug(c) ==
  /\ req[c].pc = "fetch"
  /\ failures' = IF failures < Threshold THEN failures + 1 ELSE failures
  /\ open' = IF failures' = Threshold THEN Period ELSE open
  /\ req' = [req EXCEPT ![c].pc = "backoff"]
  /\ UNCHANGED <<hourCost, unified, survival>>
Fail(c) ==
  /\ req[c].pc = "fetch"
  /\ failures' = IF failures < Threshold THEN failures + 1 ELSE failures
  /\ open' = IF failures' = Threshold THEN Period ELSE open
  /\ req' = [req EXCEPT ![c] = IF @.attempt < MaxRetries
                                 THEN [pc |-> "backoff", attempt |-> @.attempt + 1]
                                 ELSE Idle]
  /\ UNCHANGED <<hourCost, unified, survival>>

Resend(c) ==
  /\ req[c].pc = "backoff"
  /\ req' = [req EXCEPT ![c].pc = "fetch"]
  /\ UNCHANGED <<failures, open, hourCost, unified, survival>>

\* Any other answer, an error of the caller's (cost 0) included, resets the
\* counter; route() records what the turn has cost.
Respond(c, cost) ==
  /\ req[c].pc = "fetch"
  /\ failures' = 0
  /\ req' = [req EXCEPT ![c] = Idle]
  /\ hourCost' = IF c = Turn THEN hourCost + cost ELSE hourCost
  /\ UNCHANGED <<open, unified, survival>>

Tick ==
  /\ open > 0
  /\ open' = open - 1
  /\ UNCHANGED <<failures, req, hourCost, unified, survival>>

HourEnds ==
  /\ hourCost > 0
  /\ hourCost' = 0
  /\ UNCHANGED <<failures, open, req, unified, survival>>

(***************************************************************************)
(* The unified client and the registry.                                    *)
(***************************************************************************)
applySurvivalTier(tier) ==
  CASE survival /\ tier = "reasoning" -> "fast"
    [] survival /\ tier = "fast" -> "cheap"
    [] OTHER -> tier

Active(tier) ==
  SelectSeq(Order, LAMBDA p : p \notin disabled /\ tier \in Offers[p])

resolveCandidates(tier) ==
  IF Active(applySurvivalTier(tier)) # <<>>
    THEN Active(applySurvivalTier(tier))
    ELSE Active(tier)

StartChat(tier) ==
  /\ chat = NoChat
  /\ req[Turn] = Idle
  /\ resolveCandidates(tier) # <<>>
  /\ chat' = [NoChat EXCEPT !.pc = "next", !.todo = resolveCandidates(tier)]
  /\ UNCHANGED <<http, breaker, disabled, survival>>

\* The loop over the candidates: past those whose circuit is open; a period
\* that is over is forgotten, with its failures.
TryNext ==
  /\ chat.pc = "next"
  /\ \/ /\ chat.todo = <<>>
        /\ chat' = NoChat
        /\ UNCHANGED <<breaker, disabled>>
     \/ /\ chat.todo # <<>>
        /\ LET p == Head(chat.todo) IN
             \/ /\ breaker[p].until = "future"
                /\ chat' = [chat EXCEPT !.todo = Tail(@)]
                /\ UNCHANGED <<breaker, disabled>>
             \/ /\ breaker[p].until # "future"
                /\ chat' = [chat EXCEPT !.pc = "request", !.retries = 0]
                /\ breaker' = IF breaker[p].until = "past"
                                THEN [breaker EXCEPT ![p] = Closed]
                                ELSE breaker
                /\ disabled' = IF breaker[p].until = "past"
                                 THEN disabled \ {p}
                                 ELSE disabled
  /\ UNCHANGED <<http, survival>>

\* markProviderSuccess()
Answered ==
  /\ chat.pc = "request"
  /\ LET p == Head(chat.todo) IN
       /\ breaker' = [breaker EXCEPT ![p] = Closed]
       /\ disabled' = disabled \ {p}
  /\ chat' = NoChat
  /\ UNCHANGED <<http, survival>>

\* The breaker compares the failures before this one.
markProviderFailure_Bug(p) ==
  /\ breaker' = [breaker EXCEPT ![p] =
       [failures |-> @.failures + 1,
        until |-> IF @.failures >= Failures THEN "future" ELSE @.until]]
  /\ disabled' = IF breaker'[p].until = "future" THEN disabled \cup {p} ELSE disabled
markProviderFailure(p) ==
  /\ breaker' = [breaker EXCEPT ![p] =
       [failures |-> @.failures + 1,
        until |-> IF @.failures + 1 >= Failures THEN "future" ELSE @.until]]
  /\ disabled' = IF breaker'[p].until = "future" THEN disabled \cup {p} ELSE disabled

\* 429, 500 or 503: again after a pause, then the next provider.
FailTransient ==
  /\ chat.pc = "request"
  /\ \/ /\ chat.retries < Backoffs
        /\ chat' = [chat EXCEPT !.pc = "backoff", !.retries = @ + 1]
        /\ UNCHANGED <<breaker, disabled>>
     \/ /\ chat.retries = Backoffs
        /\ markProviderFailure(Head(chat.todo))
        /\ chat' = [chat EXCEPT !.pc = "next", !.todo = Tail(@)]
  /\ UNCHANGED <<http, survival>>

\* Any other error, a connection that was refused among them: thrown at once.
FailHard ==
  /\ chat.pc = "request"
  /\ markProviderFailure(Head(chat.todo))
  /\ chat' = NoChat
  /\ UNCHANGED <<http, survival>>

Wake ==
  /\ chat.pc = "backoff"
  /\ chat' = [chat EXCEPT !.pc = "request"]
  /\ UNCHANGED <<http, breaker, disabled, survival>>

\* The disablement was set in the same call for the same time.
PeriodEnds(p) ==
  /\ breaker[p].until = "future"
  /\ breaker' = [breaker EXCEPT ![p].until = "past"]
  /\ disabled' = disabled \ {p}
  /\ UNCHANGED <<http, chat, survival>>

-----------------------------------------------------------------------------
Step(c) == Fail(c) \/ Resend(c) \/ \E cost \in Costs : Respond(c, cost)
ChatStep == TryNext \/ Answered \/ FailTransient \/ FailHard \/ Wake

Next ==
  \/ \E e \in Estimates : Route(e)
  \/ \E w \in Workers : AskAsWorker(w)
  \/ \E c \in Callers : Step(c)
  \/ Tick
  \/ HourEnds
  \/ \E tier \in Tiers : StartChat(tier)
  \/ ChatStep
  \/ \E p \in Providers : PeriodEnds(p)

\* Every fetch ends at its time-out at the latest, pauses and time pass.  What
\* an answer is, and whether there is another request, is left open.
Fairness ==
  /\ \A c \in Callers : WF_vars(Step(c))
  /\ WF_vars(ChatStep)
  /\ WF_vars(Tick)

Spec == Init /\ [][Next]_vars /\ Fairness

-----------------------------------------------------------------------------
\* The loop waits for one model at a time, counters stay at their threshold, and
\* a turn has retried no more often than it may (loop.ts, http-client.ts).
TypeOK ==
  /\ failures \in 0..Threshold
  /\ open \in 0..Period
  /\ req \in [Callers -> [pc : {"idle", "fetch", "backoff"}, attempt : 0..MaxRetries]]
  /\ hourCost \in Nat
  /\ breaker \in [Providers -> [failures : 0..Failures, until : {"never", "future", "past"}]]
  /\ disabled \subseteq Providers
  /\ chat.pc \in {"idle", "next", "request", "backoff"}
  /\ ToSet(chat.todo) \subseteq Providers
  /\ chat.retries \in 0..Backoffs
  /\ req[Turn] = Idle \/ chat = NoChat

\* The two books agree: the unified client's circuit for a provider is open just
\* when the registry has it disabled, and that only after Failures calls that
\* failed with no answer between (inference-client.ts, provider-registry.ts).
BreakersAgree ==
  \A p \in Providers :
    /\ breaker[p].until = "future" <=> p \in disabled
    /\ breaker[p].until = "never" <=> breaker[p].failures < Failures

\* The turns of an hour overrun its budget by no more than the last of them cost
\* over its estimate (budget.ts checks the estimate, router.ts records the cost).
HourWithinBudget ==
  \/ hourCost <= HourBudget
  \/ \E e \in Estimates, cost \in Costs : hourCost <= HourBudget - e + cost

\* Requests that were under way when the circuit opened may push the end of the
\* period out with every attempt, but as no new one is let in, it does end
\* (isCircuitOpen() is checked by request() and not by its retries).
CircuitCloses == open > 0 ~> open = 0

\* Whoever asked a model gets an answer or an error: retries, pauses and the way
\* through the providers come to an end.
CallsEnd ==
  /\ \A c \in Callers : req[c] # Idle ~> req[c] = Idle
  /\ chat # NoChat ~> chat = NoChat
=============================================================================
