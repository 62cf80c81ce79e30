------------------------------ MODULE Spending ------------------------------
(***************************************************************************)
(* How the agent spends: the policy engine (agent/policy-engine.ts with    *)
(* policy-rules/financial.ts) over the spend tracker (spend-tracker.ts),   *)
(* the tools that move credits (executeTool, transfer_credits and          *)
(* fund_child in agent/tools.ts, transferCredits in conway/client.ts), and *)
(* those who buy credits unasked (conway/topup.ts): the start of the       *)
(* process, the agent loop and the heartbeat.                              *)
(*                                                                         *)
(* A rule is evaluated and a transfer recorded in different hours or days  *)
(* if the calls between take long enough.  The service may refuse a        *)
(* transfer, or carry it out and lose the answer; the process may be       *)
(* killed at any await.  Other work spends credits all the while.          *)
(*                                                                         *)
(* A purchase of credits may rest on a balance that is wrong: one that     *)
(* could not be read counts as 0 at the start and in the heartbeat, whose  *)
(* reading is as old as its tick, and the loop falls back on the last one  *)
(* it could read.  A payment its buyer has given up may still be carried   *)
(* out.                                                                    *)
(*                                                                         *)
(* Left out: the rules that look at the text of a call (domains, paths,    *)
(* commands), rate limits, x402 payments, which are recorded with amount   *)
(* 0, and the tool topup_credits, whose amount the model chooses.          *)
(*                                                                         *)
(* Definitions whose name ends in _Bug are variants with a bug a change of *)
(* the code could introduce; no action uses them.                          *)
(***************************************************************************)
EXTENDS Integers

CONSTANTS
  Amounts,      \* bound: the amounts a model asks to transfer
  MaxSingle,    \* maxSingleTransferCents
  HourCap,      \* maxHourlyTransferCents
  DayCap,       \* maxDailyTransferCents
  ConfirmAbove, \* requireConfirmationAboveCents
  PerTurn,      \* maxTransfersPerTurn
  MaxCalls,     \* MAX_TOOL_CALLS_PER_TURN
  Pack,         \* what the smallest top-up buys, TOPUP_TIERS[0]
  Threshold,    \* creditThresholdCents: no top-up from this balance on
  Low,          \* balances of the tiers low_compute and critical
  Critical,     \* balances of the tier critical
  Funds         \* bound: top-ups the USDC of the wallet is enough for

ASSUME AmountsPos == Amounts \subseteq Nat \ {0}
ASSUME CapsNat == {MaxSingle, HourCap, DayCap, ConfirmAbove, PerTurn, MaxCalls, Funds} \subseteq Nat
ASSUME TiersOrdered ==
  /\ {Threshold, Low, Critical} \subseteq Nat
  /\ Pack \in Nat \ {0}
  /\ Critical <= Low
  /\ Low < Threshold

VARIABLES
  credits,    \* the balance at the service
  usdc,       \* top-ups the wallet can still pay
  hourSpent,  \* sum of spend_tracking in the window of this hour
  daySpent,   \* sum of spend_tracking in the window of this day
  call,       \* the tool call under way: its place and its locals
  transfers,  \* results of transfer_credits in this turn, refused ones too
  lowCached,  \* the last balance the loop could read, kept in kv, was low
  buying,     \* the purchases each buyer has decided on, on the right balance
  blind,      \* the purchases each buyer has decided on, on a wrong balance
  late,       \* payments given up by their buyer that may still be carried out
  cooldown,   \* who has tried a top-up lately, as its own key in kv says
  moved,      \* ghost: credits transfer_credits moved in this day
  unrecorded, \* ghost: the part of them whose record was lost with an answer
  excess      \* ghost: packs from blind and late payments above the threshold

vars == <<credits, usdc, hourSpent, daySpent, call, transfers, lowCached,
          buying, blind, late, cooldown, moved, unrecorded, excess>>
balance == <<credits, excess>>
calls == <<call, transfers>>
spent == <<hourSpent, daySpent>>
topups == <<usdc, lowCached, buying, blind, late, cooldown>>
ghosts == <<moved, unrecorded>>

Buyers == {"start", "loop", "heartbeat"}
NoPurchases == [b \in Buyers |-> 0]
NoCall == [pc |-> "none", tool |-> "none", amount |-> 0]

Init ==
  /\ credits \in 0..(Threshold + Pack)
  /\ usdc = Funds
  /\ hourSpent = 0
  /\ daySpent = 0
  /\ call = NoCall
  /\ transfers = 0
  /\ lowCached = FALSE
  /\ buying = NoPurchases
  /\ blind = NoPurchases
  /\ late = 0
  /\ cooldown = {}
  /\ moved = 0
  /\ unrecorded = 0
  /\ excess = 0

\* The balance changes; what was bought in excess is used up below the threshold.
Spend(a) ==
  /\ a <= credits
  /\ credits' = credits - a
  /\ excess' = IF credits' < Threshold THEN 0 ELSE excess

(***************************************************************************)
(* The rules for transfer_credits, in the order of the engine; the first   *)
(* denial wins, and quarantine keeps the tool from running as well.  No    *)
(* rule looks at fund_child: its authority rule admits agent and creator.  *)
(***************************************************************************)
\* checkLimit() compares what is spent already and forgets the amount asked.
WithinLimits_Bug(a) == hourSpent < HourCap /\ daySpent < DayCap
WithinLimits(a) == hourSpent + a <= HourCap /\ daySpent + a <= DayCap

Allowed(a) ==
  /\ a <= MaxSingle
  /\ WithinLimits(a)
  /\ transfers < PerTurn
  /\ a <= ConfirmAbove

\* executeTool() up to the first await of the tool: the balance.
Deny(a) ==
  /\ call = NoCall
  /\ transfers < MaxCalls
  /\ ~Allowed(a)
  /\ transfers' = transfers + 1
  /\ UNCHANGED <<balance, spent, call, topups, ghosts>>

CallTransfer(a) ==
  /\ call = NoCall
  /\ transfers < MaxCalls
  /\ Allowed(a)
  /\ call' = [pc |-> "balance", tool |-> "transfer_credits", amount |-> a]
  /\ UNCHANGED <<balance, spent, transfers, topups, ghosts>>

CallFundChild(a) ==
  /\ call = NoCall
  /\ call' = [pc |-> "balance", tool |-> "fund_child", amount |-> a]
  /\ UNCHANGED <<balance, spent, transfers, topups, ghosts>>

Transferring == call.tool = "transfer_credits"

\* The tool returned or threw; a turn counts every result of transfer_credits.
Ended ==
  /\ call' = NoCall
  /\ transfers' = IF Transferring THEN transfers + 1 ELSE transfers

\* No more than half of the balance the call has just read.
SelfPreservation ==
  /\ call.pc = "balance"
  /\ IF 2 * call.amount > credits
       THEN Ended
       ELSE /\ call' = [call EXCEPT !.pc = "transfer"]
            /\ UNCHANGED transfers
  /\ UNCHANGED <<balance, spent, topups, ghosts>>

\* The service moves the credits.  A path it does not know is answered with 404
\* and the next path is tried; nothing else is sent a second time.
Move ==
  /\ call.pc = "transfer"
  /\ Spend(call.amount)
  /\ moved' = IF Transferring THEN moved + call.amount ELSE moved
  /\ call' = [call EXCEPT !.pc = "moved"]
  /\ UNCHANGED <<spent, transfers, topups, unrecorded>>

Refused ==
  /\ call.pc \in {"balance", "transfer"}
  /\ Ended
  /\ UNCHANGED <<balance, spent, topups, ghosts>>

\* Only the first transfer of a turn is recorded.
Record_Bug ==
  /\ call.pc = "moved"
  /\ IF Transferring /\ transfers = 0
       THEN /\ hourSpent' = hourSpent + call.amount
            /\ daySpent' = daySpent + call.amount
       ELSE UNCHANGED spent
  /\ Ended
  /\ UNCHANGED <<balance, topups, ghosts>>

\* The tool returns and executeTool() records what it was asked to transfer.
Record ==
  /\ call.pc = "moved"
  /\ IF Transferring
       THEN /\ hourSpent' = hourSpent + call.amount
            /\ daySpent' = daySpent + call.amount
       ELSE UNCHANGED spent
  /\ Ended
  /\ UNCHANGED <<balance, topups, ghosts>>

\* The answer does not arrive: the tool throws, and nothing is recorded.
AnswerLost ==
  /\ call.pc = "moved"
  /\ unrecorded' = IF Transferring THEN unrecorded + call.amount ELSE unrecorded
  /\ Ended
  /\ UNCHANGED <<balance, spent, topups, moved>>

EndTurn ==
  /\ call = NoCall
  /\ transfers > 0
  /\ transfers' = 0
  /\ UNCHANGED <<balance, spent, call, topups, ghosts>>

(***************************************************************************)
(* Top-ups nobody asked for.  Each buyer decides by the balance it reads   *)
(* and looks only at its own cool-down.  The loop is between two tool      *)
(* calls then; the heartbeat and the start run beside it, and each waits   *)
(* for the chain while the others decide.                                  *)
(***************************************************************************)
Limit(b) ==
  CASE b = "start" -> Threshold - 1
    [] b = "loop" -> Low
    [] b = "heartbeat" -> Critical

\* getFinancialState() could read the balance and keeps it in kv.
LoopReads ==
  /\ call = NoCall
  /\ lowCached' = (credits <= Low)
  /\ UNCHANGED <<balance, spent, calls, usdc, buying, blind, late, cooldown, ghosts>>

RightToBuy(b) == credits <= Limit(b)

\* The balance a buyer goes by: the start and the heartbeat take a reading that
\* failed for 0, the loop takes the one in kv, which others may have outdated.
ReadsLow(b) ==
  \/ RightToBuy(b)
  \/ b \in {"start", "heartbeat"}
  \/ b = "loop" /\ lowCached

\* No cool-down: a body of the heartbeat that timed out may still be paying.
MayBuy_Bug(b) == ReadsLow(b)
MayBuy(b) == b \notin cooldown /\ ReadsLow(b)

\* An attempt; if the wallet cannot pay, only its key in kv is set.
DecideToBuy(b) ==
  /\ MayBuy(b)
  /\ b = "loop" => call = NoCall
  /\ \/ usdc = 0 /\ UNCHANGED <<buying, blind>>
     \/ /\ usdc > 0
        /\ RightToBuy(b)
        /\ buying' = [buying EXCEPT ![b] = @ + 1]
        /\ UNCHANGED blind
     \/ /\ usdc > 0
        /\ ~RightToBuy(b)
        /\ blind' = [blind EXCEPT ![b] = @ + 1]
        /\ UNCHANGED buying
  /\ cooldown' = cooldown \union {b}
  /\ UNCHANGED <<balance, spent, calls, usdc, lowCached, late, ghosts>>

\* bootstrapTopup() reads the balance in USDC and pays with it.
Paid(more) ==
  IF usdc > 0
    THEN /\ credits' = credits + Pack
         /\ usdc' = usdc - 1
         /\ excess' = IF credits' < Threshold THEN 0 ELSE excess + more
    ELSE UNCHANGED <<balance, usdc>>

Buy(b) ==
  /\ \/ /\ buying[b] > 0
        /\ buying' = [buying EXCEPT ![b] = @ - 1]
        /\ Paid(0)
        /\ UNCHANGED blind
     \/ /\ blind[b] > 0
        /\ blind' = [blind EXCEPT ![b] = @ - 1]
        /\ Paid(1)
        /\ UNCHANGED buying
  /\ UNCHANGED <<spent, calls, lowCached, late, cooldown, ghosts>>

\* What may be on its way when n requests end without an answer; bound: no more
\* payments than the wallet can pay.
LateAfter(n) == {l \in late .. (late + n) : l = late \/ l <= usdc}

\* Nothing is bought, or the request times out and the payment is still on its way.
BuyFails(b) ==
  /\ \/ /\ buying[b] > 0
        /\ buying' = [buying EXCEPT ![b] = @ - 1]
        /\ UNCHANGED blind
     \/ /\ blind[b] > 0
        /\ blind' = [blind EXCEPT ![b] = @ - 1]
        /\ UNCHANGED buying
  /\ late' \in LateAfter(1)
  /\ UNCHANGED <<balance, usdc, spent, calls, lowCached, cooldown, ghosts>>

LatePayment ==
  /\ late > 0
  /\ late' = late - 1
  /\ Paid(1) \/ UNCHANGED <<balance, usdc>>
  /\ UNCHANGED <<spent, calls, lowCached, buying, blind, cooldown, ghosts>>

\* One minute for the loop, five for the heartbeat: a request has timed out by
\* then.  The start buys once.
CooldownEnds(b) ==
  /\ b \in cooldown
  /\ buying[b] + blind[b] = 0
  /\ b # "start"
  /\ cooldown' = cooldown \ {b}
  /\ UNCHANGED <<balance, usdc, spent, calls, lowCached, buying, blind, late, ghosts>>

(***************************************************************************)
(* Inference and everything else that costs credits.                       *)
(***************************************************************************)
OtherSpending ==
  /\ Spend(1)
  /\ UNCHANGED <<spent, calls, topups, ghosts>>

HourEnds ==
  /\ hourSpent > 0
  /\ hourSpent' = 0
  /\ UNCHANGED <<balance, daySpent, calls, topups, ghosts>>

\* A new day; the ghosts start again with what is neither recorded nor lost yet.
DayEnds ==
  /\ daySpent + unrecorded > 0
  /\ hourSpent' = 0
  /\ daySpent' = 0
  /\ unrecorded' = 0
  /\ moved' = IF call.pc = "moved" /\ Transferring THEN call.amount ELSE 0
  /\ UNCHANGED <<balance, calls, topups>>

\* A kill; the start of the next process may buy again.
Killed ==
  /\ call # NoCall \/ transfers > 0 \/ "start" \in cooldown \/ <<buying, blind>> # <<NoPurchases, NoPurchases>>
  /\ unrecorded' = IF call.pc = "moved" /\ Transferring
                     THEN unrecorded + call.amount ELSE unrecorded
  /\ call' = NoCall
  /\ transfers' = 0
  /\ buying' = NoPurchases
  /\ blind' = NoPurchases
  /\ late' \in LateAfter(Funds)
  /\ cooldown' = cooldown \ {"start"}
  /\ UNCHANGED <<balance, usdc, lowCached, spent, moved>>

Next ==
  \/ \E a \in Amounts : Deny(a) \/ CallTransfer(a) \/ CallFundChild(a)
  \/ SelfPreservation \/ Move \/ Refused \/ Record \/ AnswerLost \/ EndTurn
  \/ \E b \in Buyers : DecideToBuy(b) \/ Buy(b) \/ BuyFails(b) \/ CooldownEnds(b)
  \/ LoopReads \/ LatePayment
  \/ OtherSpending \/ HourEnds \/ DayEnds \/ Killed

Spec == Init /\ [][Next]_vars

-----------------------------------------------------------------------------
TypeOK ==
  /\ {credits, usdc, hourSpent, daySpent, transfers, moved, unrecorded} \subseteq Nat
  /\ call \in [pc : {"none", "balance", "transfer", "moved"},
               tool : {"none", "transfer_credits", "fund_child"}, amount : Amounts \union {0}]
  /\ {late, excess} \subseteq Nat
  /\ lowCached \in BOOLEAN
  /\ buying \in [Buyers -> 0..1]
  /\ blind \in [Buyers -> 0..1]
  /\ cooldown \subseteq Buyers

\* What spend_tracking holds for an hour or a day stays within its cap, although
\* the rule reads one window and the record may fall into the next.
RecordedWithinCaps == hourSpent <= HourCap /\ daySpent <= DayCap

\* The credits transfer_credits really moves in a day exceed the daily cap at
\* most by transfers whose answer was lost: every other one is in the table
\* before the next one is checked.
MovedWithinCap == moved <= DayCap + unrecorded

\* Top-ups nobody asked for do not pile up but by what nobody could know: the
\* cool-downs are not shared, so all three may buy for one shortage, and nobody buys
\* twice for it.  Whatever lies above that was bought since the balance was last below
\* the threshold by a payment decided on a wrong balance or given up by its buyer.
AutoTopUpsBounded ==
  credits + Pack * (buying["start"] + buying["loop"] + buying["heartbeat"])
    < Threshold + 3 * Pack + Pack * excess
=============================================================================
