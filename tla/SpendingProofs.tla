--------------------------- MODULE SpendingProofs ---------------------------
(***************************************************************************)
(* Safety of module Spending, for all caps, tiers and amounts.             *)
(*                                                                         *)
(* The caps are not inductive by themselves: a transfer is recorded long   *)
(* after it was allowed.  CallFits says that what was allowed still fits   *)
(* when it is recorded, because the only thing that happens to the sums in *)
(* between is that a window ends.  MovedAccounted splits the credits moved *)
(* into those recorded, those lost with an answer and those whose tool is  *)
(* about to return, and OneEach says that a buyer's cool-down outlasts its *)
(* purchase, the one on a wrong balance as well.                           *)
(***************************************************************************)
EXTENDS Spending, TLAPS

\* The transfer under way fits into the windows, as it did when it was allowed.
CallFits ==
  /\ call.pc = "none" => call = NoCall
  /\ Transferring => WithinLimits(call.amount)

InFlight == IF call.pc = "moved" /\ Transferring THEN call.amount ELSE 0

MovedAccounted == moved = daySpent + unrecorded + InFlight

OneEach == \A b \in Buyers : buying[b] > 0 \/ blind[b] > 0 => b \in cooldown

IInv ==
  /\ TypeOK
  /\ RecordedWithinCaps
  /\ CallFits
  /\ MovedAccounted
  /\ OneEach
  /\ AutoTopUpsBounded

USE AmountsPos, CapsNat, TiersOrdered

\* The type invariant, one number at a time.
LEMMA Numbers ==
  ASSUME TypeOK
  PROVE  /\ credits \in Nat /\ usdc \in Nat /\ hourSpent \in Nat /\ daySpent \in Nat
         /\ transfers \in Nat /\ moved \in Nat /\ unrecorded \in Nat /\ call.amount \in Nat
         /\ late \in Nat /\ excess \in Nat
         /\ \A b \in Buyers : buying[b] \in 0..1 /\ blind[b] \in 0..1
<1>1. call.amount \in Nat
  <2>1. call.amount \in Amounts \union {0}
    BY DEF TypeOK
  <2>2. \A a \in Amounts \union {0} : a \in Nat
    BY AmountsPos
  <2> QED  BY <2>1, <2>2, Zenon
<1>2. /\ credits \in Nat /\ usdc \in Nat /\ hourSpent \in Nat /\ daySpent \in Nat
      /\ transfers \in Nat /\ moved \in Nat /\ unrecorded \in Nat
      /\ late \in Nat /\ excess \in Nat
  BY DEF TypeOK
<1>3. \A b \in Buyers : buying[b] \in 0..1 /\ blind[b] \in 0..1
  BY DEF TypeOK
<1> QED  BY <1>1, <1>2, <1>3

LEMMA InitInv == Init => IInv
<1> SUFFICES ASSUME Init PROVE IInv
  OBVIOUS
<1>1. TypeOK /\ OneEach
  <2>1. lowCached \in BOOLEAN
    BY Zenon DEF Init
  <2>2. NoPurchases \in [Buyers -> 0..1] /\ \A b \in Buyers : NoPurchases[b] = 0
    BY DEF NoPurchases
  <2>3. OneEach
    BY <2>2 DEF Init, OneEach
  <2>4. TypeOK
    BY <2>1, <2>2 DEF Init, TypeOK, NoCall
  <2> QED  BY <2>3, <2>4
<1>2. RecordedWithinCaps /\ CallFits /\ MovedAccounted
  BY DEF Init, RecordedWithinCaps, CallFits, MovedAccounted, InFlight, NoCall, Transferring
<1>3. AutoTopUpsBounded
  <2>1. buying["start"] = 0 /\ buying["loop"] = 0 /\ buying["heartbeat"] = 0
    BY DEF Init, Buyers, NoPurchases
  <2>2. credits <= Threshold + Pack /\ credits \in Nat /\ excess = 0
    BY DEF Init
  <2> QED  BY <2>1, <2>2 DEF AutoTopUpsBounded
<1> QED  BY <1>1, <1>2, <1>3 DEF IInv

(***************************************************************************)
(* The steps of a tool call.                                               *)
(***************************************************************************)
LEMMA BeginsInv ==
  ASSUME IInv, NEW a \in Amounts, Deny(a) \/ CallTransfer(a) \/ CallFundChild(a)
  PROVE  IInv'
<1>1. TypeOK' /\ OneEach'
  BY DEF IInv, TypeOK, OneEach, Deny, CallTransfer, CallFundChild, spent, topups, ghosts, balance, NoCall
<1>2. RecordedWithinCaps' /\ AutoTopUpsBounded'
  BY DEF IInv, RecordedWithinCaps, AutoTopUpsBounded, Deny, CallTransfer, CallFundChild,
     spent, topups, ghosts, balance
<1>3. CallFits' /\ MovedAccounted'
  BY DEF IInv, TypeOK, CallFits, MovedAccounted, InFlight, Transferring, Allowed, WithinLimits,
     Deny, CallTransfer, CallFundChild, spent, topups, ghosts, NoCall
<1> QED  BY <1>1, <1>2, <1>3 DEF IInv

LEMMA EndsInv ==
  ASSUME IInv, SelfPreservation \/ Refused \/ Record \/ AnswerLost \/ EndTurn
  PROVE  IInv'
<1>1. TypeOK'
  BY DEF IInv, TypeOK, SelfPreservation, Refused, Record, AnswerLost, EndTurn, Ended,
     spent, topups, ghosts, balance, NoCall, Transferring
<1>2. RecordedWithinCaps'
  BY DEF IInv, TypeOK, RecordedWithinCaps, CallFits, WithinLimits, SelfPreservation, Refused,
     Record, AnswerLost, EndTurn, spent
<1>3. CallFits'
  BY DEF IInv, TypeOK, CallFits, WithinLimits, Transferring, SelfPreservation, Refused, Record,
     AnswerLost, EndTurn, Ended, NoCall, spent
<1>4. MovedAccounted'
  BY DEF IInv, TypeOK, MovedAccounted, InFlight, Transferring, SelfPreservation, Refused, Record,
     AnswerLost, EndTurn, Ended, NoCall, spent, ghosts
<1>5. OneEach' /\ AutoTopUpsBounded'
  BY DEF IInv, OneEach, AutoTopUpsBounded, SelfPreservation, Refused, Record, AnswerLost,
     EndTurn, topups, balance
<1> QED  BY <1>1, <1>2, <1>3, <1>4, <1>5 DEF IInv

\* Credits that are spent leave the bound where it was or bring the balance below the
\* threshold, where the three purchases alone keep it.
LEMMA SpendBounded ==
  ASSUME TypeOK, AutoTopUpsBounded, NEW a \in Nat, Spend(a), buying' = buying
  PROVE  credits' \in Nat /\ excess' \in Nat /\ AutoTopUpsBounded'
<1>1. /\ credits \in Nat /\ excess \in Nat /\ credits' = credits - a /\ a <= credits
      /\ excess' = IF credits' < Threshold THEN 0 ELSE excess
  BY Numbers DEF Spend
<1>2. PICK n \in 0..3 : n = buying["start"] + buying["loop"] + buying["heartbeat"]
  <2>1. buying["start"] \in 0..1 /\ buying["loop"] \in 0..1 /\ buying["heartbeat"] \in 0..1
    BY Numbers DEF Buyers
  <2> QED  BY <2>1
<1>3. credits + Pack * n < Threshold + 3 * Pack + Pack * excess
  BY <1>2 DEF AutoTopUpsBounded
<1>4. Pack * n <= 3 * Pack /\ Pack * n \in Nat /\ Pack * excess \in Nat
  BY <1>1, <1>2
<1>5. credits' + Pack * n < Threshold + 3 * Pack + Pack * excess'
  <2>1. CASE credits' < Threshold
    BY <1>1, <1>4, <2>1
  <2>2. CASE ~(credits' < Threshold)
    BY <1>1, <1>3, <1>4, <2>2
  <2> QED  BY <2>1, <2>2
<1>6. AutoTopUpsBounded'
  <2>1. buying'["start"] + buying'["loop"] + buying'["heartbeat"] = n
    BY <1>2
  <2> QED  BY <1>5, <2>1 DEF AutoTopUpsBounded
<1>7. credits' \in Nat /\ excess' \in Nat
  BY <1>1
<1> QED  BY <1>6, <1>7

LEMMA MoveInv == IInv /\ Move => IInv'
<1> SUFFICES ASSUME IInv, Move PROVE IInv'
  OBVIOUS
<1>0. /\ credits' \in Nat /\ excess' \in Nat /\ AutoTopUpsBounded'
      /\ call.amount \in Nat
  <2>1. TypeOK /\ AutoTopUpsBounded /\ call.amount \in Nat
    BY Numbers DEF IInv
  <2>2. Spend(call.amount) /\ buying' = buying
    BY DEF Move, topups
  <2> QED  BY <2>1, <2>2, SpendBounded
<1>1. TypeOK' /\ OneEach'
  BY <1>0 DEF IInv, TypeOK, OneEach, Move, spent, topups, Transferring
<1>2. RecordedWithinCaps' /\ CallFits'
  BY DEF IInv, TypeOK, RecordedWithinCaps, CallFits, WithinLimits, Transferring, Move, spent
<1>3. MovedAccounted'
  BY DEF IInv, TypeOK, MovedAccounted, InFlight, Transferring, Move, spent
<1> QED  BY <1>0, <1>1, <1>2, <1>3 DEF IInv

(***************************************************************************)
(* The buyers.  What is bought and what is still to be bought together     *)
(* only grow where somebody decides to buy, which happens below Threshold. *)
(***************************************************************************)
\* The bound speaks of the sum of the purchases under way.
Packs == Pack * (buying["start"] + buying["loop"] + buying["heartbeat"])

LEMMA PurchaseChanges ==
  ASSUME IInv, NEW b \in Buyers, NEW n \in {0, 1}, buying' = [buying EXCEPT ![b] = n]
  PROVE  Packs' = Packs + Pack * n - Pack * buying[b]
<1>1. /\ buying \in [Buyers -> 0..1]
      /\ Pack \in Nat
  BY DEF IInv, TypeOK
<1>2. CASE b = "start"
  BY <1>1, <1>2 DEF Packs, Buyers
<1>3. CASE b = "loop"
  BY <1>1, <1>3 DEF Packs, Buyers
<1>4. CASE b = "heartbeat"
  BY <1>1, <1>4 DEF Packs, Buyers
<1> QED  BY <1>2, <1>3, <1>4 DEF Buyers

\* Three purchases at most are under way that were decided on the right balance.
LEMMA ThreePacks ==
  ASSUME NEW f \in [Buyers -> 0..1]
  PROVE  LET packs == Pack * (f["start"] + f["loop"] + f["heartbeat"])
         IN  packs \in Nat /\ packs <= 3 * Pack
<1>1. f["start"] \in 0..1 /\ f["loop"] \in 0..1 /\ f["heartbeat"] \in 0..1
  BY DEF Buyers
<1>2. PICK n \in 0..3 : n = f["start"] + f["loop"] + f["heartbeat"]
  BY <1>1
<1>3. Pack * n \in Nat /\ Pack * n <= 3 * Pack
  BY <1>2
<1> QED  BY <1>2, <1>3

LEMMA PacksBounded ==
  ASSUME TypeOK
  PROVE  Packs \in Nat /\ Packs <= 3 * Pack
<1>1. buying \in [Buyers -> 0..1]
  BY DEF TypeOK
<1> QED  BY <1>1, ThreePacks DEF Packs

LEMMA PacksBoundedNext ==
  ASSUME TypeOK'
  PROVE  Packs' \in Nat /\ Packs' <= 3 * Pack
<1>1. buying' \in [Buyers -> 0..1]
  BY DEF TypeOK
<1> QED  BY <1>1, ThreePacks DEF Packs

\* A purchase that ends was the only one of its buyer.
LEMMA LastPurchase ==
  ASSUME TypeOK, NEW b \in Buyers, buying[b] > 0, buying' = [buying EXCEPT ![b] = @ - 1]
  PROVE  buying[b] = 1 /\ buying' = [buying EXCEPT ![b] = 0]
<1>1. buying[b] \in 0..1
  BY Numbers
<1>2. buying[b] = 1
  BY <1>1
<1>3. buying[b] - 1 = 0
  BY <1>2
<1> QED  BY <1>2, <1>3

\* The part of the invariant that is about tool calls does not see the buyers.
LEMMA CallsUntouched ==
  ASSUME IInv, UNCHANGED <<hourSpent, daySpent, call, transfers, moved, unrecorded>>
  PROVE  RecordedWithinCaps' /\ CallFits' /\ MovedAccounted'
BY DEF IInv, RecordedWithinCaps, CallFits, WithinLimits, MovedAccounted, InFlight,
       Transferring

LEMMA DecideInv ==
  ASSUME IInv, NEW b \in Buyers, DecideToBuy(b)
  PROVE  IInv'
<1>0. RecordedWithinCaps' /\ CallFits' /\ MovedAccounted'
  BY CallsUntouched DEF DecideToBuy, spent, calls, ghosts
<1>1. buying[b] = 0 /\ blind[b] = 0
  BY DEF IInv, TypeOK, OneEach, DecideToBuy, MayBuy
<1>2. TypeOK' /\ OneEach'
  BY <1>1 DEF IInv, TypeOK, OneEach, DecideToBuy, balance, spent, calls, ghosts
<1>3. credits' = credits /\ excess' = excess /\ credits \in Nat /\ excess \in Nat
  BY Numbers DEF IInv, DecideToBuy, balance
<1>4. AutoTopUpsBounded'
  <2>1. CASE buying' = buying
    BY <1>3, <2>1 DEF IInv, AutoTopUpsBounded
  <2>2. CASE RightToBuy(b)
    <3>1. credits < Threshold
      BY <2>2 DEF IInv, TypeOK, RightToBuy, Limit, Buyers
    <3>2. Packs' \in Nat /\ Packs' <= 3 * Pack
      BY <1>2, PacksBoundedNext
    <3>3. Pack * excess \in Nat
      BY <1>3
    <3>4. credits' + Packs' < Threshold + 3 * Pack + Pack * excess'
      BY <1>3, <3>1, <3>2, <3>3
    <3> QED  BY <3>4 DEF AutoTopUpsBounded, Packs
  <2> QED  BY <2>1, <2>2 DEF DecideToBuy
<1> QED  BY <1>0, <1>2, <1>4 DEF IInv

\* A pack arrives in place of a purchase under way, or raises the excess.
LEMMA PaidBounded ==
  ASSUME IInv, NEW more \in {0, 1}, Paid(more), TypeOK',
         Packs' = Packs \/ Packs' = Packs - Pack, more = 0 => Packs' = Packs - Pack
  PROVE  AutoTopUpsBounded'
<1>1. /\ credits \in Nat /\ excess \in Nat /\ Packs \in Nat /\ Packs' \in Nat
      /\ Packs' <= 3 * Pack /\ Pack \in Nat
      /\ credits + Packs < Threshold + 3 * Pack + Pack * excess
  <2>1. Packs \in Nat
    BY PacksBounded DEF IInv
  <2>2. Packs' \in Nat /\ Packs' <= 3 * Pack
    BY PacksBoundedNext
  <2> QED  BY <2>1, <2>2, Numbers DEF IInv, AutoTopUpsBounded, Packs
<1>2. Pack * excess \in Nat /\ Pack * (excess + 1) = Pack * excess + Pack
  BY <1>1
<1>3. credits' + Packs' < Threshold + 3 * Pack + Pack * excess'
  <2>1. CASE usdc = 0
    BY <1>1, <1>2, <2>1 DEF Paid, balance
  <2>2. CASE usdc # 0
    <3>1. /\ credits' = credits + Pack
          /\ excess' = IF credits' < Threshold THEN 0 ELSE excess + more
      BY <2>2 DEF IInv, TypeOK, Paid
    <3>2. CASE credits' < Threshold
      BY <1>1, <3>1, <3>2
    <3>3. CASE ~(credits' < Threshold) /\ more = 0
      BY <1>1, <1>2, <3>1, <3>3
    <3>4. CASE ~(credits' < Threshold) /\ more = 1
      BY <1>1, <1>2, <3>1, <3>4
    <3> QED  BY <3>2, <3>3, <3>4
  <2> QED  BY <2>1, <2>2
<1> QED  BY <1>3 DEF AutoTopUpsBounded, Packs

LEMMA BuyInv ==
  ASSUME IInv, NEW b \in Buyers, Buy(b)
  PROVE  IInv'
<1>0. RecordedWithinCaps' /\ CallFits' /\ MovedAccounted'
  BY CallsUntouched DEF Buy, spent, calls, ghosts
<1>1. TypeOK' /\ OneEach'
  BY Numbers DEF IInv, TypeOK, OneEach, Buy, Paid, balance, spent, calls, ghosts
<1>2. AutoTopUpsBounded'
  <2>1. CASE buying[b] > 0 /\ buying' = [buying EXCEPT ![b] = @ - 1] /\ Paid(0)
    <3>1. buying[b] = 1 /\ buying' = [buying EXCEPT ![b] = 0]
      BY <2>1, LastPurchase DEF IInv
    <3>2. Packs' = Packs + Pack * 0 - Pack * buying[b]
      BY <3>1, PurchaseChanges
    <3>3. Packs' = Packs - Pack
      BY <3>1, <3>2, PacksBounded DEF IInv
    <3> QED  BY <1>1, <2>1, <3>3, PaidBounded
  <2>2. CASE buying' = buying /\ Paid(1)
    <3>1. Packs' = Packs
      BY <2>2 DEF Packs
    <3> QED  BY <1>1, <2>2, <3>1, PaidBounded
  <2> QED  BY <2>1, <2>2 DEF Buy
<1> QED  BY <1>0, <1>1, <1>2 DEF IInv

LEMMA BuyFailsInv ==
  ASSUME IInv, NEW b \in Buyers, BuyFails(b)
  PROVE  IInv'
<1>0. RecordedWithinCaps' /\ CallFits' /\ MovedAccounted'
  BY CallsUntouched DEF BuyFails, spent, calls, ghosts
<1>1. TypeOK' /\ OneEach'
  <2>1. late' \in Nat
    BY Numbers DEF IInv, BuyFails, LateAfter
  <2> QED  BY <2>1 DEF IInv, TypeOK, OneEach, BuyFails, balance, spent, calls, ghosts
<1>2. AutoTopUpsBounded'
  <2>1. credits' = credits /\ excess' = excess
    BY DEF BuyFails, balance
  <2>2. CASE buying' = buying
    BY <2>1, <2>2 DEF IInv, AutoTopUpsBounded
  <2>3. CASE buying[b] > 0 /\ buying' = [buying EXCEPT ![b] = @ - 1]
    <3>1. buying[b] = 1 /\ buying' = [buying EXCEPT ![b] = 0]
      BY <2>3, LastPurchase DEF IInv
    <3>2. Packs' = Packs + Pack * 0 - Pack * buying[b]
      BY <3>1, PurchaseChanges
    <3>3. Packs' = Packs - Pack /\ Packs \in Nat
      BY <3>1, <3>2, PacksBounded DEF IInv
    <3>4. Pack * excess \in Nat
      BY Numbers DEF IInv
    <3>5. credits' + Packs' < Threshold + 3 * Pack + Pack * excess'
      BY <2>1, <3>3, <3>4, Numbers DEF IInv, AutoTopUpsBounded, Packs
    <3> QED  BY <3>5 DEF AutoTopUpsBounded, Packs
  <2> QED  BY <2>2, <2>3 DEF BuyFails
<1> QED  BY <1>0, <1>1, <1>2 DEF IInv

LEMMA LateInv == IInv /\ LatePayment => IInv'
<1> SUFFICES ASSUME IInv, LatePayment PROVE IInv'
  OBVIOUS
<1>0. RecordedWithinCaps' /\ CallFits' /\ MovedAccounted'
  BY CallsUntouched DEF LatePayment, spent, calls, ghosts
<1>1. TypeOK' /\ OneEach'
  BY Numbers DEF IInv, TypeOK, OneEach, LatePayment, Paid, balance, spent, calls, ghosts
<1>2. AutoTopUpsBounded'
  <2>1. Packs' = Packs /\ buying' = buying
    BY DEF Packs, LatePayment
  <2>2. CASE Paid(1)
    BY <1>1, <2>1, <2>2, PaidBounded
  <2>3. CASE UNCHANGED <<balance, usdc>>
    BY <2>1, <2>3 DEF IInv, AutoTopUpsBounded, balance
  <2> QED  BY <2>2, <2>3 DEF LatePayment
<1> QED  BY <1>0, <1>1, <1>2 DEF IInv

LEMMA CooldownInv ==
  ASSUME IInv, (\E b \in Buyers : CooldownEnds(b)) \/ LoopReads
  PROVE  IInv'
<1>0. RecordedWithinCaps' /\ CallFits' /\ MovedAccounted'
  BY CallsUntouched DEF CooldownEnds, LoopReads, spent, calls, ghosts
<1>1. TypeOK' /\ OneEach'
  <2>1. (credits <= Low) \in BOOLEAN
    OBVIOUS
  <2>2. lowCached' \in BOOLEAN
    BY <2>1 DEF IInv, TypeOK, CooldownEnds, LoopReads
  <2>3. CASE LoopReads
    BY <2>2, <2>3 DEF IInv, TypeOK, OneEach, LoopReads, balance, spent, calls, ghosts
  <2>4. CASE \E b \in Buyers : CooldownEnds(b)
    BY <2>2, <2>4 DEF IInv, TypeOK, OneEach, CooldownEnds, balance, spent, calls, ghosts
  <2> QED  BY <2>3, <2>4
<1>2. AutoTopUpsBounded'
  BY DEF IInv, AutoTopUpsBounded, CooldownEnds, LoopReads, balance
<1> QED  BY <1>0, <1>1, <1>2 DEF IInv

(***************************************************************************)
(* Time, other spending and a kill.                                        *)
(***************************************************************************)
LEMMA OthersInv ==
  ASSUME IInv, OtherSpending \/ HourEnds \/ DayEnds
  PROVE  IInv'
<1> USE DEF OtherSpending, HourEnds, DayEnds, balance, spent, calls, topups, ghosts,
            Transferring
<1>5. credits' \in Nat /\ excess' \in Nat /\ AutoTopUpsBounded'
  <2>1. CASE OtherSpending
    <3>1. TypeOK /\ AutoTopUpsBounded /\ Spend(1) /\ buying' = buying /\ 1 \in Nat
      BY <2>1 DEF IInv
    <3> QED  BY <3>1, SpendBounded
  <2>2. CASE HourEnds \/ DayEnds
    BY <2>2, Numbers DEF IInv, AutoTopUpsBounded
  <2> QED  BY <2>1, <2>2
<1>0. TypeOK /\ call' = call /\ buying' = buying /\ cooldown' = cooldown /\ transfers' = transfers
  BY DEF IInv
<1>1. /\ usdc' \in Nat /\ late' \in Nat /\ lowCached' = lowCached
      /\ hourSpent' \in Nat /\ hourSpent' <= hourSpent
      /\ daySpent' \in Nat /\ daySpent' <= daySpent
      /\ moved' \in Nat /\ unrecorded' \in Nat
  BY <1>0, Numbers
<1>2. TypeOK' /\ OneEach'
  BY <1>0, <1>1, <1>5 DEF IInv, TypeOK, OneEach
<1>3. RecordedWithinCaps' /\ CallFits'
  BY <1>0, <1>1, Numbers DEF IInv, RecordedWithinCaps, CallFits, WithinLimits
<1>4. MovedAccounted'
  <2>1. InFlight' = InFlight /\ InFlight \in Nat
    BY <1>0, Numbers DEF InFlight
  <2>2. CASE OtherSpending \/ HourEnds
    BY <2>1, <2>2 DEF IInv, MovedAccounted
  <2>3. CASE DayEnds
    BY <2>1, <2>3 DEF MovedAccounted, InFlight
  <2> QED  BY <2>2, <2>3
<1> QED  BY <1>2, <1>3, <1>4, <1>5 DEF IInv

LEMMA KilledInv == IInv /\ Killed => IInv'
<1> SUFFICES ASSUME IInv, Killed PROVE IInv'
  OBVIOUS
<1>0. /\ TypeOK
      /\ unrecorded' = unrecorded + InFlight
      /\ InFlight \in Nat
  BY Numbers DEF IInv, Killed, InFlight
<1>1. TypeOK' /\ OneEach'
  <2>1. unrecorded' \in Nat /\ late' \in Nat
    BY <1>0, Numbers DEF Killed, LateAfter
  <2> QED
    BY <1>0, <2>1 DEF TypeOK, OneEach, Killed, balance, spent, NoCall, NoPurchases, Buyers
<1>2. RecordedWithinCaps' /\ CallFits'
  BY DEF IInv, RecordedWithinCaps, CallFits, Transferring, Killed, spent, NoCall
<1>4. MovedAccounted'
  <2>1. InFlight' = 0 /\ moved' = moved /\ daySpent' = daySpent
    BY DEF Killed, InFlight, NoCall, spent
  <2> QED  BY <1>0, <2>1, Numbers DEF IInv, MovedAccounted
<1>3. AutoTopUpsBounded'
  <2>1. /\ buying'["start"] = 0
        /\ buying'["loop"] = 0
        /\ buying'["heartbeat"] = 0
    BY DEF Killed, Buyers, NoPurchases
  <2>2. credits' = credits /\ credits \in Nat /\ excess' = excess /\ Pack * excess \in Nat
    BY Numbers DEF IInv, Killed, balance
  <2>3. Packs \in Nat /\ credits + Packs < Threshold + 3 * Pack + Pack * excess
    BY PacksBounded DEF IInv, AutoTopUpsBounded, Packs
  <2> QED  BY <2>1, <2>2, <2>3 DEF AutoTopUpsBounded
<1> QED  BY <1>1, <1>2, <1>3, <1>4 DEF IInv

LEMMA StepInv == IInv /\ [Next]_vars => IInv'
<1>1. CASE UNCHANGED vars
  <2>1. (TypeOK <=> TypeOK') /\ (OneEach <=> OneEach')
    BY <1>1 DEF vars, TypeOK, OneEach
  <2>2. (RecordedWithinCaps <=> RecordedWithinCaps') /\ (CallFits <=> CallFits')
    BY <1>1 DEF vars, RecordedWithinCaps, CallFits, WithinLimits, Transferring
  <2>3. (MovedAccounted <=> MovedAccounted') /\ (AutoTopUpsBounded <=> AutoTopUpsBounded')
    BY <1>1 DEF vars, MovedAccounted, InFlight, Transferring, AutoTopUpsBounded
  <2> QED  BY <2>1, <2>2, <2>3 DEF IInv
<1> QED
  BY <1>1, BeginsInv, EndsInv, MoveInv, DecideInv, BuyInv, BuyFailsInv, LateInv, CooldownInv,
     OthersInv, KilledInv DEF Next

LEMMA InvariantHolds == Spec => []IInv
<1> QED  BY InitInv, StepInv, PTL DEF Spec

(***************************************************************************)
(* The theorems.                                                           *)
(***************************************************************************)
\* Amounts stay natural numbers, and no buyer has two purchases under way.
THEOREM SpendingTypes == Spec => []TypeOK
<1>1. IInv => TypeOK
  BY DEF IInv
<1> QED  BY <1>1, InvariantHolds, PTL

\* The sums of spend_tracking never exceed the caps of the policy, although
\* evaluate() and recordSpend() are two calls of the service apart.
THEOREM CapsHold == Spec => []RecordedWithinCaps
<1>1. IInv => RecordedWithinCaps
  BY DEF IInv
<1> QED  BY <1>1, InvariantHolds, PTL

\* What transfer_credits moves in a day exceeds the cap at most by transfers
\* whose answer was lost.
THEOREM TransfersCapped == Spec => []MovedWithinCap
<1>1. ASSUME IInv PROVE MovedWithinCap
  <2>1. daySpent + InFlight <= DayCap
    BY <1>1, Numbers DEF IInv, InFlight, CallFits, WithinLimits, RecordedWithinCaps
  <2>2. InFlight \in Nat
    BY <1>1, Numbers DEF IInv, InFlight
  <2> QED  BY <1>1, <2>1, <2>2, Numbers DEF IInv, MovedWithinCap, MovedAccounted
<1> QED  BY <1>1, InvariantHolds, PTL

\* The three who buy credits unasked hold no more than one purchase each over the
\* threshold, but for packs paid for on a balance that was wrong or by a payment
\* whose buyer no longer waited for it.
THEOREM TopUpsBounded == Spec => []AutoTopUpsBounded
<1>1. IInv => AutoTopUpsBounded
  BY DEF IInv
<1> QED  BY <1>1, InvariantHolds, PTL
=============================================================================
