---------------------------- MODULE PipelineProofs ----------------------------
(***************************************************************************)
(* What a node's records of a trade say of each other, for any number of   *)
(* reservations, settlements and disputes.                                 *)
(***************************************************************************)
EXTENDS TradePipeline, Sums

-----------------------------------------------------------------------------
(* The liquidity behind reservations                                       *)

HoldsLiquidity(x) == x.state \in {"EscrowLocked", "Settling", "Settled"}
HeldBy(x) == IF HoldsLiquidity(x) THEN x.amount ELSE 0
HeldTotal(R) == SumFunction([r \in Reservations |-> HeldBy(R[r])])

\* What a record holds back is a natural.
LEMMA HeldByType == \A x \in ReservationType : HeldBy(x) \in Nat
  BY DEF HeldBy, ReservationType

\* The sum of the property is the sum of what each record holds back.
LEMMA CommittedIsHeld == AmountOf(Committed) = HeldTotal(reservation)
<1>1. [r \in Reservations |-> IF r \in Committed THEN reservation[r].amount ELSE 0]
        = [r \in Reservations |-> HeldBy(reservation[r])]
  BY DEF Committed, HeldBy, HoldsLiquidity
<1> QED BY <1>1 DEF AmountOf, HeldTotal

\* One record changing moves the total by what it holds back.
LEMMA OneReservation ==
  ASSUME NEW R \in [Reservations -> ReservationType], NEW Q \in [Reservations -> ReservationType],
         NEW r \in Reservations, \A q \in Reservations : q # r => Q[q] = R[q]
  PROVE  /\ HeldTotal(Q) = HeldTotal(R) + (HeldBy(Q[r]) - HeldBy(R[r]))
         /\ HeldTotal(R) \in Nat /\ HeldTotal(Q) \in Nat
<1> DEFINE f == [q \in Reservations |-> HeldBy(R[q])]
           g == [q \in Reservations |-> HeldBy(Q[q])]
<1>1. f \in [Reservations -> Nat] /\ g \in [Reservations -> Nat]
  BY HeldByType
<1>2. \A q \in Reservations : q # r => g[q] = f[q]
  OBVIOUS
<1>3. f[r] = HeldBy(R[r]) /\ g[r] = HeldBy(Q[r])
  OBVIOUS
<1>4. HeldTotal(R) = SumFunction(f) /\ HeldTotal(Q) = SumFunction(g)
  BY DEF HeldTotal
<1>5. IsFiniteSet(Reservations)
  BY PipelineAssumption
<1> HIDE DEF f, g
<1>6. f \in [Reservations -> Int] /\ g \in [Reservations -> Int]
  BY <1>1
<1>7. SumFunction(g) = SumFunction(f) + (g[r] - f[r])
  BY <1>2, <1>5, <1>6, SumFunctionChange, ZenonT(60)
<1>8. SumFunction(f) \in Nat /\ SumFunction(g) \in Nat
  BY <1>1, <1>5, SumFunctionType
<1> QED BY <1>3, <1>4, <1>7, <1>8

\* Records that hold back what they held add up to the same.
LEMMA SameHeld ==
  ASSUME NEW R \in [Reservations -> ReservationType], NEW Q \in [Reservations -> ReservationType],
         \A q \in Reservations : HeldBy(Q[q]) = HeldBy(R[q])
  PROVE  HeldTotal(Q) = HeldTotal(R)
<1>1. [q \in Reservations |-> HeldBy(Q[q])] = [q \in Reservations |-> HeldBy(R[q])]
  OBVIOUS
<1> QED BY <1>1 DEF HeldTotal

\* A sweep takes exactly the amounts of the reservations it expires out of the total.
LEMMA SweptTotal ==
  ASSUME reservation \in [Reservations -> ReservationType]
  PROVE  /\ Expired(Expirable) \in [Reservations -> ReservationType]
         /\ HeldTotal(reservation) = HeldTotal(Expired(Expirable)) + AmountOf(Expirable)
         /\ HeldTotal(Expired(Expirable)) \in Nat /\ AmountOf(Expirable) \in Nat
<1> DEFINE Q == Expired(Expirable)
           f == [q \in Reservations |-> HeldBy(Q[q])]
           g == [q \in Reservations |-> IF q \in Expirable THEN reservation[q].amount ELSE 0]
           h == [q \in Reservations |-> HeldBy(reservation[q])]
<1>1. Q \in [Reservations -> ReservationType]
  BY DEF Expired, ReservationType, ReservationStates
<1>2. g \in [Reservations -> Nat]
  BY DEF ReservationType
<1>3. f \in [Reservations -> Nat] /\ h \in [Reservations -> Nat]
  BY <1>1, HeldByType
<1>4. ASSUME NEW q \in Reservations PROVE h[q] = f[q] + g[q]
  <2>1. reservation[q] \in ReservationType
    OBVIOUS
  <2>2. CASE q \in Expirable
    <3>1. Q[q] = [reservation[q] EXCEPT !.state = "Expired"]
      BY <2>2 DEF Expired
    <3>2. Q[q].state = "Expired" /\ reservation[q].state = "EscrowLocked"
      BY <2>1, <2>2, <3>1 DEF ReservationType, Expirable
    <3>3. f[q] = 0 /\ g[q] = reservation[q].amount /\ h[q] = reservation[q].amount
      BY <2>2, <3>2 DEF HeldBy, HoldsLiquidity
    <3> QED BY <2>1, <3>3 DEF ReservationType
  <2>3. CASE q \notin Expirable
    <3>1. Q[q] = reservation[q]
      BY <2>3 DEF Expired
    <3>2. g[q] = 0 /\ h[q] = f[q] /\ f[q] \in Nat
      BY <1>3, <2>3, <3>1
    <3> QED BY <3>2
  <2> QED BY <2>2, <2>3
<1>5. HeldTotal(Q) = SumFunction(f) /\ AmountOf(Expirable) = SumFunction(g)
      /\ HeldTotal(reservation) = SumFunction(h)
  BY DEF HeldTotal, AmountOf
<1>6. IsFiniteSet(Reservations)
  BY PipelineAssumption
<1> HIDE DEF f, g, h
<1>7. f \in [Reservations -> Int] /\ g \in [Reservations -> Int] /\ h \in [Reservations -> Int]
  BY <1>2, <1>3
<1>8. SumFunction(h) = SumFunction(f) + SumFunction(g)
  BY <1>4, <1>6, <1>7, SumFunctionAdd
<1>9. SumFunction(f) \in Nat /\ SumFunction(g) \in Nat
  BY <1>2, <1>3, <1>6, SumFunctionType
<1> QED BY <1>1, <1>5, <1>8, <1>9

-----------------------------------------------------------------------------
(* The inductive invariant                                                 *)

\* Nothing is on offer or reserved before the advertisement exists.
Offered ==
  /\ ad.status = "none" => ad = NoAd /\ \A r \in Reservations : reservation[r].state = "none"
  /\ LiquidityCountedOnce

\* What settlement x that took reservation y over says of it.
Sole(x, y) ==
  x.held /\ ~x.disputed =>
    /\ x.state \in {"AwaitingPayment", "PaymentSubmitted", "Disputed"} => y.state = "Settling"
    /\ x.state \in {"Approved", "Completed"} => y.state = "Settled"

\* A frozen settlement remembers it was disputed.
FrozenIsMarked == \A s \in Settlements : settlement[s].state = "Disputed" => settlement[s].disputed

Holding == SettlingHasLiveSettlement /\ SoleSettlementHolds /\ FrozenIsMarked

\* A release is on record only of a settlement that has gone past it.
ReleasedLate(x) == x.release # "none" => x.state \in {"Completed", "Disputed", "Cancelled"}

Cases ==
  /\ FrozenByOneCase /\ VerdictDecidesSettlement
  /\ \A s \in Settlements : ReleasedLate(settlement[s])

PipelineInv == PipelineTypeOK /\ Offered /\ Holding /\ Cases

\* What the invariant is for.
LEMMA InvConserves == PipelineInv => LiquidityConserved
  BY DEF PipelineInv, Offered, Holding, LiquidityConserved

\* Nothing on record yet.
LEMMA InitPipeline == PipelineInit => PipelineInv
<1> SUFFICES ASSUME PipelineInit PROVE PipelineInv
  OBVIOUS
<1>1. \A r \in Reservations : reservation[r] = NoReservation
  BY DEF PipelineInit
<1>2. \A s \in Settlements : \E r \in Reservations : settlement[s] = NoSettlement(r)
  BY DEF PipelineInit
<1>3. \A d \in Disputes : \E s \in Settlements : dispute[d] = NoDispute(s)
  BY DEF PipelineInit
<1>4. \A r \in Reservations : NoSettlement(r) \in SettlementType
  BY DEF NoSettlement, SettlementType
<1>5. \A s \in Settlements : NoDispute(s) \in DisputeType
  BY DEF NoDispute, DisputeType
<1>6. PipelineTypeOK
  BY <1>4, <1>5 DEF PipelineInit, PipelineTypeOK, NoAd, AdType, NoReservation, ReservationType
<1>7. \A s \in Settlements : settlement[s].state = "none" /\ settlement[s].release = "none"
  <2>1. \A r : NoSettlement(r).state = "none" /\ NoSettlement(r).release = "none"
    BY DEF NoSettlement
  <2> QED BY <1>2, <2>1, ZenonT(60)
<1>8. \A d \in Disputes : dispute[d].status = "none"
  <2>1. \A s : NoDispute(s).status = "none"
    BY DEF NoDispute
  <2> QED BY <1>3, <2>1, ZenonT(60)
<1>9. Offered
  <2> DEFINE f == [r \in Reservations |-> HeldBy(reservation[r])]
  <2>1. f \in [Reservations -> Int] /\ \A r \in Reservations : f[r] = 0
    BY <1>1 DEF HeldBy, HoldsLiquidity, NoReservation
  <2>2. AmountOf(Committed) = SumFunction(f)
    BY CommittedIsHeld DEF HeldTotal
  <2>3. SumFunction(f) = 0
    <3> HIDE DEF f
    <3> QED BY <2>1, PipelineAssumption, SumFunctionZero
  <2> QED BY <1>1, <2>2, <2>3 DEF Offered, LiquidityCountedOnce, PipelineInit, NoAd, NoReservation
<1>10. Holding
  BY <1>1, <1>7 DEF Holding, SettlingHasLiveSettlement, SoleSettlementHolds, FrozenIsMarked, Of,
                    NoReservation
<1>11. Cases
  BY <1>7, <1>8 DEF Cases, FrozenByOneCase, VerdictDecidesSettlement, OpenAbout, ReleasedLate
<1> QED BY <1>6, <1>9, <1>10, <1>11 DEF PipelineInv

-----------------------------------------------------------------------------
(* Steps of reservations                                                   *)

\* A step that leaves the settlements alone, and moves no reservation into or out of the
\* hands of one, keeps what they say of each other.
FreeMove(x, y) ==
  y.state = x.state \/ (x.state \notin {"Settling", "Settled"} /\ y.state \notin {"Settling", "Settled"})

\* Settlements and reservations after such a step.
LEMMA HoldingElsewhere ==
  ASSUME Holding, settlement' = settlement,
         \A r \in Reservations : FreeMove(reservation[r], reservation'[r]), PipelineTypeOK
  PROVE  Holding'
<1>1. \A r \in Reservations :
        /\ reservation'[r].state = "Settling" <=> reservation[r].state = "Settling"
        /\ reservation'[r].state = "Settled" <=> reservation[r].state = "Settled"
  BY DEF FreeMove
<1>2. SettlingHasLiveSettlement'
  BY <1>1 DEF Holding, SettlingHasLiveSettlement, Of, Live
<1>3. SoleSettlementHolds'
  <2> SUFFICES ASSUME NEW s \in Settlements, (Of(settlement[s].reservation) = {s})',
                      settlement[s].held, ~settlement[s].disputed
               PROVE  LET r == settlement[s].reservation IN
                      /\ Live(s) => reservation'[r].state = "Settling"
                      /\ settlement[s].state \in {"Approved", "Completed"}
                           => reservation'[r].state = "Settled"
    BY DEF SoleSettlementHolds, Live
  <2>1. Of(settlement[s].reservation) = {s}
    BY DEF Of
  <2>2. settlement[s].reservation \in Reservations
    BY DEF PipelineTypeOK, SettlementType
  <2> QED BY <1>1, <2>1, <2>2 DEF Holding, SoleSettlementHolds
<1>4. FrozenIsMarked'
  BY DEF Holding, FrozenIsMarked
<1> QED BY <1>2, <1>3, <1>4 DEF Holding

\* A step that leaves settlements and disputes alone leaves the cases alone.
LEMMA CasesElsewhere ==
  ASSUME Cases, settlement' = settlement, dispute' = dispute
  PROVE  Cases' /\ ReleaseRecordedOnce
  BY DEF Cases, FrozenByOneCase, VerdictDecidesSettlement, OpenAbout, ReleasedLate,
         ReleaseRecordedOnce

\* What every step has to show.
StepOK == PipelineInv' /\ ReleaseRecordedOnce

\* The advertisement is created.
LEMMA CreateKeeps ==
  ASSUME PipelineInv, NEW l \in Nat, NEW t \in [min : Nat, max : Nat,
                                               methods : {"none", "selectable", "foreign"}],
         ApplyCreate(l, t)
  PROVE  StepOK
<1>1. /\ ad' = [status |-> "Active", available |-> l, min |-> t.min, max |-> t.max, initial |-> l]
      /\ ad.status = "none" /\ reservation' = reservation /\ settlement' = settlement
      /\ dispute' = dispute /\ relay' = relay
  BY DEF ApplyCreate
<1>2. PipelineTypeOK'
  BY <1>1 DEF PipelineInv, PipelineTypeOK, AdType, AdStatuses
<1>3. HeldTotal(reservation) \in Int
  <2>1. [r \in Reservations |-> HeldBy(reservation[r])] \in [Reservations -> Int]
    BY HeldByType DEF PipelineInv, PipelineTypeOK
  <2> QED BY <2>1, PipelineAssumption, SumFunctionType DEF HeldTotal
<1>4. HeldTotal(reservation) = 0
  <2>1. ad.available = 0 /\ ad.initial = 0
    BY <1>1 DEF PipelineInv, Offered, NoAd
  <2> QED BY <1>3, <2>1, CommittedIsHeld DEF PipelineInv, Offered, LiquidityCountedOnce
<1>5. AmountOf(Committed)' = HeldTotal(reservation)
  BY <1>1, CommittedIsHeld DEF AmountOf, Committed
<1>6. Offered'
  BY <1>1, <1>4, <1>5 DEF Offered, LiquidityCountedOnce
<1>7. Holding'
  BY <1>1, HoldingElsewhere DEF PipelineInv, FreeMove
<1>8. Cases' /\ ReleaseRecordedOnce
  BY <1>1, CasesElsewhere DEF PipelineInv
<1> QED BY <1>2, <1>6, <1>7, <1>8 DEF PipelineInv, StepOK

\* An edit of the advertisement that leaves its liquidity alone.
LEMMA EditKeeps ==
  ASSUME PipelineInv, ad.status # "none", ad' \in AdType, ad'.status # "none",
         ad'.available = ad.available, ad'.initial = ad.initial,
         UNCHANGED <<reservation, settlement, dispute, relay>>
  PROVE  StepOK
<1>1. PipelineTypeOK'
  BY DEF PipelineInv, PipelineTypeOK
<1>2. AmountOf(Committed)' = AmountOf(Committed)
  BY DEF AmountOf, Committed
<1>3. Offered'
  BY <1>2 DEF PipelineInv, Offered, LiquidityCountedOnce
<1>4. Holding'
  BY HoldingElsewhere DEF PipelineInv, FreeMove
<1>5. Cases' /\ ReleaseRecordedOnce
  BY CasesElsewhere DEF PipelineInv
<1> QED BY <1>1, <1>3, <1>4, <1>5 DEF PipelineInv, StepOK

\* The merchant sets its status.
LEMMA StatusSetKeeps ==
  ASSUME PipelineInv, NEW st \in AdStatuses, ApplyStatusSet(st) PROVE StepOK
<1>1. ad \in AdType /\ ad.status # "none" /\ ad' = [ad EXCEPT !.status = st]
      /\ UNCHANGED <<reservation, settlement, dispute, relay>>
  BY DEF PipelineInv, PipelineTypeOK, ApplyStatusSet, Authorized
<1>2. ad' \in AdType /\ ad'.status # "none" /\ ad'.available = ad.available
      /\ ad'.initial = ad.initial
  BY <1>1 DEF AdType, AdStatuses
<1> QED BY <1>1, <1>2, EditKeeps

\* The merchant changes its terms.
LEMMA TermsUpdateKeeps ==
  ASSUME PipelineInv, NEW t \in [min : Nat, max : Nat,
                                 methods : {"none", "selectable", "foreign"}],
         ApplyTermsUpdate(t)
  PROVE  StepOK
<1>1. ad \in AdType /\ ad.status # "none" /\ ad' = [ad EXCEPT !.min = t.min, !.max = t.max]
      /\ UNCHANGED <<reservation, settlement, dispute, relay>>
  BY DEF PipelineInv, PipelineTypeOK, ApplyTermsUpdate, Authorized
<1>2. ad' \in AdType /\ ad'.status # "none" /\ ad'.available = ad.available
      /\ ad'.initial = ad.initial
  BY <1>1, ZenonT(60) DEF AdType, AdStatuses
<1> QED BY <1>1, <1>2, EditKeeps

\* A step of reservations alone that keeps the money.
LEMMA ReservationKeeps ==
  ASSUME PipelineInv, ad' \in AdType, ad'.status # "none", ad'.initial = ad.initial,
         reservation' \in [Reservations -> ReservationType],
         ad'.available + HeldTotal(reservation') = ad.available + HeldTotal(reservation),
         \A r \in Reservations : FreeMove(reservation[r], reservation'[r]),
         UNCHANGED <<settlement, dispute, relay>>
  PROVE  StepOK
<1>1. PipelineTypeOK'
  BY DEF PipelineInv, PipelineTypeOK
<1>2. AmountOf(Committed) = HeldTotal(reservation)
  BY CommittedIsHeld
<1>3. AmountOf(Committed)' = HeldTotal(reservation')
  <2>1. [r \in Reservations |-> IF r \in Committed THEN reservation[r].amount ELSE 0]'
          = [r \in Reservations |-> HeldBy(reservation'[r])]
    BY DEF Committed, HeldBy, HoldsLiquidity
  <2> QED BY <2>1 DEF AmountOf, HeldTotal
<1>4. Offered'
  BY <1>2, <1>3 DEF PipelineInv, Offered, LiquidityCountedOnce
<1>5. Holding'
  BY HoldingElsewhere DEF PipelineInv
<1>6. Cases' /\ ReleaseRecordedOnce
  BY CasesElsewhere DEF PipelineInv
<1> QED BY <1>1, <1>4, <1>5, <1>6 DEF PipelineInv, StepOK

\* A request locks liquidity that is there.
LEMMA RequestKeeps ==
  ASSUME PipelineInv, NEW r \in Reservations, NEW amount \in Nat, NEW stale \in BOOLEAN,
         ApplyRequest(r, amount, stale)
  PROVE  StepOK
<1> DEFINE y == [state |-> "EscrowLocked", amount |-> amount, stale |-> stale]
<1>1. ad \in AdType /\ reservation \in [Reservations -> ReservationType]
  BY DEF PipelineInv, PipelineTypeOK
<1>2. /\ reservation[r].state = "none" /\ amount <= ad.available /\ ad.status = "Active"
      /\ ad' = ReserveLiquidity(ad, amount) /\ reservation' = [reservation EXCEPT ![r] = y]
      /\ UNCHANGED <<settlement, dispute, relay>>
  BY DEF ApplyRequest
<1>3. y \in ReservationType /\ HeldBy(y) = amount /\ y.state = "EscrowLocked"
  BY DEF ReservationType, ReservationStates, HeldBy, HoldsLiquidity
<1> HIDE DEF y
<1>4. reservation' \in [Reservations -> ReservationType] /\ reservation'[r] = y
      /\ \A q \in Reservations : q # r => reservation'[q] = reservation[q]
  BY <1>1, <1>2, <1>3
<1>5. /\ HeldTotal(reservation') = HeldTotal(reservation)
           + (HeldBy(reservation'[r]) - HeldBy(reservation[r]))
      /\ HeldTotal(reservation) \in Nat
  BY <1>1, <1>4, OneReservation
<1>6. HeldBy(reservation[r]) = 0
  BY <1>2 DEF HeldBy, HoldsLiquidity
<1>7. ad.available \in Nat
  BY <1>1 DEF AdType
<1>8. /\ ad' \in AdType /\ ad'.status # "none" /\ ad'.initial = ad.initial
      /\ ad'.available = ad.available - amount
  <2> DEFINE n == ad.available - amount
             st == IF ad.available = amount THEN "Disabled" ELSE ad.status
  <2>1. n \in Nat /\ st \in AdStatuses /\ st # "none"
    BY <1>2, <1>7 DEF AdStatuses
  <2>2. ad' = [ad EXCEPT !.available = n, !.status = st]
    BY <1>2 DEF ReserveLiquidity
  <2> HIDE DEF st
  <2> QED BY <1>1, <2>1, <2>2, ZenonT(60) DEF AdType
<1>9. ad'.available + HeldTotal(reservation') = ad.available + HeldTotal(reservation)
  BY <1>3, <1>4, <1>5, <1>6, <1>7, <1>8
<1>10. \A q \in Reservations : FreeMove(reservation[q], reservation'[q])
  BY <1>2, <1>3, <1>4 DEF FreeMove
<1> QED BY <1>2, <1>4, <1>8, <1>9, <1>10, ReservationKeeps

\* Liquidity that comes back.
LEMMA Released ==
  ASSUME PipelineInv, NEW n \in Nat, ad' = ReleaseLiquidity(ad, n)
  PROVE  /\ ad' \in AdType /\ ad'.status = ad.status /\ ad'.initial = ad.initial
         /\ ad'.available = ad.available + n /\ ad.available \in Nat
<1>1. ad \in AdType
  BY DEF PipelineInv, PipelineTypeOK
<1>2. ad.available \in Nat
  BY <1>1 DEF AdType
<1> QED BY <1>1, <1>2 DEF ReleaseLiquidity, AdType

\* A cancel returns the liquidity of a reservation no settlement holds.
LEMMA CancelKeeps ==
  ASSUME PipelineInv, NEW r \in Reservations, ApplyCancel(r) PROVE StepOK
<1> DEFINE x == reservation[r]
           y == [x EXCEPT !.state = "Cancelled"]
<1>1. reservation \in [Reservations -> ReservationType] /\ x \in ReservationType
  BY DEF PipelineInv, PipelineTypeOK
<1>2. /\ x.state = "EscrowLocked" /\ ad' = ReleaseLiquidity(ad, x.amount)
      /\ reservation' = [reservation EXCEPT ![r] = y]
      /\ UNCHANGED <<settlement, dispute, relay>>
  BY DEF ApplyCancel
<1>3. y \in ReservationType /\ y.state = "Cancelled"
  BY <1>1 DEF ReservationType, ReservationStates
<1>4. HeldBy(y) = 0 /\ HeldBy(x) = x.amount /\ x.amount \in Nat
  BY <1>1, <1>2, <1>3 DEF HeldBy, HoldsLiquidity, ReservationType
<1> HIDE DEF y
<1>5. reservation' \in [Reservations -> ReservationType] /\ reservation'[r] = y
      /\ \A q \in Reservations : q # r => reservation'[q] = reservation[q]
  BY <1>1, <1>2, <1>3
<1>6. /\ HeldTotal(reservation') = HeldTotal(reservation)
           + (HeldBy(reservation'[r]) - HeldBy(reservation[r]))
      /\ HeldTotal(reservation) \in Nat
  BY <1>1, <1>5, OneReservation
<1>7. /\ ad' \in AdType /\ ad'.status = ad.status /\ ad'.initial = ad.initial
      /\ ad'.available = ad.available + x.amount /\ ad.available \in Nat
  BY <1>2, <1>4, Released
<1>8. ad.status # "none"
  BY <1>2 DEF PipelineInv, Offered
<1>9. ad'.available + HeldTotal(reservation') = ad.available + HeldTotal(reservation)
  BY <1>4, <1>5, <1>6, <1>7
<1>10. \A q \in Reservations : FreeMove(reservation[q], reservation'[q])
  BY <1>2, <1>3, <1>5 DEF FreeMove
<1> QED BY <1>2, <1>5, <1>7, <1>8, <1>9, <1>10, ReservationKeeps

\* A validation window passes.
LEMMA WindowKeeps ==
  ASSUME PipelineInv, NEW r \in Reservations, WindowPasses(r) PROVE StepOK
<1> DEFINE x == reservation[r]
           y == [x EXCEPT !.stale = TRUE]
<1>1. reservation \in [Reservations -> ReservationType] /\ x \in ReservationType /\ ad \in AdType
  BY DEF PipelineInv, PipelineTypeOK
<1>2. /\ x.state # "none" /\ reservation' = [reservation EXCEPT ![r] = y]
      /\ UNCHANGED <<ad, settlement, dispute, relay>>
  BY DEF WindowPasses
<1>3. y \in ReservationType /\ y.state = x.state /\ y.amount = x.amount
  BY <1>1, ZenonT(60) DEF ReservationType
<1> HIDE DEF y
<1>4. reservation' \in [Reservations -> ReservationType] /\ reservation'[r] = y
      /\ \A q \in Reservations : q # r => reservation'[q] = reservation[q]
  BY <1>1, <1>2, <1>3
<1>5. \A q \in Reservations : HeldBy(reservation'[q]) = HeldBy(reservation[q])
  BY <1>3, <1>4 DEF HeldBy, HoldsLiquidity
<1>6. HeldTotal(reservation') = HeldTotal(reservation)
  BY <1>1, <1>4, <1>5, SameHeld
<1>7. ad.status # "none"
  BY <1>2 DEF PipelineInv, Offered
<1>8. \A q \in Reservations : FreeMove(reservation[q], reservation'[q])
  BY <1>3, <1>4 DEF FreeMove
<1> QED BY <1>1, <1>2, <1>4, <1>6, <1>7, <1>8, ReservationKeeps

\* One pass of the sweep credits exactly what it expires.
LEMMA SweepKeeps ==
  ASSUME PipelineInv, ExpireStale PROVE StepOK
<1>1. reservation \in [Reservations -> ReservationType]
  BY DEF PipelineInv, PipelineTypeOK
<1>2. /\ ad' = ReleaseLiquidity(ad, AmountOf(Expirable)) /\ reservation' = Expired(Expirable)
      /\ Expirable # {} /\ UNCHANGED <<settlement, dispute, relay>>
  BY DEF ExpireStale
<1>3. /\ Expired(Expirable) \in [Reservations -> ReservationType]
      /\ HeldTotal(reservation) = HeldTotal(Expired(Expirable)) + AmountOf(Expirable)
      /\ HeldTotal(Expired(Expirable)) \in Nat /\ AmountOf(Expirable) \in Nat
  BY <1>1, SweptTotal
<1>4. /\ ad' \in AdType /\ ad'.status = ad.status /\ ad'.initial = ad.initial
      /\ ad'.available = ad.available + AmountOf(Expirable) /\ ad.available \in Nat
  BY <1>2, <1>3, Released
<1>5. ad.status # "none"
  BY <1>2 DEF PipelineInv, Offered, Expirable
<1>6. ad'.available + HeldTotal(reservation') = ad.available + HeldTotal(reservation)
  BY <1>2, <1>3, <1>4
<1>7. ASSUME NEW q \in Reservations PROVE FreeMove(reservation[q], reservation'[q])
  <2>1. reservation[q] \in ReservationType
    BY <1>1
  <2>2. CASE q \in Expirable
    <3>1. reservation'[q] = [reservation[q] EXCEPT !.state = "Expired"]
          /\ reservation[q].state = "EscrowLocked"
      BY <1>2, <2>2 DEF Expired, Expirable
    <3> QED BY <2>1, <3>1 DEF FreeMove, ReservationType
  <2>3. CASE q \notin Expirable
    BY <1>2, <2>3 DEF Expired, FreeMove
  <2> QED BY <2>2, <2>3
<1> QED BY <1>2, <1>3, <1>4, <1>5, <1>6, <1>7, ReservationKeeps

-----------------------------------------------------------------------------
(* Steps of settlements                                                    *)

LiveState(x) == x.state \in {"AwaitingPayment", "PaymentSubmitted", "Disputed"}

\* Settlement s becomes x while its reservation r becomes y; no other record of either kind
\* changes.
Takes(s, x, r, y) ==
  /\ x \in SettlementType /\ x.reservation = settlement[s].reservation /\ x.state # "none"
  /\ r = settlement[s].reservation
  /\ settlement' = [settlement EXCEPT ![s] = x]
  /\ reservation' = [reservation EXCEPT ![r] = y]

\* The records of s after the step, from what they said of each other before it.
TellsAgain(s, x, r, y) ==
  /\ y.state = "Settling" => LiveState(x) \/ (reservation[r].state = "Settling"
                                               /\ ~LiveState(settlement[s]))
  /\ (settlement[s].state # "none" => Sole(settlement[s], reservation[r])) => Sole(x, y)
  /\ x.state = "Disputed" => x.disputed

\* One settlement and its reservation move: the others still tell one story.
LEMMA HoldingOfOne ==
  ASSUME PipelineTypeOK, Holding, NEW s \in Settlements, NEW x, NEW r, NEW y,
         Takes(s, x, r, y), TellsAgain(s, x, r, y)
  PROVE  Holding'
<1>1. r \in Reservations
  BY DEF PipelineTypeOK, SettlementType, Takes
<1>2. /\ settlement'[s] = x /\ \A u \in Settlements : u # s => settlement'[u] = settlement[u]
      /\ reservation'[r] = y /\ \A q \in Reservations : q # r => reservation'[q] = reservation[q]
  BY <1>1 DEF PipelineTypeOK, Takes
<1>3. \A u \in Settlements : settlement'[u].reservation = settlement[u].reservation
  BY <1>2 DEF Takes
<1>4. x.state # "none" /\ settlement[s].reservation = r
  BY DEF Takes
<1>5. ASSUME NEW q \in Reservations, q # r PROVE Of(q)' = Of(q)
  BY <1>2, <1>3, <1>4, <1>5 DEF Of
<1>6. s \in Of(r)'
  BY <1>2, <1>3, <1>4 DEF Of
<1>7. SettlingHasLiveSettlement'
  <2> SUFFICES ASSUME NEW q \in Reservations, reservation'[q].state = "Settling"
               PROVE  \E u \in Of(q)' : LiveState(settlement'[u])
    BY DEF SettlingHasLiveSettlement, Live, LiveState
  <2>1. ASSUME reservation[q].state = "Settling"
        PROVE  \E u \in Of(q) : LiveState(settlement[u])
    BY <2>1 DEF Holding, SettlingHasLiveSettlement, Live, LiveState
  <2>2. CASE q # r
    <3>1. PICK u \in Of(q) : LiveState(settlement[u])
      BY <1>2, <2>1, <2>2
    <3>2. u # s /\ u \in Settlements
      BY <1>4, <2>2 DEF Of
    <3> QED BY <1>2, <1>5, <2>2, <3>1, <3>2
  <2>3. CASE q = r /\ LiveState(x)
    BY <1>2, <1>6, <2>3
  <2>4. CASE q = r /\ ~LiveState(x)
    <3>1. reservation[r].state = "Settling" /\ ~LiveState(settlement[s])
      BY <1>2, <2>4 DEF TellsAgain
    <3>2. PICK u \in Of(q) : LiveState(settlement[u])
      BY <2>1, <2>4, <3>1
    <3>3. u # s /\ u \in Settlements
      BY <3>1, <3>2 DEF Of
    <3>4. u \in Of(q)'
      BY <1>2, <3>2, <3>3 DEF Of
    <3> QED BY <1>2, <3>2, <3>3, <3>4
  <2> QED BY <2>2, <2>3, <2>4
<1>8. SoleSettlementHolds'
  <2> SUFFICES ASSUME NEW u \in Settlements, Of(settlement[u].reservation)' = {u}
               PROVE  Sole(settlement'[u], reservation'[settlement'[u].reservation])
    BY DEF SoleSettlementHolds, Sole, Live
  <2> DEFINE q == settlement[u].reservation
  <2>1. q \in Reservations /\ settlement'[u].reservation = q /\ Of(q)' = {u}
    <3>1. q \in Reservations
      BY DEF PipelineTypeOK, SettlementType
    <3>2. settlement'[u].reservation = q
      BY <1>3
    <3> QED BY <3>1, <3>2 DEF Of
  <2>2. ASSUME Of(q) = {u} PROVE Sole(settlement[u], reservation[q])
    BY <2>2 DEF Holding, SoleSettlementHolds, Sole, Live
  <2>3. CASE u = s
    <3>1. q = r
      BY <1>4, <2>3
    <3>2. ASSUME settlement[s].state # "none" PROVE Of(r) = {s}
      <4>1. \A w \in Settlements : w # s => (w \in Of(r)' <=> w \in Of(r))
        BY <1>2, <1>3 DEF Of
      <4>2. s \in Of(r)
        BY <1>4, <3>2 DEF Of
      <4>3. Of(r) \subseteq Settlements
        BY DEF Of
      <4> QED BY <2>1, <2>3, <3>1, <4>1, <4>2, <4>3
    <3>3. Sole(x, y)
      BY <2>2, <2>3, <3>1, <3>2 DEF TellsAgain
    <3> QED BY <1>2, <2>1, <2>3, <3>1, <3>3
  <2>4. CASE u # s
    <3>1. q # r
      BY <1>6, <2>1, <2>4
    <3>2. Of(q) = {u}
      BY <1>5, <2>1, <3>1
    <3> QED BY <1>2, <2>1, <2>2, <2>4, <3>1, <3>2
  <2> QED BY <2>3, <2>4
<1>9. FrozenIsMarked'
  BY <1>2 DEF Holding, FrozenIsMarked, TellsAgain
<1> QED BY <1>7, <1>8, <1>9 DEF Holding

\* A reservation passed between a settlement and its buyer keeps its liquidity committed.
Passes(x, y) ==
  /\ y \in ReservationType /\ y.amount = x.amount
  /\ HoldsLiquidity(y) <=> HoldsLiquidity(x)
  /\ x.state = "none" => y.state = "none"

\* Liquidity does not move when a reservation is passed on.
LEMMA OfferedElsewhere ==
  ASSUME PipelineInv, NEW r \in Reservations, NEW y, Passes(reservation[r], y),
         reservation' = [reservation EXCEPT ![r] = y], ad' = ad
  PROVE  reservation' \in [Reservations -> ReservationType] /\ Offered'
<1>1. reservation \in [Reservations -> ReservationType]
  BY DEF PipelineInv, PipelineTypeOK
<1>2. reservation' \in [Reservations -> ReservationType] /\ reservation'[r] = y
      /\ \A q \in Reservations : q # r => reservation'[q] = reservation[q]
  BY <1>1 DEF Passes
<1>3. \A q \in Reservations : HeldBy(reservation'[q]) = HeldBy(reservation[q])
  BY <1>2 DEF HeldBy, Passes
<1>4. HeldTotal(reservation') = HeldTotal(reservation)
  BY <1>1, <1>2, <1>3, SameHeld, ZenonT(60)
<1>5. AmountOf(Committed) = HeldTotal(reservation)
  BY CommittedIsHeld
<1>6. AmountOf(Committed)' = HeldTotal(reservation')
  <2>1. [q \in Reservations |-> IF q \in Committed THEN reservation[q].amount ELSE 0]'
          = [q \in Reservations |-> HeldBy(reservation'[q])]
    BY DEF Committed, HeldBy, HoldsLiquidity
  <2> QED BY <2>1 DEF AmountOf, HeldTotal
<1>7. Offered'
  BY <1>2, <1>4, <1>5, <1>6 DEF PipelineInv, Offered, LiquidityCountedOnce, Passes
<1> QED BY <1>2, <1>7

\* A settlement no case has closed may move on its own, except into a case.
CaseFree(x, y) ==
  \/ y.state = x.state
  \/ x.state \notin {"Disputed", "Completed", "Cancelled"} /\ y.state # "Disputed"

\* The record of a release is never rewritten, and never made early.
ReleaseOK(x, y) == (x.release # "none" => y.release = x.release) /\ ReleasedLate(y)

\* A settlement that moves outside of a case leaves the cases as they are.
LEMMA CasesOfOthers ==
  ASSUME PipelineTypeOK, Cases, NEW s \in Settlements, NEW x,
         settlement' = [settlement EXCEPT ![s] = x], dispute' = dispute,
         CaseFree(settlement[s], x), ReleaseOK(settlement[s], x)
  PROVE  Cases' /\ ReleaseRecordedOnce
<1>1. settlement'[s] = x /\ \A u \in Settlements : u # s => settlement'[u] = settlement[u]
  BY DEF PipelineTypeOK
<1>2. \A u \in Settlements : CaseFree(settlement[u], settlement'[u])
  BY <1>1 DEF CaseFree
<1>3. \A d \in Disputes : dispute[d].settlement \in Settlements
  BY DEF PipelineTypeOK, DisputeType
<1>4. FrozenByOneCase'
  <2>1. \A u \in Settlements : settlement'[u].state = "Disputed" <=> settlement[u].state = "Disputed"
    BY <1>2 DEF CaseFree
  <2>2. \A u : OpenAbout(u)' = OpenAbout(u)
    BY DEF OpenAbout
  <2> QED BY <2>1, <2>2 DEF Cases, FrozenByOneCase
<1>5. VerdictDecidesSettlement'
  <2>1. \A u \in Settlements : settlement[u].state \in {"Completed", "Cancelled"} =>
          settlement'[u].state = settlement[u].state
    BY <1>2 DEF CaseFree
  <2> QED BY <1>3, <2>1 DEF Cases, VerdictDecidesSettlement
<1>6. \A u \in Settlements : ReleaseOK(settlement[u], settlement'[u])
  BY <1>1 DEF Cases, ReleaseOK
<1> QED BY <1>4, <1>5, <1>6 DEF Cases, ReleaseOK, ReleaseRecordedOnce, ReleasedLate

\* A step of one settlement outside of a case.
LEMMA SettlementKeeps ==
  ASSUME PipelineInv, NEW s \in Settlements, NEW x, NEW r, NEW y,
         Takes(s, x, r, y), TellsAgain(s, x, r, y), Passes(reservation[r], y),
         CaseFree(settlement[s], x), ReleaseOK(settlement[s], x),
         ad' = ad, dispute' = dispute, relay' \in {NoTx} \cup Settlements \cup Disputes
  PROVE  StepOK
<1>1. r \in Reservations
  BY DEF PipelineInv, PipelineTypeOK, SettlementType, Takes
<1>2. reservation' \in [Reservations -> ReservationType] /\ Offered'
  BY <1>1, OfferedElsewhere, ZenonT(60) DEF Takes
<1>3. PipelineTypeOK'
  BY <1>2 DEF PipelineInv, PipelineTypeOK, Takes
<1>4. Holding'
  BY HoldingOfOne DEF PipelineInv
<1>5. Cases' /\ ReleaseRecordedOnce
  BY CasesOfOthers, ZenonT(60) DEF PipelineInv, Takes
<1> QED BY <1>2, <1>3, <1>4, <1>5 DEF PipelineInv, StepOK

\* What a transition makes of a reservation.
After(x, from, to) == IF x.state \in from THEN [x EXCEPT !.state = to] ELSE x

\* A transition passes the reservation on.
LEMMA Transitions ==
  ASSUME NEW x \in ReservationType, NEW from, NEW to \in {"EscrowLocked", "Settling", "Settled"},
         from \subseteq {"EscrowLocked", "Settling", "Settled"}
  PROVE  /\ Passes(x, After(x, from, to))
         /\ After(x, from, to).state = IF x.state \in from THEN to ELSE x.state
<1>1. CASE x.state \in from
  <2> DEFINE y == [x EXCEPT !.state = to]
  <2>1. y \in ReservationType /\ y.state = to /\ y.amount = x.amount
    BY DEF ReservationType, ReservationStates
  <2>2. After(x, from, to) = y
    BY <1>1 DEF After
  <2> HIDE DEF y
  <2> QED BY <1>1, <2>1, <2>2, ZenonT(60) DEF Passes, HoldsLiquidity
<1>2. CASE x.state \notin from
  BY <1>2 DEF After, Passes
<1> QED BY <1>1, <1>2

\* A settlement and its reservation, with their fields.
LEMMA SettlementFields ==
  ASSUME PipelineInv, NEW s \in Settlements
  PROVE  /\ settlement[s] \in SettlementType /\ settlement[s].reservation \in Reservations
         /\ reservation[settlement[s].reservation] \in ReservationType
         /\ ReleasedLate(settlement[s])
         /\ relay \in {NoTx} \cup Settlements \cup Disputes
         /\ reservation = [reservation EXCEPT ![settlement[s].reservation] =
                             reservation[settlement[s].reservation]]
<1>1. settlement[s] \in SettlementType
  BY DEF PipelineInv, PipelineTypeOK
<1>2. settlement[s].reservation \in Reservations
  BY <1>1 DEF SettlementType
<1> QED BY <1>1, <1>2 DEF PipelineInv, PipelineTypeOK, Cases

\* A settlement takes its reservation over.
LEMMA InitiateKeeps ==
  ASSUME PipelineInv, NEW s \in Settlements, ApplyInitiate(s) PROVE StepOK
<1> DEFINE z == settlement[s]
           r == z.reservation
           h == reservation[r].state = "EscrowLocked"
           x == [z EXCEPT !.state = "AwaitingPayment", !.held = h]
           y == After(reservation[r], {"EscrowLocked"}, "Settling")
<1>1. /\ z.state = "none" /\ settlement' = [settlement EXCEPT ![s] = x]
      /\ reservation' = [reservation EXCEPT ![r] = y] /\ UNCHANGED <<ad, dispute, relay>>
  BY DEF ApplyInitiate, SettlementStarted, Transition, After
<1>2. /\ z \in SettlementType /\ r \in Reservations /\ reservation[r] \in ReservationType
      /\ ReleasedLate(z) /\ relay \in {NoTx} \cup Settlements \cup Disputes
  BY SettlementFields
<1>3. Passes(reservation[r], y)
      /\ y.state = IF reservation[r].state = "EscrowLocked" THEN "Settling" ELSE reservation[r].state
  BY <1>2, Transitions
<1>4. h \in BOOLEAN
  OBVIOUS
<1>5. /\ x \in SettlementType /\ x.state = "AwaitingPayment" /\ x.held = h
      /\ x.reservation = r /\ x.release = z.release
  <2> HIDE DEF h
  <2> QED BY <1>2, <1>4, ZenonT(60) DEF SettlementType, SettlementStates
<1> HIDE DEF x, y
<1>6. Takes(s, x, r, y)
  BY <1>1, <1>5 DEF Takes
<1>7. TellsAgain(s, x, r, y)
  <2>1. x.held => y.state = "Settling"
    BY <1>3, <1>5, ZenonT(60)
  <2> QED BY <1>5, <2>1 DEF TellsAgain, Sole, LiveState
<1>8. CaseFree(z, x) /\ ReleaseOK(z, x)
  BY <1>1, <1>2, <1>5 DEF CaseFree, ReleaseOK, ReleasedLate
<1> QED BY <1>1, <1>2, <1>3, <1>6, <1>7, <1>8, SettlementKeeps

\* What a settlement's move before the release does to its reservation.
HandsOver(x, to, y) ==
  /\ Passes(x, y)
  /\ to \in {"AwaitingPayment", "PaymentSubmitted"} => y.state = x.state
  /\ to = "Approved" => (x.state = "Settling" => y.state = "Settled")
  /\ to \in {"Approved", "Rejected", "Cancelled"} => y.state # "Settling"

\* A settlement moves before its escrow is released.
LEMMA MoveKeeps ==
  ASSUME PipelineInv, NEW s \in Settlements, NEW from \in {"AwaitingPayment", "PaymentSubmitted"},
         NEW to \in {"AwaitingPayment", "PaymentSubmitted", "Approved", "Rejected", "Cancelled"},
         Moved(s, from, to), NEW y, HandsOver(reservation[settlement[s].reservation], to, y),
         reservation' = [reservation EXCEPT ![settlement[s].reservation] = y]
  PROVE  StepOK
<1> DEFINE z == settlement[s]
           r == z.reservation
           x == [z EXCEPT !.state = to]
<1>1. /\ z.state = from /\ settlement' = [settlement EXCEPT ![s] = x]
      /\ UNCHANGED <<ad, dispute, relay>>
  BY DEF Moved
<1>2. /\ z \in SettlementType /\ r \in Reservations /\ reservation[r] \in ReservationType
      /\ ReleasedLate(z) /\ relay \in {NoTx} \cup Settlements \cup Disputes
  BY SettlementFields
<1>3. /\ x \in SettlementType /\ x.state = to /\ x.held = z.held /\ x.disputed = z.disputed
      /\ x.reservation = r /\ x.release = z.release
  BY <1>2 DEF SettlementType, SettlementStates
<1> HIDE DEF x
<1>4. Takes(s, x, r, y)
  BY <1>1, <1>3 DEF Takes
<1>5. TellsAgain(s, x, r, y)
  <2>1. y.state = "Settling" => LiveState(x)
    BY <1>3 DEF HandsOver, LiveState
  <2>2. ASSUME Sole(z, reservation[r]) PROVE Sole(x, y)
    BY <1>1, <1>3, <2>2 DEF Sole, LiveState, HandsOver
  <2> QED BY <1>1, <1>3, <2>1, <2>2 DEF TellsAgain
<1>6. CaseFree(z, x) /\ ReleaseOK(z, x)
  BY <1>1, <1>2, <1>3 DEF CaseFree, ReleaseOK, ReleasedLate
<1>7. Passes(reservation[r], y)
  BY DEF HandsOver
<1> QED BY <1>1, <1>2, <1>4, <1>5, <1>6, <1>7, SettlementKeeps

\* The payment is reported, and taken back.
LEMMA PaymentKeeps ==
  ASSUME PipelineInv, NEW s \in Settlements, ApplyPaymentSubmitted(s) \/ ApplyPaymentReversed(s)
  PROVE  StepOK
<1> DEFINE y == reservation[settlement[s].reservation]
<1>1. y \in ReservationType /\ reservation = [reservation EXCEPT ![settlement[s].reservation] = y]
  BY SettlementFields
<1>2. \A to \in {"AwaitingPayment", "PaymentSubmitted"} : HandsOver(y, to, y)
  BY <1>1 DEF HandsOver, Passes
<1>3. CASE ApplyPaymentSubmitted(s)
  <2>1. Moved(s, "AwaitingPayment", "PaymentSubmitted")
        /\ reservation' = [reservation EXCEPT ![settlement[s].reservation] = y]
    BY <1>1, <1>3 DEF ApplyPaymentSubmitted
  <2> QED BY <1>2, <2>1, MoveKeeps, ZenonT(60)
<1>4. CASE ApplyPaymentReversed(s)
  <2>1. Moved(s, "PaymentSubmitted", "AwaitingPayment")
        /\ reservation' = [reservation EXCEPT ![settlement[s].reservation] = y]
    BY <1>1, <1>4 DEF ApplyPaymentReversed
  <2> QED BY <1>2, <2>1, MoveKeeps, ZenonT(60)
<1> QED BY <1>3, <1>4

\* The merchant approves, or the settlement is given up.
LEMMA DecisionKeeps ==
  ASSUME PipelineInv, NEW s \in Settlements,
         ApplyApproved(s) \/ ApplyRejected(s) \/ ApplyCancelled(s)
  PROVE  StepOK
<1> DEFINE r == settlement[s].reservation
           sold == After(reservation[r], {"Settling"}, "Settled")
           back == After(reservation[r], {"Settling", "Settled"}, "EscrowLocked")
<1>1. reservation[r] \in ReservationType
  BY SettlementFields
<1>2. Passes(reservation[r], sold)
      /\ sold.state = IF reservation[r].state \in {"Settling"} THEN "Settled" ELSE reservation[r].state
  BY <1>1, Transitions
<1>3. Passes(reservation[r], back)
      /\ back.state = IF reservation[r].state \in {"Settling", "Settled"} THEN "EscrowLocked"
                      ELSE reservation[r].state
  BY <1>1, Transitions
<1>4. CASE ApplyApproved(s)
  <2>1. Moved(s, "PaymentSubmitted", "Approved") /\ reservation' = [reservation EXCEPT ![r] = sold]
    BY <1>4 DEF ApplyApproved, SettlementCompleted, Transition, After
  <2>2. HandsOver(reservation[r], "Approved", sold)
    BY <1>2 DEF HandsOver
  <2> QED BY <2>1, <2>2, MoveKeeps, ZenonT(60)
<1>5. HandsOver(reservation[r], "Rejected", back) /\ HandsOver(reservation[r], "Cancelled", back)
  BY <1>3 DEF HandsOver
<1>6. CASE ApplyRejected(s)
  <2>1. Moved(s, "PaymentSubmitted", "Rejected") /\ reservation' = [reservation EXCEPT ![r] = back]
    BY <1>6 DEF ApplyRejected, SettlementAbandoned, Transition, After
  <2> QED BY <1>5, <2>1, MoveKeeps, ZenonT(60)
<1>7. CASE ApplyCancelled(s)
  <2>1. Moved(s, "AwaitingPayment", "Cancelled") /\ reservation' = [reservation EXCEPT ![r] = back]
    BY <1>7 DEF ApplyCancelled, SettlementAbandoned, Transition, After
  <2> QED BY <1>5, <2>1, MoveKeeps, ZenonT(60)
<1> QED BY <1>4, <1>6, <1>7

\* A step of the relay alone.
LEMMA RelayKeeps ==
  ASSUME PipelineInv, UNCHANGED <<ad, reservation, settlement, dispute>>,
         relay' \in {NoTx} \cup Settlements \cup Disputes
  PROVE  StepOK
<1>1. PipelineTypeOK'
  BY DEF PipelineInv, PipelineTypeOK
<1>2. Offered'
  BY DEF PipelineInv, Offered, LiquidityCountedOnce, AmountOf, Committed
<1>3. Holding'
  BY HoldingElsewhere DEF PipelineInv, FreeMove
<1>4. Cases' /\ ReleaseRecordedOnce
  BY CasesElsewhere DEF PipelineInv
<1> QED BY <1>1, <1>2, <1>3, <1>4 DEF PipelineInv, StepOK

\* A release is observed: of a settlement that is no longer Approved nothing is recorded.
LEMMA ReleaseKeeps ==
  ASSUME PipelineInv, NEW s \in Settlements, PollReleaseConfirmed(s) PROVE StepOK
<1> DEFINE z == settlement[s]
           r == z.reservation
           x == [z EXCEPT !.state = "Completed", !.release = "release"]
           y == reservation[r]
<1>1. /\ z \in SettlementType /\ r \in Reservations /\ y \in ReservationType
      /\ ReleasedLate(z) /\ reservation = [reservation EXCEPT ![r] = y]
  BY SettlementFields
<1>2. relay' = NoTx /\ UNCHANGED <<ad, reservation, dispute>>
  BY DEF PollReleaseConfirmed
<1>3. CASE z.state = "Approved"
  <2>1. settlement' = [settlement EXCEPT ![s] = x]
    BY <1>3 DEF PollReleaseConfirmed
  <2>2. /\ x \in SettlementType /\ x.state = "Completed" /\ x.held = z.held
        /\ x.disputed = z.disputed /\ x.reservation = r /\ x.release = "release"
    BY <1>1, ZenonT(60) DEF SettlementType, SettlementStates
  <2> HIDE DEF x
  <2>3. Takes(s, x, r, y)
    BY <1>1, <1>2, <2>1, <2>2 DEF Takes
  <2>4. TellsAgain(s, x, r, y)
    BY <1>3, <2>2 DEF TellsAgain, Sole, LiveState
  <2>5. CaseFree(z, x) /\ ReleaseOK(z, x)
    BY <1>1, <1>3, <2>2 DEF CaseFree, ReleaseOK, ReleasedLate
  <2>6. Passes(reservation[r], y)
    BY <1>1 DEF Passes
  <2> QED BY <1>2, <2>3, <2>4, <2>5, <2>6, SettlementKeeps
<1>4. CASE z.state # "Approved"
  <2>1. settlement' = settlement
    BY <1>4 DEF PollReleaseConfirmed, PipelineInv, PipelineTypeOK
  <2> QED BY <1>2, <2>1, RelayKeeps
<1> QED BY <1>3, <1>4

-----------------------------------------------------------------------------
(* Steps of cases                                                          *)

IsOpen(w) == w.status \notin {"none", "Resolved"}

\* A case that goes on keeps its settlement frozen.
LEMMA CaseGoesOn ==
  ASSUME PipelineInv, NEW d \in Disputes, NEW w \in DisputeType,
         dispute' = [dispute EXCEPT ![d] = w],
         IsOpen(dispute[d]), IsOpen(w), w.settlement = dispute[d].settlement,
         UNCHANGED <<ad, reservation, settlement, relay>>
  PROVE  StepOK
<1>1. dispute \in [Disputes -> DisputeType]
  BY DEF PipelineInv, PipelineTypeOK
<1>2. PipelineTypeOK'
  BY <1>1 DEF PipelineInv, PipelineTypeOK
<1>3. Offered'
  BY DEF PipelineInv, Offered, LiquidityCountedOnce, AmountOf, Committed
<1>4. Holding'
  BY HoldingElsewhere DEF PipelineInv, FreeMove
<1>5. dispute'[d] = w /\ \A e \in Disputes : e # d => dispute'[e] = dispute[e]
  BY <1>1
<1>6. \A e \in Disputes : /\ dispute'[e].settlement = dispute[e].settlement
                          /\ dispute'[e].status = "none" <=> dispute[e].status = "none"
                          /\ dispute'[e].status = "Resolved" <=> dispute[e].status = "Resolved"
                          /\ dispute'[e].status = "Resolved" =>
                               dispute'[e].resolution = dispute[e].resolution
  BY <1>5 DEF IsOpen
<1>7. \A u : OpenAbout(u)' = OpenAbout(u)
  BY <1>6 DEF OpenAbout
<1>8. FrozenByOneCase'
  BY <1>7 DEF PipelineInv, Cases, FrozenByOneCase
<1>9. VerdictDecidesSettlement'
  BY <1>6 DEF PipelineInv, Cases, VerdictDecidesSettlement
<1>10. Cases' /\ ReleaseRecordedOnce
  BY <1>8, <1>9 DEF PipelineInv, Cases, ReleasedLate, ReleaseRecordedOnce
<1> QED BY <1>2, <1>3, <1>4, <1>10 DEF PipelineInv, StepOK

\* Arbitrators join, commit and reveal; the parties agree.
LEMMA ArbitrationKeeps ==
  ASSUME PipelineInv, NEW d \in Disputes, NEW a \in Panel,
         ApplyArbitratorJoin(d, a) \/ ApplyVoteCommit(d, a) \/ ApplyVoteReveal(d, a)
  PROVE  StepOK
<1>1. dispute[d] \in DisputeType
  BY DEF PipelineInv, PipelineTypeOK
<1>2. CASE ApplyArbitratorJoin(d, a)
  <2> DEFINE m == dispute[d].arbitrators \cup {a}
             st == IF Full(m) THEN "CaseLocked" ELSE dispute[d].status
             w == [dispute[d] EXCEPT !.arbitrators = m, !.status = st]
  <2>1. dispute' = [dispute EXCEPT ![d] = w] /\ dispute[d].status = "Open"
        /\ UNCHANGED <<ad, reservation, settlement, relay>>
    BY <1>2 DEF ApplyArbitratorJoin
  <2>2. st \in {"CaseLocked", "Open"} /\ m \in SUBSET Panel
    BY <1>1, <2>1 DEF DisputeType
  <2> HIDE DEF m, st
  <2>3. w \in DisputeType /\ w.status = st /\ w.settlement = dispute[d].settlement
    BY <1>1, <2>2, ZenonT(60) DEF DisputeType, DisputeStatuses
  <2> HIDE DEF w
  <2> QED BY <2>1, <2>2, <2>3, CaseGoesOn, ZenonT(60) DEF IsOpen
<1>3. CASE ApplyVoteCommit(d, a)
  <2> DEFINE m == dispute[d].commitments \cup {a}
             st == IF Full(m) THEN "RevealPhase" ELSE dispute[d].status
             w == [dispute[d] EXCEPT !.commitments = m, !.status = st]
  <2>1. dispute' = [dispute EXCEPT ![d] = w] /\ dispute[d].status = "CaseLocked"
        /\ UNCHANGED <<ad, reservation, settlement, relay>>
    BY <1>3 DEF ApplyVoteCommit
  <2>2. st \in {"CaseLocked", "RevealPhase"} /\ m \in SUBSET Panel
    BY <1>1, <2>1 DEF DisputeType
  <2> HIDE DEF m, st
  <2>3. w \in DisputeType /\ w.status = st /\ w.settlement = dispute[d].settlement
    BY <1>1, <2>2, ZenonT(60) DEF DisputeType, DisputeStatuses
  <2> HIDE DEF w
  <2> QED BY <2>1, <2>2, <2>3, CaseGoesOn, ZenonT(60) DEF IsOpen
<1>4. CASE ApplyVoteReveal(d, a)
  <2> DEFINE m == dispute[d].reveals \cup {a}
             st == IF Full(m) THEN "AwaitingChainExecution" ELSE dispute[d].status
             w == [dispute[d] EXCEPT !.reveals = m, !.status = st]
  <2>1. dispute' = [dispute EXCEPT ![d] = w] /\ dispute[d].status = "RevealPhase"
        /\ UNCHANGED <<ad, reservation, settlement, relay>>
    BY <1>4 DEF ApplyVoteReveal
  <2>2. st \in {"AwaitingChainExecution", "RevealPhase"} /\ m \in SUBSET Panel
    BY <1>1, <2>1 DEF DisputeType
  <2> HIDE DEF m, st
  <2>3. w \in DisputeType /\ w.status = st /\ w.settlement = dispute[d].settlement
    BY <1>1, <2>2, ZenonT(60) DEF DisputeType, DisputeStatuses
  <2> HIDE DEF w
  <2> QED BY <2>1, <2>2, <2>3, CaseGoesOn, ZenonT(60) DEF IsOpen
<1> QED BY <1>2, <1>3, <1>4

\* The parties agree, at any time while the case is open.
LEMMA AgreementKeeps ==
  ASSUME PipelineInv, NEW d \in Disputes, NEW p \in Parties, ApplyMutualSettlementAgree(d, p)
  PROVE  StepOK
<1> DEFINE m == dispute[d].agreed \cup {p}
           st == IF m = Parties THEN "AwaitingChainExecution" ELSE dispute[d].status
           w == [dispute[d] EXCEPT !.agreed = m, !.status = st]
<1>1. dispute[d] \in DisputeType
  BY DEF PipelineInv, PipelineTypeOK
<1>2. dispute' = [dispute EXCEPT ![d] = w] /\ IsOpen(dispute[d])
      /\ UNCHANGED <<ad, reservation, settlement, relay>>
  BY DEF ApplyMutualSettlementAgree, IsOpen
<1>3. st \in DisputeStatuses \ {"none", "Resolved"} /\ m \in SUBSET Parties
  BY <1>1, <1>2 DEF DisputeType, DisputeStatuses, IsOpen
<1> HIDE DEF m, st
<1>4. w \in DisputeType /\ w.status = st /\ w.settlement = dispute[d].settlement
  BY <1>1, <1>3, ZenonT(60) DEF DisputeType
<1> HIDE DEF w
<1> QED BY <1>2, <1>3, <1>4, CaseGoesOn, ZenonT(60) DEF IsOpen

\* A step of one case together with its settlement.
CaseMoves(d, w, s, x) ==
  /\ w \in DisputeType /\ w.settlement = dispute[d].settlement /\ s = dispute[d].settlement
  /\ dispute' = [dispute EXCEPT ![d] = w]
  /\ settlement' = [settlement EXCEPT ![s] = x]

\* Either the case opens on a settlement not frozen, or it is the one open and ends.
CaseTurns(d, w, s, x) ==
  \/ /\ dispute[d].status = "none" /\ IsOpen(w)
     /\ settlement[s].state # "Disputed" /\ x.state = "Disputed"
  \/ /\ IsOpen(dispute[d]) /\ w.status = "Resolved"
     /\ x.state = IF w.resolution \in {"BuyerWins", "MutualSettlement"} THEN "Completed"
                  ELSE "Cancelled"

\* A case opens or ends, with its settlement.
LEMMA CasesOfOne ==
  ASSUME PipelineTypeOK, Cases, NEW d \in Disputes, NEW w, NEW s, NEW x,
         CaseMoves(d, w, s, x), CaseTurns(d, w, s, x), ReleaseOK(settlement[s], x)
  PROVE  Cases' /\ ReleaseRecordedOnce
<1>1. s \in Settlements /\ \A e \in Disputes : dispute[e].settlement \in Settlements
  BY DEF PipelineTypeOK, DisputeType, CaseMoves
<1>2. /\ settlement'[s] = x /\ \A u \in Settlements : u # s => settlement'[u] = settlement[u]
      /\ dispute'[d] = w /\ \A e \in Disputes : e # d => dispute'[e] = dispute[e]
      /\ \A e \in Disputes : dispute'[e].settlement = dispute[e].settlement
      /\ dispute[d].settlement = s
  BY <1>1 DEF PipelineTypeOK, CaseMoves
<1>3. FrozenByOneCase'
  <2> SUFFICES ASSUME NEW u \in Settlements
               PROVE  /\ settlement'[u].state = "Disputed" <=> OpenAbout(u)' # {}
                      /\ \A e, f \in OpenAbout(u)' : e = f
    BY DEF FrozenByOneCase
  <2>1. /\ settlement[u].state = "Disputed" <=> OpenAbout(u) # {}
        /\ \A e, f \in OpenAbout(u) : e = f
    BY DEF Cases, FrozenByOneCase
  <2>2. CASE u # s
    <3>1. OpenAbout(u)' = OpenAbout(u)
      BY <1>2, <2>2 DEF OpenAbout
    <3> QED BY <1>2, <2>1, <2>2, <3>1
  <2>3. CASE u = s /\ IsOpen(w)
    <3>1. settlement[s].state # "Disputed" /\ x.state = "Disputed"
      BY <2>3 DEF CaseTurns, IsOpen
    <3>2. OpenAbout(u) = {}
      BY <2>1, <2>3, <3>1
    <3>3. OpenAbout(u)' = {d}
      BY <1>2, <2>3, <3>2 DEF OpenAbout, IsOpen
    <3> QED BY <1>2, <2>3, <3>1, <3>3
  <2>4. CASE u = s /\ ~IsOpen(w)
    <3>1. IsOpen(dispute[d]) /\ w.status = "Resolved" /\ x.state # "Disputed"
      BY <2>4 DEF CaseTurns
    <3>2. d \in OpenAbout(u)
      BY <1>2, <2>4, <3>1 DEF OpenAbout, IsOpen
    <3>3. OpenAbout(u)' = {}
      BY <1>2, <2>1, <2>4, <3>1, <3>2 DEF OpenAbout, IsOpen
    <3> QED BY <1>2, <2>4, <3>1, <3>3
  <2> QED BY <2>2, <2>3, <2>4
<1>4. VerdictDecidesSettlement'
  <2>1. w.status # "none" /\ (w.status = "Resolved" => x.state =
          IF w.resolution \in {"BuyerWins", "MutualSettlement"} THEN "Completed" ELSE "Cancelled")
    BY DEF CaseTurns, IsOpen
  <2> SUFFICES ASSUME NEW e \in Disputes, dispute'[e].status = "Resolved",
                      \A f \in Disputes \ {e} :
                        dispute'[f].settlement = dispute'[e].settlement => dispute'[f].status = "none"
               PROVE  settlement'[dispute'[e].settlement].state =
                        IF dispute'[e].resolution \in {"BuyerWins", "MutualSettlement"}
                        THEN "Completed" ELSE "Cancelled"
    BY DEF VerdictDecidesSettlement
  <2>2. CASE e = d
    BY <1>2, <2>1, <2>2
  <2>3. CASE e # d
    <3>1. dispute[e].settlement # s
      BY <1>2, <2>1, <2>3
    <3>2. \A f \in Disputes \ {e} : dispute[f].settlement = dispute[e].settlement
            => dispute[f].status = "none"
      BY <1>2, <3>1
    <3> QED BY <1>1, <1>2, <2>3, <3>1, <3>2 DEF Cases, VerdictDecidesSettlement
  <2> QED BY <2>2, <2>3
<1>5. \A u \in Settlements : ReleaseOK(settlement[u], settlement'[u])
  BY <1>2 DEF Cases, ReleaseOK
<1> QED BY <1>3, <1>4, <1>5 DEF Cases, ReleaseOK, ReleaseRecordedOnce, ReleasedLate

\* A step of one case, its settlement and its reservation.
LEMMA CaseKeeps ==
  ASSUME PipelineInv, NEW d \in Disputes, NEW w, NEW s, NEW x, NEW r, NEW y,
         CaseMoves(d, w, s, x), CaseTurns(d, w, s, x), ReleaseOK(settlement[s], x),
         Takes(s, x, r, y), TellsAgain(s, x, r, y), Passes(reservation[r], y),
         ad' = ad, relay' \in {NoTx} \cup Settlements \cup Disputes
  PROVE  StepOK
<1>1. s \in Settlements
  BY DEF PipelineInv, PipelineTypeOK, DisputeType, CaseMoves
<1>2. r \in Reservations
  BY <1>1 DEF PipelineInv, PipelineTypeOK, SettlementType, Takes
<1>3. reservation' \in [Reservations -> ReservationType] /\ Offered'
  BY <1>2, OfferedElsewhere, ZenonT(60) DEF Takes
<1>4. PipelineTypeOK'
  BY <1>3, ZenonT(60) DEF PipelineInv, PipelineTypeOK, Takes, CaseMoves
<1>5. Holding'
  BY <1>1, HoldingOfOne DEF PipelineInv
<1>6. Cases' /\ ReleaseRecordedOnce
  BY CasesOfOne DEF PipelineInv
<1> QED BY <1>3, <1>4, <1>5, <1>6 DEF PipelineInv, StepOK

\* A case opens and freezes its settlement.
LEMMA OpenKeeps ==
  ASSUME PipelineInv, NEW d \in Disputes, ApplyOpen(d) PROVE StepOK
<1> DEFINE s == dispute[d].settlement
           z == settlement[s]
           r == z.reservation
           x == [z EXCEPT !.state = "Disputed", !.disputed = TRUE]
           w == [dispute[d] EXCEPT !.status = "Open"]
           y == reservation[r]
<1>1. dispute[d] \in DisputeType /\ s \in Settlements
  BY DEF PipelineInv, PipelineTypeOK, DisputeType
<1>2. /\ z \in SettlementType /\ r \in Reservations /\ y \in ReservationType /\ ReleasedLate(z)
      /\ relay \in {NoTx} \cup Settlements \cup Disputes /\ reservation = [reservation EXCEPT ![r] = y]
  BY <1>1, SettlementFields
<1>3. /\ dispute[d].status = "none" /\ z.state \notin {"none", "Cancelled", "Disputed"}
      /\ settlement' = [settlement EXCEPT ![s] = x] /\ dispute' = [dispute EXCEPT ![d] = w]
      /\ UNCHANGED <<ad, reservation, relay>>
  BY DEF ApplyOpen, Freezable
<1>4. /\ x \in SettlementType /\ x.state = "Disputed" /\ x.disputed /\ x.reservation = r
      /\ x.release = z.release
  BY <1>2, ZenonT(60) DEF SettlementType, SettlementStates
<1>5. w \in DisputeType /\ w.settlement = s /\ w.status = "Open"
  BY <1>1 DEF DisputeType, DisputeStatuses
<1> HIDE DEF x, w
<1>6. CaseMoves(d, w, s, x) /\ CaseTurns(d, w, s, x)
  BY <1>3, <1>4, <1>5 DEF CaseMoves, CaseTurns, IsOpen
<1>7. Takes(s, x, r, y)
  BY <1>2, <1>3, <1>4 DEF Takes
<1>8. TellsAgain(s, x, r, y)
  BY <1>4 DEF TellsAgain, Sole, LiveState
<1>9. ReleaseOK(z, x) /\ Passes(reservation[r], y)
  BY <1>2, <1>4 DEF ReleaseOK, ReleasedLate, Passes
<1> QED BY <1>2, <1>3, <1>6, <1>7, <1>8, <1>9, CaseKeeps

\* What the verdict makes of the frozen settlement.
LEMMA Verdicts ==
  ASSUME NEW s, settlement[s] \in SettlementType, NEW o, settlement[s].state = "Disputed"
  PROVE  LET x == ResolvedSettlement(s, o) IN
         /\ x \in SettlementType /\ x.reservation = settlement[s].reservation
         /\ x.disputed = settlement[s].disputed
         /\ x.state = IF o \in {"BuyerWins", "MutualSettlement"} THEN "Completed" ELSE "Cancelled"
         /\ settlement[s].release # "none" => x.release = settlement[s].release
<1> DEFINE z == settlement[s]
           q == IF z.release = "none" THEN "verdict" ELSE z.release
<1>1. q \in {"none", "release", "verdict"} /\ (z.release # "none" => q = z.release)
  BY DEF SettlementType
<1>2. CASE o \in {"BuyerWins", "MutualSettlement"}
  <2> DEFINE x == [z EXCEPT !.state = "Completed", !.release = q]
  <2>1. ResolvedSettlement(s, o) = x
    BY <1>2 DEF ResolvedSettlement
  <2> HIDE DEF q
  <2>2. x \in SettlementType /\ x.reservation = z.reservation /\ x.disputed = z.disputed
        /\ x.state = "Completed" /\ x.release = q
    BY <1>1, ZenonT(60) DEF SettlementType, SettlementStates
  <2> HIDE DEF x
  <2> QED BY <1>1, <1>2, <2>1, <2>2
<1>3. CASE o \notin {"BuyerWins", "MutualSettlement"}
  <2> DEFINE x == [z EXCEPT !.state = "Cancelled"]
  <2>1. ResolvedSettlement(s, o) = x
    BY <1>3 DEF ResolvedSettlement
  <2>2. x \in SettlementType /\ x.reservation = z.reservation /\ x.disputed = z.disputed
        /\ x.state = "Cancelled" /\ x.release = z.release
    BY DEF SettlementType, SettlementStates
  <2> HIDE DEF x
  <2> QED BY <1>3, <2>1, <2>2
<1> QED BY <1>2, <1>3

\* The execution of a verdict is observed: the case that is open ends, once.
LEMMA ExecutionKeeps ==
  ASSUME PipelineInv, NEW d \in Disputes, NEW o \in Resolutions \cup {"none"},
         PollExecutionConfirmed(d, o)
  PROVE  StepOK
<1> DEFINE s == dispute[d].settlement
           z == settlement[s]
           r == z.reservation
           x == ResolvedSettlement(s, o)
           w == [dispute[d] EXCEPT !.resolution = o, !.status = "Resolved"]
           sold == After(reservation[r], {"Settling"}, "Settled")
           back == After(reservation[r], {"Settling", "Settled"}, "EscrowLocked")
           y == IF o \in {"BuyerWins", "MutualSettlement"} THEN sold ELSE back
<1>1. dispute[d] \in DisputeType /\ s \in Settlements
  BY DEF PipelineInv, PipelineTypeOK, DisputeType
<1>2. /\ z \in SettlementType /\ r \in Reservations /\ reservation[r] \in ReservationType
      /\ ReleasedLate(z)
  BY <1>1, SettlementFields
<1>3. relay' = NoTx /\ ad' = ad
  BY DEF PollExecutionConfirmed
<1>4. CASE IsOpen(dispute[d]) /\ o # "none"
  <2>1. z.state = "Disputed" /\ z.disputed
    <3>1. d \in OpenAbout(s)
      BY <1>4 DEF OpenAbout, IsOpen
    <3> QED BY <1>1, <3>1 DEF PipelineInv, Cases, Holding, FrozenByOneCase, FrozenIsMarked
  <2>2. /\ settlement' = [settlement EXCEPT ![s] = x] /\ dispute' = [dispute EXCEPT ![d] = w]
        /\ reservation' = [reservation EXCEPT ![r] = y]
    BY <1>4, <2>1, ZenonT(60) DEF PollExecutionConfirmed, IsOpen, SettlementCompleted, SettlementAbandoned,
                      Transition, After
  <2>3. w \in DisputeType /\ w.settlement = s /\ w.status = "Resolved" /\ w.resolution = o
    BY <1>1, ZenonT(60) DEF DisputeType, DisputeStatuses
  <2>4. /\ x \in SettlementType /\ x.reservation = r /\ x.disputed = z.disputed
        /\ x.state = IF o \in {"BuyerWins", "MutualSettlement"} THEN "Completed" ELSE "Cancelled"
        /\ z.release # "none" => x.release = z.release
    BY <1>2, <2>1, Verdicts, ZenonT(60)
  <2>5. Passes(reservation[r], y) /\ y.state # "Settling"
    <3>1. Passes(reservation[r], sold)
          /\ sold.state = IF reservation[r].state \in {"Settling"} THEN "Settled"
                          ELSE reservation[r].state
      BY <1>2, Transitions
    <3>2. Passes(reservation[r], back)
          /\ back.state = IF reservation[r].state \in {"Settling", "Settled"} THEN "EscrowLocked"
                          ELSE reservation[r].state
      BY <1>2, Transitions
    <3> HIDE DEF sold, back
    <3> QED BY <3>1, <3>2
  <2> HIDE DEF x, w, y
  <2>6. CaseMoves(d, w, s, x) /\ CaseTurns(d, w, s, x)
    BY <1>4, <2>2, <2>3, <2>4 DEF CaseMoves, CaseTurns
  <2>7. Takes(s, x, r, y)
    BY <2>2, <2>4 DEF Takes
  <2>8. TellsAgain(s, x, r, y)
    BY <2>1, <2>4, <2>5 DEF TellsAgain, Sole, LiveState
  <2>9. ReleaseOK(z, x)
    BY <2>4 DEF ReleaseOK, ReleasedLate
  <2> QED BY <1>3, <2>5, <2>6, <2>7, <2>8, <2>9, CaseKeeps
<1>5. CASE ~(IsOpen(dispute[d]) /\ o # "none")
  <2>1. UNCHANGED <<ad, reservation, settlement, dispute>>
    BY <1>1, <1>5 DEF PollExecutionConfirmed, IsOpen, PipelineInv, PipelineTypeOK
  <2> QED BY <1>3, <2>1, RelayKeeps
<1> QED BY <1>4, <1>5

-----------------------------------------------------------------------------
(* The pipeline                                                            *)

\* A step that changes nothing.
LEMMA StutterKeeps == PipelineInv /\ UNCHANGED pipelineVars => StepOK
<1> SUFFICES ASSUME PipelineInv, UNCHANGED pipelineVars PROVE StepOK
  OBVIOUS
<1>1. UNCHANGED <<ad, reservation, settlement, dispute>> /\ relay' = relay
      /\ relay \in {NoTx} \cup Settlements \cup Disputes
  BY DEF pipelineVars, PipelineInv, PipelineTypeOK
<1> QED BY <1>1, RelayKeeps

\* Every event, sweep and poll keeps the invariant, and no recorded release.
LEMMA PipelineStep == PipelineInv /\ [PipelineNext]_pipelineVars => StepOK
<1> SUFFICES ASSUME PipelineInv, PipelineNext PROVE StepOK
  BY StutterKeeps
<1>1. ASSUME NEW l \in Liquidity, NEW t \in OfferedTerms, ApplyCreate(l, t) PROVE StepOK
  <2>1. l \in Nat /\ t \in [min : Nat, max : Nat, methods : {"none", "selectable", "foreign"}]
    BY PipelineAssumption
  <2> QED BY <1>1, <2>1, CreateKeeps
<1>2. ASSUME NEW st \in AdStatuses, ApplyStatusSet(st) PROVE StepOK
  BY <1>2, StatusSetKeeps
<1>3. ASSUME NEW t \in OfferedTerms, ApplyTermsUpdate(t) PROVE StepOK
  <2>1. t \in [min : Nat, max : Nat, methods : {"none", "selectable", "foreign"}]
    BY PipelineAssumption
  <2> QED BY <1>3, <2>1, TermsUpdateKeeps
<1>4. ASSUME NEW r \in Reservations, NEW amount \in Amounts, NEW stale \in BOOLEAN,
             ApplyRequest(r, amount, stale)
      PROVE  StepOK
  <2>1. amount \in Nat
    BY PipelineAssumption
  <2> QED BY <1>4, <2>1, RequestKeeps
<1>5. ASSUME NEW r \in Reservations, ApplyCancel(r) \/ WindowPasses(r) PROVE StepOK
  BY <1>5, CancelKeeps, WindowKeeps
<1>6. ASSUME ExpireStale PROVE StepOK
  BY <1>6, SweepKeeps
<1>7. ASSUME NEW s \in Settlements,
             \/ ApplyInitiate(s) \/ ApplyPaymentSubmitted(s) \/ ApplyPaymentReversed(s)
             \/ ApplyApproved(s) \/ ApplyRejected(s) \/ ApplyCancelled(s)
             \/ PollReleaseConfirmed(s)
      PROVE  StepOK
  BY <1>7, InitiateKeeps, PaymentKeeps, DecisionKeeps, ReleaseKeeps
<1>8. ASSUME NEW d \in Disputes, ApplyOpen(d) PROVE StepOK
  BY <1>8, OpenKeeps
<1>9. ASSUME NEW d \in Disputes, NEW a \in Panel,
             ApplyArbitratorJoin(d, a) \/ ApplyVoteCommit(d, a) \/ ApplyVoteReveal(d, a)
      PROVE  StepOK
  BY <1>9, ArbitrationKeeps
<1>10. ASSUME NEW d \in Disputes, NEW p \in Parties, ApplyMutualSettlementAgree(d, p) PROVE StepOK
  BY <1>10, AgreementKeeps
<1>11. ASSUME NEW d \in Disputes, NEW o \in Resolutions \cup {"none"}, PollExecutionConfirmed(d, o)
       PROVE  StepOK
  BY <1>11, ExecutionKeeps
<1>12. ASSUME NEW about \in Settlements \cup Disputes, SendTransaction(about) PROVE StepOK
  BY <1>12, RelayKeeps DEF SendTransaction
<1>13. ASSUME PollDrops PROVE StepOK
  BY <1>13, RelayKeeps DEF PollDrops
<1> QED BY <1>1, <1>2, <1>3, <1>4, <1>5, <1>6, <1>7, <1>8, <1>9, <1>10, <1>11, <1>12, <1>13
        DEF PipelineNext

\* The advertisement, reservation and settlement stores of a node always tell one story:
\* liquidity is on offer or behind one reservation, returned exactly once by cancels,
\* sweeps and settlements, and a reservation is held by the settlement that took it over
\* (reserve_liquidity, release_liquidity, expire_stale, settlement_started and its kin).
THEOREM LiquidityAlwaysConserved == PipelineSpec => []LiquidityConserved
<1>1. PipelineInit => PipelineInv
  BY InitPipeline
<1>2. PipelineInv /\ [PipelineNext]_pipelineVars => PipelineInv'
  BY PipelineStep DEF StepOK
<1>3. PipelineInv => LiquidityConserved
  BY InvConserves
<1> QED BY <1>1, <1>2, <1>3, PTL DEF PipelineSpec

\* In every order of release, dispute and verdict confirmations, a settlement is frozen
\* exactly while one case about it is open, ends as the chain decided its only case where
\* it has just one, and keeps the record of the transaction that released its escrow
\* (apply_dispute_opened, apply_onchain_execution, apply_escrow_released).
THEOREM CasesAlwaysGovern == PipelineSpec => CasesGovernSettlements
<1>1. PipelineInit => PipelineInv
  BY InitPipeline
<1>2. PipelineInv /\ [PipelineNext]_pipelineVars => PipelineInv'
  BY PipelineStep DEF StepOK
<1>3. PipelineInv => FrozenByOneCase /\ VerdictDecidesSettlement
  BY DEF PipelineInv, Cases
<1>4. PipelineInv /\ [PipelineNext]_pipelineVars => [ReleaseRecordedOnce]_pipelineVars
  BY PipelineStep DEF StepOK
<1> QED BY <1>1, <1>2, <1>3, <1>4, PTL DEF PipelineSpec, CasesGovernSettlements
==============================================================================
