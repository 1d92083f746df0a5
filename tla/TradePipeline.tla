----------------------------- MODULE TradePipeline -----------------------------
(***************************************************************************)
(* One node's view of trades on one advertisement: the advertisement, the  *)
(* reservations that lock its liquidity, the settlements that use them and *)
(* the disputes about those, with the node's relay of transactions to the  *)
(* chain.  One action is one signed event applied by a store (`apply_*`),  *)
(* one pass of a sweep, or one poll of the chain.  Events may be applied   *)
(* in any order and more than once, as gossip delivers them; an event a    *)
(* store refuses changes nothing, so a refusal is a disabled action.       *)
(*                                                                         *)
(* Not represented: signatures and identities (every event is from the     *)
(* party the code requires), prices (a request whose price disagrees is    *)
(* refused before anything changes), clock values (a reservation is past   *)
(* its validation window or not), and vote contents (never tallied here).  *)
(***************************************************************************)
EXTENDS Integers, FiniteSets, Functions

CONSTANTS
  Reservations, Settlements, Disputes,   \* identifiers
  Panel,   \* wallets that may join a case as arbitrators
  REQUIRED_ARBITRATORS,
  Amounts,       \* amounts reservations may ask for
  Liquidity,     \* initial liquidity an advertisement may be created with
  OfferedTerms,         \* trade terms a merchant may publish, usable or not
  NoTx           \* no transaction is tracked

ASSUME PipelineAssumption ==
  /\ IsFiniteSet(Reservations) /\ IsFiniteSet(Settlements) /\ IsFiniteSet(Disputes)
  /\ Settlements \cap Disputes = {} /\ NoTx \notin Settlements \cup Disputes
  /\ REQUIRED_ARBITRATORS \in Nat \ {0}
  /\ Amounts \subseteq Nat /\ Liquidity \subseteq Nat
  /\ OfferedTerms \subseteq [min : Nat, max : Nat, methods : {"none", "selectable", "foreign"}]

VARIABLES
  ad,            \* the advertisement record
  reservation,   \* the reservation records, by identifier
  settlement,    \* the settlement records, by identifier
  dispute,       \* the dispute records, by identifier
  relay          \* what the transaction being relayed is correlated with

pipelineVars == <<ad, reservation, settlement, dispute, relay>>

-----------------------------------------------------------------------------
(* Records                                                                 *)

AdStatuses == {"Active", "Disabled", "Vacation", "Deleted"}
ReservationStates == {"EscrowLocked", "Settling", "Settled", "Cancelled", "Expired"}
SettlementStates == {"AwaitingPayment", "PaymentSubmitted", "Approved", "Completed",
                     "Rejected", "Cancelled", "Disputed"}
DisputeStatuses == {"Open", "CaseLocked", "RevealPhase", "AwaitingChainExecution", "Resolved"}
Resolutions == {"BuyerWins", "MerchantWins", "MutualSettlement", "Invalid"}
Parties == {"buyer", "seller"}

\* "none" stands for a record the node does not hold.  `initial` is history: the
\* liquidity the advertisement was created with.
NoAd == [status |-> "none", available |-> 0, min |-> 0, max |-> 0, initial |-> 0]
NoReservation == [state |-> "none", amount |-> 0, stale |-> FALSE]

\* `release` says which transaction escrow_release_signature names.  `held` is history:
\* the settlement found its reservation locked when it was initiated.
NoSettlement(r) ==
  [state |-> "none", reservation |-> r, release |-> "none", disputed |-> FALSE, held |-> FALSE]

NoDispute(s) ==
  [status |-> "none", settlement |-> s, arbitrators |-> {}, commitments |-> {},
   reveals |-> {}, agreed |-> {}, resolution |-> "none"]

PipelineInit ==
  /\ ad = NoAd
  /\ reservation = [r \in Reservations |-> NoReservation]
  /\ settlement \in [Settlements -> {NoSettlement(r) : r \in Reservations}]
  /\ dispute \in [Disputes -> {NoDispute(s) : s \in Settlements}]
  /\ relay = NoTx

-----------------------------------------------------------------------------
(* Advertisements                                                          *)

\* A floor above the ceiling matches nothing, and there must be a payment method, all
\* of them this build's own or the merchant's own.
CheckTerms(t) == t.methods = "selectable" /\ t.min <= t.max

ApplyCreate(liquidity, t) ==
  /\ ad.status = "none" /\ CheckTerms(t)
  /\ ad' = [status |-> "Active", available |-> liquidity, min |-> t.min, max |-> t.max,
            initial |-> liquidity]
  /\ UNCHANGED <<reservation, settlement, dispute, relay>>

\* The merchant signs, and the advertisement is not deleted.
Authorized == ad.status \notin {"none", "Deleted"}

ApplyStatusSet(status) ==
  /\ Authorized
  /\ status = "Active" => ad.available > 0
  /\ ad' = [ad EXCEPT !.status = status]
  /\ UNCHANGED <<reservation, settlement, dispute, relay>>

ApplyTermsUpdate(t) ==
  /\ Authorized /\ CheckTerms(t)
  /\ ad' = [ad EXCEPT !.min = t.min, !.max = t.max]
  /\ UNCHANGED <<reservation, settlement, dispute, relay>>

\* Locking the last of the liquidity takes the advertisement down.
ReserveLiquidity(a, amount) ==
  [a EXCEPT !.available = a.available - amount,
            !.status = IF a.available = amount THEN "Disabled" ELSE a.status]

\* The status stays: a merchant puts an advertisement back up by hand.
ReleaseLiquidity(a, amount) == [a EXCEPT !.available = a.available + amount]

-----------------------------------------------------------------------------
(* Reservations                                                            *)

\* Mutant: the remaining liquidity is not compared with the request.
ApplyRequestUnchecked(r, amount, stale) ==
  /\ reservation[r].state = "none" /\ amount > 0
  /\ ad.status = "Active" /\ amount \in ad.min .. ad.max
  /\ ad' = ReserveLiquidity(ad, amount)
  /\ reservation' = [reservation EXCEPT ![r] =
       [state |-> "EscrowLocked", amount |-> amount, stale |-> stale]]
  /\ UNCHANGED <<settlement, dispute, relay>>

\* A request may carry a timestamp old enough to be past its window on arrival.
ApplyRequest(r, amount, stale) ==
  /\ reservation[r].state = "none" /\ amount > 0
  /\ ad.status = "Active" /\ amount \in ad.min .. ad.max /\ amount <= ad.available
  /\ ad' = ReserveLiquidity(ad, amount)
  /\ reservation' = [reservation EXCEPT ![r] =
       [state |-> "EscrowLocked", amount |-> amount, stale |-> stale]]
  /\ UNCHANGED <<settlement, dispute, relay>>

\* Mutant: a cancellation is accepted while a settlement runs.
ApplyCancelWhileSettling(r) ==
  /\ reservation[r].state \in {"EscrowLocked", "Settling"}
  /\ ad' = ReleaseLiquidity(ad, reservation[r].amount)
  /\ reservation' = [reservation EXCEPT ![r] = [reservation[r] EXCEPT !.state = "Cancelled"]]
  /\ UNCHANGED <<settlement, dispute, relay>>

ApplyCancel(r) ==
  /\ reservation[r].state = "EscrowLocked"
  /\ ad' = ReleaseLiquidity(ad, reservation[r].amount)
  /\ reservation' = [reservation EXCEPT ![r] = [reservation[r] EXCEPT !.state = "Cancelled"]]
  /\ UNCHANGED <<settlement, dispute, relay>>

\* The validation window of a reservation passes (of one that may still be swept).
WindowPasses(r) ==
  /\ reservation[r].state \in {"EscrowLocked", "Settling", "Settled"} /\ ~reservation[r].stale
  /\ reservation' = [reservation EXCEPT ![r] = [reservation[r] EXCEPT !.stale = TRUE]]
  /\ UNCHANGED <<ad, settlement, dispute, relay>>

Expirable == {r \in Reservations : reservation[r].state = "EscrowLocked" /\ reservation[r].stale}

\* The amounts of the reservations of a set.
AmountOf(rs) == SumFunction([r \in Reservations |->
  IF r \in rs THEN reservation[r].amount ELSE 0])

Expired(rs) == [r \in Reservations |->
  IF r \in rs THEN [reservation[r] EXCEPT !.state = "Expired"] ELSE reservation[r]]

\* Mutant: the sweep marks a reservation before it has credited the advertisement.
ExpireStaleWithoutCredit ==
  /\ Expirable # {}
  /\ reservation' = Expired(Expirable)
  /\ UNCHANGED <<ad, settlement, dispute, relay>>

\* Mutant: the sweep only looks at advertisements that are up.
ExpireStaleIfActive ==
  /\ Expirable # {} /\ ad.status = "Active"
  /\ ad' = ReleaseLiquidity(ad, AmountOf(Expirable))
  /\ reservation' = Expired(Expirable)
  /\ UNCHANGED <<settlement, dispute, relay>>

\* One pass of the sweep, over every reservation.  The advertisement of a reservation
\* the node holds is one it holds too, so no credit fails.
ExpireStale ==
  /\ Expirable # {}
  /\ ad' = ReleaseLiquidity(ad, AmountOf(Expirable))
  /\ reservation' = Expired(Expirable)
  /\ UNCHANGED <<settlement, dispute, relay>>

\* What a settlement does to its reservation: nothing unless it is in one of `from`.
Transition(r, from, to) ==
  reservation' = [reservation EXCEPT ![r] =
    IF reservation[r].state \in from THEN [reservation[r] EXCEPT !.state = to] ELSE reservation[r]]

SettlementStarted(r) == Transition(r, {"EscrowLocked"}, "Settling")

SettlementCompleted(r) == Transition(r, {"Settling"}, "Settled")

SettlementAbandoned(r) == Transition(r, {"Settling", "Settled"}, "EscrowLocked")

-----------------------------------------------------------------------------
(* Settlements                                                             *)

\* The node may not hold the reservation, or hold it in another state: the settlement
\* is recorded all the same.
ApplyInitiate(s) ==
  LET r == settlement[s].reservation IN
  /\ settlement[s].state = "none"
  /\ SettlementStarted(r)
  /\ settlement' = [settlement EXCEPT ![s] =
       [settlement[s] EXCEPT !.state = "AwaitingPayment",
                             !.held = reservation[r].state = "EscrowLocked"]]
  /\ UNCHANGED <<ad, dispute, relay>>

Moved(s, from, to) ==
  /\ settlement[s].state = from
  /\ settlement' = [settlement EXCEPT ![s] = [settlement[s] EXCEPT !.state = to]]
  /\ UNCHANGED <<ad, dispute, relay>>

ApplyPaymentSubmitted(s) ==
  Moved(s, "AwaitingPayment", "PaymentSubmitted") /\ UNCHANGED reservation

ApplyPaymentReversed(s) ==
  Moved(s, "PaymentSubmitted", "AwaitingPayment") /\ UNCHANGED reservation

\* Mutant: the reservation is only settled when the release is observed.
ApplyApprovedLeavingReservation(s) ==
  Moved(s, "PaymentSubmitted", "Approved") /\ UNCHANGED reservation

ApplyApproved(s) ==
  Moved(s, "PaymentSubmitted", "Approved") /\ SettlementCompleted(settlement[s].reservation)

ApplyRejected(s) ==
  Moved(s, "PaymentSubmitted", "Rejected") /\ SettlementAbandoned(settlement[s].reservation)

ApplyCancelled(s) ==
  Moved(s, "AwaitingPayment", "Cancelled") /\ SettlementAbandoned(settlement[s].reservation)

\* Mutant: a second case freezes what is already frozen.
FreezableTwice(s) == settlement[s].state \notin {"none", "Cancelled"}

\* apply_dispute_opened refuses a settlement with no escrow at stake and one already
\* frozen.
Freezable(s) == settlement[s].state \notin {"none", "Cancelled", "Disputed"}

\* Mutant: the verdict's transaction replaces the one recorded before.
ResolvedSettlementOverwriting(s, outcome) ==
  IF outcome \in {"BuyerWins", "MutualSettlement"}
  THEN [settlement[s] EXCEPT !.state = "Completed", !.release = "verdict"]
  ELSE [settlement[s] EXCEPT !.state = "Cancelled"]

\* Mutant: a case found invalid releases the escrow.
ResolvedSettlementInvalidReleases(s, outcome) ==
  IF outcome # "MerchantWins"
  THEN [settlement[s] EXCEPT !.state = "Completed",
                             !.release = IF settlement[s].release = "none" THEN "verdict"
                                         ELSE settlement[s].release]
  ELSE [settlement[s] EXCEPT !.state = "Cancelled"]

\* apply_dispute_resolved, for a settlement that is frozen.
ResolvedSettlement(s, outcome) ==
  IF outcome \in {"BuyerWins", "MutualSettlement"}
  THEN [settlement[s] EXCEPT !.state = "Completed",
                             !.release = IF settlement[s].release = "none" THEN "verdict"
                                         ELSE settlement[s].release]
  ELSE [settlement[s] EXCEPT !.state = "Cancelled"]

-----------------------------------------------------------------------------
(* Disputes                                                                *)

ApplyOpen(d) ==
  LET s == dispute[d].settlement IN
  /\ dispute[d].status = "none" /\ Freezable(s)
  /\ settlement' = [settlement EXCEPT ![s] =
       [settlement[s] EXCEPT !.state = "Disputed", !.disputed = TRUE]]
  /\ dispute' = [dispute EXCEPT ![d] = [dispute[d] EXCEPT !.status = "Open"]]
  /\ UNCHANGED <<ad, reservation, relay>>

\* One more member of a list that advances the case when it is full.
Full(members) == Cardinality(members) = REQUIRED_ARBITRATORS

ApplyArbitratorJoin(d, a) ==
  LET joined == dispute[d].arbitrators \cup {a} IN
  /\ dispute[d].status = "Open" /\ a \notin dispute[d].arbitrators
  /\ Cardinality(dispute[d].arbitrators) < REQUIRED_ARBITRATORS
  /\ dispute' = [dispute EXCEPT ![d] =
       [dispute[d] EXCEPT !.arbitrators = joined,
                          !.status = IF Full(joined) THEN "CaseLocked" ELSE dispute[d].status]]
  /\ UNCHANGED <<ad, reservation, settlement, relay>>

ApplyVoteCommit(d, a) ==
  LET committed == dispute[d].commitments \cup {a} IN
  /\ dispute[d].status = "CaseLocked"
  /\ a \in dispute[d].arbitrators \ dispute[d].commitments
  /\ dispute' = [dispute EXCEPT ![d] =
       [dispute[d] EXCEPT !.commitments = committed,
                          !.status = IF Full(committed) THEN "RevealPhase" ELSE dispute[d].status]]
  /\ UNCHANGED <<ad, reservation, settlement, relay>>

ApplyVoteReveal(d, a) ==
  LET revealed == dispute[d].reveals \cup {a} IN
  /\ dispute[d].status = "RevealPhase"
  /\ a \in (dispute[d].arbitrators \cap dispute[d].commitments) \ dispute[d].reveals
  /\ dispute' = [dispute EXCEPT ![d] =
       [dispute[d] EXCEPT !.reveals = revealed,
                          !.status = IF Full(revealed) THEN "AwaitingChainExecution" ELSE dispute[d].status]]
  /\ UNCHANGED <<ad, reservation, settlement, relay>>

\* Both agreeing decides nothing: it says what the chain should be asked to execute.
ApplyMutualSettlementAgree(d, party) ==
  LET agreed == dispute[d].agreed \cup {party} IN
  /\ dispute[d].status \notin {"none", "Resolved"}
  /\ dispute' = [dispute EXCEPT ![d] =
       [dispute[d] EXCEPT !.agreed = agreed,
                          !.status = IF agreed = Parties THEN "AwaitingChainExecution"
                                     ELSE dispute[d].status]]
  /\ UNCHANGED <<ad, reservation, settlement, relay>>

-----------------------------------------------------------------------------
(* The relay: sendTransaction queues, a poll of the chain submits and      *)
(* observes.  One transaction is tracked at a time (a bound of the model). *)

SendTransaction(about) ==
  /\ relay = NoTx /\ relay' = about
  /\ UNCHANGED <<ad, reservation, settlement, dispute>>

\* A submission no endpoint accepts is dropped, and so is a transaction that failed.  A
\* poll that finds it unconfirmed changes nothing.
PollDrops ==
  /\ relay # NoTx /\ relay' = NoTx
  /\ UNCHANGED <<ad, reservation, settlement, dispute>>

\* Confirmed, correlated with a settlement: apply_escrow_released, whose refusal of a
\* settlement that is not Approved is ignored.
PollReleaseConfirmed(s) ==
  /\ relay = s /\ relay' = NoTx
  /\ settlement' = [settlement EXCEPT ![s] =
       IF settlement[s].state = "Approved"
       THEN [settlement[s] EXCEPT !.state = "Completed", !.release = "release"]
       ELSE settlement[s]]
  /\ UNCHANGED <<ad, reservation, dispute>>

\* Confirmed, correlated with a dispute: apply_onchain_execution.  The outcome is "none"
\* when the node cannot read the case account.
PollExecutionConfirmed(d, outcome) ==
  LET s == dispute[d].settlement
      recorded == dispute[d].status \notin {"none", "Resolved"}
      frees == recorded /\ outcome # "none" /\ settlement[s].state = "Disputed"
  IN
  /\ relay = d /\ relay' = NoTx
  /\ dispute' = [dispute EXCEPT ![d] =
       IF recorded /\ outcome # "none"
       THEN [dispute[d] EXCEPT !.resolution = outcome, !.status = "Resolved"] ELSE dispute[d]]
  /\ settlement' = [settlement EXCEPT ![s] =
       IF frees THEN ResolvedSettlement(s, outcome) ELSE settlement[s]]
  /\ IF ~frees THEN UNCHANGED reservation
     ELSE IF outcome \in {"BuyerWins", "MutualSettlement"}
          THEN SettlementCompleted(settlement[s].reservation)
          ELSE SettlementAbandoned(settlement[s].reservation)
  /\ UNCHANGED ad

-----------------------------------------------------------------------------
PipelineNext ==
  \/ \E l \in Liquidity, t \in OfferedTerms : ApplyCreate(l, t)
  \/ \E st \in AdStatuses : ApplyStatusSet(st)
  \/ \E t \in OfferedTerms : ApplyTermsUpdate(t)
  \/ \E r \in Reservations, amount \in Amounts, stale \in BOOLEAN : ApplyRequest(r, amount, stale)
  \/ \E r \in Reservations : ApplyCancel(r) \/ WindowPasses(r)
  \/ ExpireStale
  \/ \E s \in Settlements :
        \/ ApplyInitiate(s) \/ ApplyPaymentSubmitted(s) \/ ApplyPaymentReversed(s)
        \/ ApplyApproved(s) \/ ApplyRejected(s) \/ ApplyCancelled(s)
        \/ PollReleaseConfirmed(s)
  \/ \E d \in Disputes :
        \/ ApplyOpen(d)
        \/ \E a \in Panel :
              ApplyArbitratorJoin(d, a) \/ ApplyVoteCommit(d, a) \/ ApplyVoteReveal(d, a)
        \/ \E p \in Parties : ApplyMutualSettlementAgree(d, p)
        \/ \E o \in Resolutions \cup {"none"} : PollExecutionConfirmed(d, o)
  \/ \E about \in Settlements \cup Disputes : SendTransaction(about)
  \/ PollDrops

PipelineSpec == PipelineInit /\ [][PipelineNext]_pipelineVars

-----------------------------------------------------------------------------
(* Properties                                                              *)

AdType ==
  [status : AdStatuses \cup {"none"}, available : Nat, min : Nat, max : Nat, initial : Nat]
ReservationType == [state : ReservationStates \cup {"none"}, amount : Nat, stale : BOOLEAN]
SettlementType ==
  [state : SettlementStates \cup {"none"}, reservation : Reservations,
   release : {"none", "release", "verdict"}, disputed : BOOLEAN, held : BOOLEAN]
DisputeType ==
  [status : DisputeStatuses \cup {"none"}, settlement : Settlements,
   arbitrators : SUBSET Panel, commitments : SUBSET Panel,
   reveals : SUBSET Panel, agreed : SUBSET Parties,
   resolution : Resolutions \cup {"none"}]

\* The records hold values of their types.
PipelineTypeOK ==
  /\ ad \in AdType
  /\ reservation \in [Reservations -> ReservationType]
  /\ settlement \in [Settlements -> SettlementType]
  /\ dispute \in [Disputes -> DisputeType]
  /\ relay \in {NoTx} \cup Settlements \cup Disputes

\* Liquidity is on offer, or behind a reservation that still has it, or sold: cancels,
\* sweeps and settlements of any kind return each amount exactly once.
Committed == {r \in Reservations : reservation[r].state \in {"EscrowLocked", "Settling", "Settled"}}
LiquidityCountedOnce == ad.available + AmountOf(Committed) = ad.initial

Live(s) == settlement[s].state \in {"AwaitingPayment", "PaymentSubmitted", "Disputed"}

Of(r) == {s \in Settlements : settlement[s].reservation = r /\ settlement[s].state # "none"}

\* A reservation that says a settlement holds it is held by one the node has and that
\* still runs (the view of a trade calls the opposite "not reachable").
SettlingHasLiveSettlement ==
  \A r \in Reservations : reservation[r].state = "Settling" => \E s \in Of(r) : Live(s)

\* The two records of a trade with a single settlement agree: held while the trade
\* runs, sold once it was approved, whatever cancels and sweeps do in between.
SoleSettlementHolds ==
  \A s \in Settlements :
    LET r == settlement[s].reservation IN
    (Of(r) = {s} /\ settlement[s].held /\ ~settlement[s].disputed) =>
      /\ Live(s) => reservation[r].state = "Settling"
      /\ settlement[s].state \in {"Approved", "Completed"} => reservation[r].state = "Settled"

\* The stores of advertisements, reservations and settlements, each written by its own
\* handlers, tell one story: no liquidity is lost or counted twice, and a reservation is
\* held exactly by the settlement that took it over.
LiquidityConserved ==
  PipelineTypeOK /\ LiquidityCountedOnce /\ SettlingHasLiveSettlement /\ SoleSettlementHolds

OpenAbout(s) == {d \in Disputes : dispute[d].settlement = s
                                  /\ dispute[d].status \notin {"none", "Resolved"}}

\* "Only one dispute may be open per settlement", and a settlement is frozen exactly
\* while a case about it is.
FrozenByOneCase ==
  \A s \in Settlements :
    /\ settlement[s].state = "Disputed" <=> OpenAbout(s) # {}
    /\ \A d, e \in OpenAbout(s) : d = e

\* A settlement with one case about it ends the way that case was decided on chain.
VerdictDecidesSettlement ==
  \A d \in Disputes :
    (dispute[d].status = "Resolved"
      /\ \A e \in Disputes \ {d} : dispute[e].settlement = dispute[d].settlement
                                    => dispute[e].status = "none")
    => settlement[dispute[d].settlement].state =
         IF dispute[d].resolution \in {"BuyerWins", "MutualSettlement"}
         THEN "Completed" ELSE "Cancelled"

\* Which transaction released an escrow is recorded once, also when a released trade is
\* disputed and a verdict executed later.
ReleaseRecordedOnce ==
  \A s \in Settlements :
    settlement[s].release # "none" => settlement'[s].release = settlement[s].release

\* A settlement is frozen exactly while one case about it is open, ends the way the chain
\* decided its only case where it has just one, and the transaction that released its
\* escrow is recorded once, also when the confirmation of a release and that of a verdict
\* arrive in either order
\* (apply_dispute_opened, apply_onchain_execution, apply_escrow_released).
CasesGovernSettlements ==
  [](FrozenByOneCase /\ VerdictDecidesSettlement) /\ [][ReleaseRecordedOnce]_pipelineVars

-----------------------------------------------------------------------------
(* What the comments of the crates say of them                             *)

\* A frozen escrow is "the strongest form of \"this liquidity is committed\" there is, so
\* nothing about a dispute should let the reservation be cancelled or swept out from
\* under it": no reservation is given up while a case is open about a settlement that
\* took it over.
FrozenTradeKeepsReservation ==
  [][\A r \in Reservations :
       reservation[r].state = "EscrowLocked" /\ reservation'[r].state \in {"Cancelled", "Expired"}
         => \A s \in Of(r) : settlement[s].held => settlement[s].state # "Disputed"]_pipelineVars
===============================================================================
