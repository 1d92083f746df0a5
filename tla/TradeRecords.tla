---------------------------- MODULE TradeRecords ----------------------------
(***************************************************************************)
(* The four registries of a trade as one node holds them                   *)
(* (openfiat-advertisements, openfiat-reservations, openfiat-settlement,   *)
(* openfiat-disputes: store.rs of each), with what TradePipeline leaves    *)
(* out: who signed an event, under which key it is judged, and when.       *)
(*                                                                         *)
(* A desk `d' is a record of the four column families.  For every event    *)
(* type there is what the registry requires of a payload and the desk it   *)
(* leaves; `now' is the node's own clock, which some handlers write into   *)
(* records that other nodes hold too.  Amounts are base units of one       *)
(* precision.                                                              *)
(***************************************************************************)
EXTENDS Payloads, Integers, Sequences, SequencesExt, FiniteSetsExt

-----------------------------------------------------------------------------
(* Reading the book of advertisements (openfiat-advertisements, pricing.rs *)
(* and query.rs; openfiat-rpc, methods/advertisements.rs): what price an   *)
(* advertisement has now, whether a price a taker signed is the one its    *)
(* terms produce, and the page of a filtered listing after a cursor.       *)
(*                                                                         *)
(* Ids are numbers, which stand for the ids in their order.  A rate is a   *)
(* number of 1/RateScale: the product with the premium is exact here and a *)
(* deterministic f64 in the code.                                          *)

CONSTANTS RateScale,            \* the unit of an oracle rate
          AmountLimit,          \* 2^64: the first value an Amount cannot hold
          MaxPage, DefaultPage  \* MAX_PAGE, DEFAULT_PAGE

BPS == 10000

-----------------------------------------------------------------------------
(* Pricing                                                                 *)

\* to_amount of the quotient num / den: half to even, and no amount at all
\* below zero or past the width.
ToAmount(num, den) ==
    LET q == num \div den
        r == num % den
        rounded == IF 2 * r < den THEN q ELSE IF 2 * r > den THEN q + 1 ELSE q + (q % 2)
    IN  IF num < 0 \/ rounded >= AmountLimit THEN None ELSE rounded

Fixed(price) == [kind |-> "Fixed", price |-> price]

Floating(premium, decimals) ==
    [kind |-> "Floating", premium_bps |-> premium, price_decimals |-> decimals]

\* A MidPrice: a current median, or why there is none.
Available(rate, expires) == [found |-> "Available", rate |-> rate, expires_at |-> expires]
NoOracleData == [found |-> "NoOracleData"]
StaleOracleData == [found |-> "StaleOracleData"]

Unpriceable(reason) == [kind |-> "Unpriceable", reason |-> reason, price |-> None]

FloatingPrice(p, rate) ==
    ToAmount(rate * (BPS + p.premium_bps) * 10^p.price_decimals, RateScale * BPS)

QuoteFloating(p, mid) ==
    IF mid.found # "Available" THEN Unpriceable(mid.found)
    ELSE LET price == FloatingPrice(p, mid.rate)
         IN  IF price = None THEN Unpriceable("PriceOutOfRange")
             ELSE [kind |-> "Floating", price |-> price, mid_rate |-> mid.rate,
                   mid_expires_at |-> mid.expires_at]

\* PricingModel::quote: a fixed price ignores the oracle.
Quote(p, mid) == IF p.kind = "Fixed" THEN p ELSE QuoteFloating(p, mid)

\* Mutant: the check of an agreed price is written apart from the quote, and
\* rounds down.
AgreesWithFloor(p, price, mid) ==
    IF p.kind = "Fixed" THEN mid = None /\ price = p.price
    ELSE mid # None /\ price = (mid * (BPS + p.premium_bps) * 10^p.price_decimals)
                                 \div (RateScale * BPS)

\* PricingModel::agrees_with: recomputed along the path of the quote.
AgreesWith(p, price, mid) ==
    IF p.kind = "Fixed" THEN mid = None /\ price = p.price
    ELSE /\ mid # None
         /\ LET q == QuoteFloating(p, Available(mid, 0))
            IN  q.kind = "Floating" /\ q.price = price

\* resolve: the oracle publishes rates against symbols, so a mint without
\* one has no rate; `mids' is what the oracle registry answers for a symbol.
Resolve(ad, symbols, mids) ==
    IF ad.pricing.kind = "Fixed" \/ ad.mint \notin DOMAIN symbols
    THEN Quote(ad.pricing, NoOracleData)
    ELSE Quote(ad.pricing, mids[symbols[ad.mint]])

-----------------------------------------------------------------------------
(* Filters and pages                                                       *)

Unconstrained ==
    [statuses |-> None, merchant |-> None, mint |-> None, fiat |-> None,
     direction |-> None, method |-> None, amount |-> None]

\* AdvertisementFilter::matches.  No statuses means Active; an empty set of
\* them means none.
Matches(filter, ad) ==
    LET asks(field, has) == filter[field] # None => has
    IN  /\ ad.status \in IF filter.statuses = None THEN {"Active"} ELSE filter.statuses
        /\ asks("merchant", ad.merchant = filter.merchant)
        /\ asks("mint", ad.mint = filter.mint)
        /\ asks("fiat", ad.fiat = filter.fiat)
        /\ asks("direction", ad.direction = filter.direction)
        /\ asks("method", filter.method \in ad.methods)
        /\ filter.amount # None =>
             ad.min <= filter.amount /\ filter.amount <= ad.max
               /\ filter.amount <= ad.available

\* Page::limit
PageLimit(limit) ==
    LET asked == IF limit = None THEN DefaultPage ELSE limit
    IN  IF asked < 1 THEN 1 ELSE IF asked > MaxPage THEN MaxPage ELSE asked

\* Mutant: the cursor is an offset into the listing as it is now.
PageByOffset(book, filter, after, limit) ==
    LET ids == SetToSortSeq({i \in DOMAIN book : Matches(filter, book[i])}, LAMBDA i, j : i < j)
        start == IF after = None THEN 0 ELSE after
        rest == SubSeq(ids, start + 1, Len(ids))
        shown == SubSeq(rest, 1, IF Len(rest) < PageLimit(limit) THEN Len(rest) ELSE PageLimit(limit))
    IN  [ids |-> shown,
         next_cursor |-> IF Len(shown) = PageLimit(limit) THEN start + Len(shown) ELSE None]

\* page: the matching rows by id, those strictly after the cursor, cut at the
\* limit; a full page says there may be more.
PageOf(book, filter, after, limit) ==
    LET ids == SetToSortSeq({i \in DOMAIN book : Matches(filter, book[i])}, LAMBDA i, j : i < j)
        rest == IF after = None THEN ids ELSE SelectSeq(ids, LAMBDA i : i > after)
        full == Len(rest) >= PageLimit(limit)
        shown == IF full THEN SubSeq(rest, 1, PageLimit(limit)) ELSE rest
    IN  [ids |-> shown, next_cursor |-> IF full THEN Last(shown) ELSE None]

-----------------------------------------------------------------------------
CONSTANTS ValidationWindow,      \* VALIDATION_WINDOW
          MaxClockSkew,          \* MAX_CLOCK_SKEW
          RequiredArbitrators    \* REQUIRED_ARBITRATORS

EmptyDesk ==
    [ads |-> EmptyStore, reservations |-> EmptyStore, settlements |-> EmptyStore,
     disputes |-> EmptyStore]

-----------------------------------------------------------------------------
(* Advertisements                                                          *)

\* A payment method is a catalogue entry (owner None) or a merchant's own.
\* check_terms: something to pay with, all of it the merchant's to offer, and
\* a range of amounts.
CheckTerms(e) ==
    /\ e.methods # {}
    /\ \A m \in e.methods : m.owner \in {None, e.wallet}
    /\ e.min <= e.max

NewAdvertisement(e) ==
    [merchant |-> e.wallet, mint |-> e.mint, direction |-> e.direction, fiat |-> e.fiat,
     min |-> e.min, max |-> e.max, available |-> e.liquidity, pricing |-> e.pricing,
     methods |-> e.methods, status |-> "Active",
     created_at |-> e.timestamp, updated_at |-> e.timestamp]

CanCreate(d, e) == SelfSigned(e) /\ e.id \notin DOMAIN d.ads /\ CheckTerms(e)

\* authorize: a change is the merchant's, by the key on file, and a deleted
\* advertisement takes none.
Authorized(d, e) ==
    /\ e.id \in DOMAIN d.ads
    /\ SignedBy(e, d.ads[e.id].merchant)
    /\ d.ads[e.id].status # "Deleted"

CanSetStatus(d, e) ==
    Authorized(d, e) /\ (e.status = "Active" => d.ads[e.id].available > 0)

CanUpdateTerms(d, e) == Authorized(d, e) /\ CheckTerms(e)

\* No change compares timestamps: the last one heard stands.
AdUpdated(d, e, ad) == [d EXCEPT !.ads[e.id] = [ad EXCEPT !.updated_at = e.timestamp]]

CreateApplied(d, e) == [d EXCEPT !.ads = Put(@, e.id, NewAdvertisement(e))]

StatusSetApplied(d, e) == AdUpdated(d, e, [d.ads[e.id] EXCEPT !.status = e.status])

TermsUpdateApplied(d, e) ==
    AdUpdated(d, e, [d.ads[e.id] EXCEPT !.min = e.min, !.max = e.max, !.methods = e.methods])

PricingUpdateApplied(d, e) == AdUpdated(d, e, [d.ads[e.id] EXCEPT !.pricing = e.pricing])

\* reserve_liquidity: the last of it disables the advertisement.
LiquidityReserved(d, id, amount, now) ==
    LET left == d.ads[id].available - amount
    IN  [d EXCEPT !.ads[id] =
            [@ EXCEPT !.available = left, !.updated_at = now,
                      !.status = IF left = 0 THEN "Disabled" ELSE @]]

\* release_liquidity: an advertisement it does not have is an error.
CanReleaseLiquidity(d, id) == id \in DOMAIN d.ads

LiquidityReleased(d, id, amount, now) ==
    IF ~CanReleaseLiquidity(d, id) THEN d
    ELSE [d EXCEPT !.ads[id] =
            [@ EXCEPT !.available = @ + amount, !.updated_at = now]]

-----------------------------------------------------------------------------
(* Reservations                                                            *)

NewReservation(e) ==
    [ad |-> e.ad, requester |-> e.wallet, amount |-> e.amount, price |-> e.price, mid |-> e.mid,
     state |-> "EscrowLocked", requested_at |-> e.timestamp, updated_at |-> e.timestamp,
     expires_at |-> e.timestamp + ValidationWindow]

\* apply_request up to the price, and the price by itself.
Requestable(d, e, now) ==
    /\ SelfSigned(e) /\ e.id \notin DOMAIN d.reservations
    /\ e.amount > 0 /\ e.timestamp <= now + MaxClockSkew
    /\ e.ad \in DOMAIN d.ads /\ d.ads[e.ad].status = "Active"
    /\ d.ads[e.ad].min <= e.amount /\ e.amount <= d.ads[e.ad].max

PriceAgreed(d, e) == AgreesWith(d.ads[e.ad].pricing, e.price, e.mid)

CanRequest(d, e, now) ==
    Requestable(d, e, now) /\ PriceAgreed(d, e) /\ e.amount <= d.ads[e.ad].available

RequestApplied(d, e, now) ==
    [LiquidityReserved(d, e.ad, e.amount, now) EXCEPT
        !.reservations = Put(@, e.id, NewReservation(e))]

\* apply_cancel: only the requester, and not once a settlement has it.
CanCancelReservation(d, e) ==
    /\ e.id \in DOMAIN d.reservations
    /\ SignedBy(e, d.reservations[e.id].requester)
    /\ d.reservations[e.id].state = "EscrowLocked"

CancelApplied(d, e, now) ==
    LET r == d.reservations[e.id]
    IN  [LiquidityReleased(d, r.ad, r.amount, now) EXCEPT
            !.reservations[e.id] = [r EXCEPT !.state = "Cancelled", !.updated_at = e.timestamp]]

\* transition: the callers ignore a refusal, and the stamp is the local clock.
Transition(d, r, from, to, now) ==
    IF r \in DOMAIN d.reservations /\ d.reservations[r].state \in from
    THEN [d EXCEPT !.reservations[r] = [@ EXCEPT !.state = to, !.updated_at = now]]
    ELSE d

SettlementStarted(d, r, now) == Transition(d, r, {"EscrowLocked"}, "Settling", now)
SettlementCompleted(d, r, now) == Transition(d, r, {"Settling"}, "Settled", now)
SettlementAbandoned(d, r, now) ==
    Transition(d, r, {"Settling", "Settled"}, "EscrowLocked", now)

\* expire_stale: every lapsed lock whose advertisement can take it back; the
\* others are left for a later sweep.
Lapsed(d, now) ==
    {r \in DOMAIN d.reservations :
        /\ d.reservations[r].state = "EscrowLocked"
        /\ d.reservations[r].requested_at < SaturatingSub(now, ValidationWindow)
        /\ CanReleaseLiquidity(d, d.reservations[r].ad)}

StaleExpired(d, now) ==
    LET gone == Lapsed(d, now)
        back(a) == MapThenSumSet(LAMBDA r : d.reservations[r].amount,
                                 {r \in gone : d.reservations[r].ad = a})
    IN  [d EXCEPT
           !.reservations = [r \in DOMAIN @ |->
               IF r \in gone THEN [@[r] EXCEPT !.state = "Expired", !.updated_at = now] ELSE @[r]],
           !.ads = [a \in DOMAIN @ |->
               IF \E r \in gone : d.reservations[r].ad = a
               THEN [@[a] EXCEPT !.available = @ + back(a), !.updated_at = now] ELSE @[a]]]

-----------------------------------------------------------------------------
(* Settlements                                                             *)

\* The buyer signs, and names the seller and the seller's key.
NewSettlement(e) ==
    [reservation |-> e.reservation, buyer |-> e.wallet, seller |-> e.seller,
     seller_key |-> e.seller_key, amount |-> e.amount, state |-> "AwaitingPayment",
     reference |-> None, release |-> None, payment_submitted_at |-> None,
     merchant_responded_at |-> None, discrepancy |-> None, disputed_at |-> None,
     created_at |-> e.timestamp, updated_at |-> e.timestamp]

CanInitiate(d, e) == SelfSigned(e) /\ e.id \notin DOMAIN d.settlements

InitiateApplied(d, e, now) ==
    [SettlementStarted(d, e.reservation, now) EXCEPT
        !.settlements = Put(@, e.id, NewSettlement(e))]

\* A settlement in one of the states `from', and an action of its buyer or of
\* its seller by the key it keeps for them.
Actionable(d, e, from) == e.id \in DOMAIN d.settlements /\ d.settlements[e.id].state \in from
ByBuyer(d, e) == SignedBy(e, d.settlements[e.id].buyer)
BySeller(d, e) ==
    e.wallet = d.settlements[e.id].seller /\ e.signer = d.settlements[e.id].seller_key

SettlementPut(d, id, s) == [d EXCEPT !.settlements[id] = s]

CanSubmitPayment(d, e) == Actionable(d, e, {"AwaitingPayment"}) /\ ByBuyer(d, e)

PaymentSubmittedApplied(d, e) ==
    SettlementPut(d, e.id,
        [d.settlements[e.id] EXCEPT !.state = "PaymentSubmitted", !.reference = e.reference,
            !.payment_submitted_at = e.timestamp, !.updated_at = e.timestamp])

CanReversePayment(d, e) == Actionable(d, e, {"PaymentSubmitted"}) /\ ByBuyer(d, e)

PaymentReversedApplied(d, e) ==
    SettlementPut(d, e.id,
        [d.settlements[e.id] EXCEPT !.state = "AwaitingPayment", !.reference = None,
            !.payment_submitted_at = None, !.updated_at = e.timestamp])

\* Mutant: a decision on a payment is judged by the wallet it names alone.
CanDecideByName(d, e) ==
    Actionable(d, e, {"PaymentSubmitted"}) /\ e.wallet = d.settlements[e.id].seller

\* What apply_approved and apply_rejected ask for.
CanDecide(d, e) == Actionable(d, e, {"PaymentSubmitted"}) /\ BySeller(d, e)

ApprovedApplied(d, e, now) ==
    LET s == d.settlements[e.id]
    IN  SettlementPut(SettlementCompleted(d, s.reservation, now), e.id,
            [s EXCEPT !.state = "Approved", !.merchant_responded_at = e.timestamp,
                      !.updated_at = e.timestamp])

RejectedApplied(d, e, now) ==
    LET s == d.settlements[e.id]
    IN  SettlementPut(SettlementAbandoned(d, s.reservation, now), e.id,
            [s EXCEPT !.state = "Rejected", !.merchant_responded_at = e.timestamp,
                      !.discrepancy = e.discrepancy, !.updated_at = e.timestamp])

CanCancelSettlement(d, e) ==
    Actionable(d, e, {"AwaitingPayment"}) /\ (ByBuyer(d, e) \/ BySeller(d, e))

CancelledApplied(d, e, now) ==
    LET s == d.settlements[e.id]
    IN  SettlementPut(SettlementAbandoned(d, s.reservation, now), e.id,
            [s EXCEPT !.state = "Cancelled", !.updated_at = e.timestamp])

\* apply_escrow_released: observed on chain by this node, stamped by its clock.
CanRelease(d, id) == id \in DOMAIN d.settlements /\ d.settlements[id].state = "Approved"

EscrowReleasedApplied(d, id, signature, now) ==
    SettlementPut(d, id,
        [d.settlements[id] EXCEPT !.state = "Completed", !.release = signature,
                                  !.updated_at = now])

\* apply_dispute_opened
CanFreeze(d, id) ==
    id \in DOMAIN d.settlements /\ d.settlements[id].state \notin {"Cancelled", "Disputed"}

Frozen(d, id, opened) ==
    SettlementPut(d, id,
        [d.settlements[id] EXCEPT !.state = "Disputed", !.disputed_at = opened,
                                  !.updated_at = opened])

\* Resolution::escrow_verdict and apply_dispute_resolved: a refusal is ignored,
\* and a release that was recorded before the dispute stays the one recorded.
ReleasesEscrow(outcome) == outcome \in {"BuyerWins", "MutualSettlement"}

DisputeResolvedApplied(d, id, outcome, signature, now) ==
    LET s == d.settlements[id]
    IN  IF s.state # "Disputed" THEN d
        ELSE IF ReleasesEscrow(outcome)
        THEN SettlementPut(SettlementCompleted(d, s.reservation, now), id,
                [s EXCEPT !.state = "Completed", !.updated_at = now,
                          !.release = IF @ = None THEN signature ELSE @])
        ELSE SettlementPut(SettlementAbandoned(d, s.reservation, now), id,
                [s EXCEPT !.state = "Cancelled", !.updated_at = now])

-----------------------------------------------------------------------------
(* Disputes                                                                *)

NewDispute(d, e) ==
    [settlement |-> e.settlement, buyer |-> d.settlements[e.settlement].buyer,
     seller |-> d.settlements[e.settlement].seller,
     seller_key |-> d.settlements[e.settlement].seller_key, opener |-> e.wallet,
     status |-> "Open", arbitrators |-> {}, commitments |-> EmptyStore, reveals |-> EmptyStore,
     resolution |-> None, agreed |-> {}, execution |-> None,
     opened_at |-> e.timestamp, updated_at |-> e.timestamp]

CanOpen(d, e) ==
    /\ SelfSigned(e) /\ e.id \notin DOMAIN d.disputes
    /\ CanFreeze(d, e.settlement)
    /\ e.wallet \in {d.settlements[e.settlement].buyer, d.settlements[e.settlement].seller}

OpenApplied(d, e) ==
    [Frozen(d, e.settlement, e.timestamp) EXCEPT !.disputes = Put(@, e.id, NewDispute(d, e))]

InPhase(d, e, phase) == e.id \in DOMAIN d.disputes /\ d.disputes[e.id].status = phase

\* What a seat's message leaves: `field' gains an entry once, and the last
\* seat of the panel opens the next phase.
SeatFilled(d, e, field, filled, next) ==
    [d EXCEPT !.disputes[e.id] =
        [@ EXCEPT ![field] = filled, !.updated_at = e.timestamp,
                  !.status = IF next # None THEN next ELSE @]]

PhaseAfter(seats, next) == IF Cardinality(seats) = RequiredArbitrators THEN next ELSE None

\* A panel that is full is no longer Open, so its check of the size never fires.
CanJoin(d, e) == SelfSigned(e) /\ InPhase(d, e, "Open")

JoinApplied(d, e) ==
    LET seats == d.disputes[e.id].arbitrators
    IN  IF e.wallet \in seats THEN d
        ELSE SeatFilled(d, e, "arbitrators", seats \cup {e.wallet},
                        PhaseAfter(seats \cup {e.wallet}, "CaseLocked"))

CanCommit(d, e) ==
    InPhase(d, e, "CaseLocked") /\ e.wallet \in d.disputes[e.id].arbitrators
      /\ SelfSigned(e)

CommitApplied(d, e) ==
    LET c == d.disputes[e.id].commitments
        filled == Put(c, e.wallet, e.commitment)
    IN  IF e.wallet \in DOMAIN c THEN d
        ELSE SeatFilled(d, e, "commitments", filled, PhaseAfter(DOMAIN filled, "RevealPhase"))

\* commitment::compute is injective: a commitment is the pair it hides.
CanReveal(d, e) ==
    /\ InPhase(d, e, "RevealPhase") /\ e.wallet \in d.disputes[e.id].arbitrators
    /\ SelfSigned(e)
    /\ d.disputes[e.id].commitments[e.wallet] = <<e.vote, e.secret>>

RevealApplied(d, e) ==
    LET v == d.disputes[e.id].reveals
        filled == Put(v, e.wallet, e.vote)
    IN  IF e.wallet \in DOMAIN v THEN d
        ELSE SeatFilled(d, e, "reveals", filled,
                        PhaseAfter(DOMAIN filled, "AwaitingChainExecution"))

CanAgree(d, e) ==
    /\ e.id \in DOMAIN d.disputes /\ d.disputes[e.id].status # "Resolved"
    /\ IF e.wallet = d.disputes[e.id].buyer THEN SelfSigned(e)
       ELSE e.wallet = d.disputes[e.id].seller /\ e.signer = d.disputes[e.id].seller_key

AgreeApplied(d, e) ==
    LET c == d.disputes[e.id]
        agreed == c.agreed \cup {IF e.wallet = c.buyer THEN "buyer" ELSE "seller"}
    IN  SeatFilled(d, e, "agreed", agreed,
            IF agreed = {"buyer", "seller"} THEN "AwaitingChainExecution" ELSE None)

\* apply_onchain_execution: the signature is kept whatever the account says;
\* only an outcome that could be read resolves the case and frees the trade.
CanExecute(d, id) == id \in DOMAIN d.disputes /\ d.disputes[id].status # "Resolved"

ExecutionApplied(d, id, signature, outcome, now) ==
    LET c == d.disputes[id]
        signed == [c EXCEPT !.execution = signature]
    IN  IF outcome = None THEN [d EXCEPT !.disputes[id] = signed]
        ELSE [DisputeResolvedApplied(d, c.settlement, outcome, signature, now) EXCEPT
                !.disputes[id] = [signed EXCEPT !.resolution = outcome, !.status = "Resolved"]]

-----------------------------------------------------------------------------
(* Events                                                                  *)

\* apply_event of the four registries: what is asked of a payload of each
\* type, and what it leaves.
Accepts(d, e, now) ==
    CASE e.kind = "AdvertisementCreated" -> CanCreate(d, e)
      [] e.kind = "AdvertisementStatusSet" -> CanSetStatus(d, e)
      [] e.kind = "AdvertisementTermsUpdated" -> CanUpdateTerms(d, e)
      [] e.kind = "AdvertisementPricingUpdated" -> Authorized(d, e)
      [] e.kind = "ReservationRequested" -> CanRequest(d, e, now)
      [] e.kind = "ReservationCancelled" -> CanCancelReservation(d, e)
      [] e.kind = "SettlementInitiated" -> CanInitiate(d, e)
      [] e.kind = "PaymentSubmitted" -> CanSubmitPayment(d, e)
      [] e.kind = "PaymentReversed" -> CanReversePayment(d, e)
      [] e.kind \in {"SettlementApproved", "SettlementRejected"} -> CanDecide(d, e)
      [] e.kind = "SettlementCancelled" -> CanCancelSettlement(d, e)
      [] e.kind = "DisputeOpened" -> CanOpen(d, e)
      [] e.kind = "ArbitratorJoined" -> CanJoin(d, e)
      [] e.kind = "VoteCommitted" -> CanCommit(d, e)
      [] e.kind = "VoteRevealed" -> CanReveal(d, e)
      [] e.kind = "MutualSettlementAgreed" -> CanAgree(d, e)

Effect(d, e, now) ==
    CASE e.kind = "AdvertisementCreated" -> CreateApplied(d, e)
      [] e.kind = "AdvertisementStatusSet" -> StatusSetApplied(d, e)
      [] e.kind = "AdvertisementTermsUpdated" -> TermsUpdateApplied(d, e)
      [] e.kind = "AdvertisementPricingUpdated" -> PricingUpdateApplied(d, e)
      [] e.kind = "ReservationRequested" -> RequestApplied(d, e, now)
      [] e.kind = "ReservationCancelled" -> CancelApplied(d, e, now)
      [] e.kind = "SettlementInitiated" -> InitiateApplied(d, e, now)
      [] e.kind = "PaymentSubmitted" -> PaymentSubmittedApplied(d, e)
      [] e.kind = "PaymentReversed" -> PaymentReversedApplied(d, e)
      [] e.kind = "SettlementApproved" -> ApprovedApplied(d, e, now)
      [] e.kind = "SettlementRejected" -> RejectedApplied(d, e, now)
      [] e.kind = "SettlementCancelled" -> CancelledApplied(d, e, now)
      [] e.kind = "DisputeOpened" -> OpenApplied(d, e)
      [] e.kind = "ArbitratorJoined" -> JoinApplied(d, e)
      [] e.kind = "VoteCommitted" -> CommitApplied(d, e)
      [] e.kind = "VoteRevealed" -> RevealApplied(d, e)
      [] e.kind = "MutualSettlementAgreed" -> AgreeApplied(d, e)

EventApplied(d, e, now) == IF Accepts(d, e, now) THEN Effect(d, e, now) ELSE d

-----------------------------------------------------------------------------
(* The signed payloads: one operator per method of the four services       *)

(* AdvertisementService                                                    *)

Terms(min, max, methods) == [min |-> min, max |-> max, methods |-> methods]

AdvertisementCreate(merchant, id, terms, pricing, liquidity, now) ==
    Signed("AdvertisementCreated", merchant, id, now) @@ terms @@
    [mint |-> "usdc", direction |-> "Sell", fiat |-> "EUR", pricing |-> pricing,
     liquidity |-> liquidity]

AdvertisementSetStatus(merchant, id, status, now) ==
    Signed("AdvertisementStatusSet", merchant, id, now) @@ [status |-> status]

AdvertisementUpdateTerms(merchant, id, terms, now) ==
    Signed("AdvertisementTermsUpdated", merchant, id, now) @@ terms

AdvertisementUpdatePricing(merchant, id, pricing, now) ==
    Signed("AdvertisementPricingUpdated", merchant, id, now) @@ [pricing |-> pricing]

(* ReservationService                                                      *)

ReservationRequest(requester, id, ad, amount, price, mid, now) ==
    Signed("ReservationRequested", requester, id, now) @@
    [ad |-> ad, amount |-> amount, price |-> price, mid |-> mid]

ReservationCancel(requester, id, now) == Signed("ReservationCancelled", requester, id, now)

(* SettlementService                                                       *)

\* The buyer states the seller's key; nothing ties it to the seller's peer id.
SettlementInitiate(buyer, id, reservation, seller, seller_key, amount, now) ==
    Signed("SettlementInitiated", buyer, id, now) @@
    [reservation |-> reservation, seller |-> seller, seller_key |-> seller_key,
     amount |-> amount]

SubmitPayment(buyer, id, reference, now) ==
    Signed("PaymentSubmitted", buyer, id, now) @@ [reference |-> reference]

ReversePayment(buyer, id, now) == Signed("PaymentReversed", buyer, id, now)

SettlementApprove(seller, id, now) == Signed("SettlementApproved", seller, id, now)

SettlementReject(seller, id, discrepancy, now) ==
    Signed("SettlementRejected", seller, id, now) @@ [discrepancy |-> discrepancy]

SettlementCancel(party, id, now) == Signed("SettlementCancelled", party, id, now)

(* DisputeService                                                          *)

DisputeOpen(opener, id, settlement, now) ==
    Signed("DisputeOpened", opener, id, now) @@ [settlement |-> settlement]

JoinAsArbitrator(arbitrator, id, now) == Signed("ArbitratorJoined", arbitrator, id, now)

CommitVote(arbitrator, id, vote, secret, now) ==
    Signed("VoteCommitted", arbitrator, id, now) @@ [commitment |-> <<vote, secret>>]

RevealVote(arbitrator, id, vote, secret, now) ==
    Signed("VoteRevealed", arbitrator, id, now) @@ [vote |-> vote, secret |-> secret]

AgreeToMutualSettlement(party, id, now) == Signed("MutualSettlementAgreed", party, id, now)

-----------------------------------------------------------------------------
(* How a node reads what the chain decided about a dispute: the layout of  *)
(* the program's DisputeCase (programs/escrow, state.rs) and the decoder   *)
(* written by hand against it (openfiat-rpc, onchain_dispute.rs).          *)
(*                                                                         *)
(* Account data is a sequence of numbers, one per scalar: a vector is its  *)
(* length and its items, an option is 0, or 1 and its value.  The widths   *)
(* of the scalars, and the fields after the outcome, are left out.         *)

DISPUTE_CASE_DISCRIMINATOR == 164

\* DisputeOutcome, in declaration order.
Outcomes == <<"BuyerWins", "MerchantWins", "MutualSettlement", "Invalid">>

Vector(items) == <<Len(items)>> \o items
Option(value) == IF value = None THEN <<0>> ELSE <<1, value>>
Discriminant(outcome) ==
    IF outcome = None THEN None ELSE (CHOOSE i \in DOMAIN Outcomes : Outcomes[i] = outcome) - 1

\* The account Anchor writes: eleven scalars, six vectors, the deposit's four
\* fields, and the outcome.  A case that split the escrow evenly, its rounds
\* exhausted, is resolved without one.
Account(owner, c) ==
    LET prefix == [i \in 1..11 |-> IF i = 6 /\ c.resolved THEN 1 ELSE 0]
    IN  [owner |-> owner, resolved |-> c.resolved, outcome |-> c.outcome,
         data |-> <<DISPUTE_CASE_DISCRIMINATOR>> \o prefix
                    \o Vector(c.arbitrators) \o Vector(c.arbitrators)
                    \o <<Len(c.revealed)>>
                    \o FlattenSeq([i \in DOMAIN c.revealed |-> Option(Discriminant(c.revealed[i]))])
                    \o Vector(c.weights) \o Vector(c.weights) \o Vector(c.barred)
                    \o <<0, 0, c.deposit, c.shortfall>> \o Option(Discriminant(c.outcome))]

-----------------------------------------------------------------------------
(* The decoder.  A cursor is what is left to read, or None after an error. *)

Take(cursor, count) ==
    IF cursor = None THEN None
    ELSE IF Len(cursor) < count THEN None ELSE SubSeq(cursor, count + 1, Len(cursor))

SkipVec(cursor) ==
    IF cursor = None THEN None
    ELSE IF cursor = <<>> THEN None ELSE Take(cursor, 1 + cursor[1])

\* Each element is a presence byte and, when present, the discriminant.
SkipOptionVec(cursor) ==
    LET width(i) == IF i <= Len(cursor) /\ cursor[i] = 1 THEN 2 ELSE 1
        len == cursor[1]
        next[i \in 0..len] == IF i = 0 THEN 2 ELSE next[i - 1] + width(next[i - 1])
    IN  IF cursor = None THEN None
        ELSE IF cursor = <<>> THEN None ELSE Take(cursor, next[len] - 1)

\* A ruling; an agreement of the parties is not one, and is an error.
ResolutionFromDiscriminant(raw) ==
    IF raw \in {0, 1, 3} THEN Outcomes[raw + 1] ELSE None

\* Mutant: the seats barred in earlier rounds are not skipped.
DecodeOutcomeUnbarred(account) ==
    LET fixed == Take(account.data, 12)
        weights == SkipVec(SkipOptionVec(SkipVec(SkipVec(fixed))))
        rest == Take(SkipVec(weights), 4)
    IN  IF account.owner # "escrow" \/ account.data[1] # DISPUTE_CASE_DISCRIMINATOR THEN None
        ELSE IF rest = None THEN None
        ELSE IF Len(rest) < 2 \/ rest[1] # 1 THEN None ELSE ResolutionFromDiscriminant(rest[2])

\* decode_outcome, with every reason not to know a verdict as None.
DecodeOutcome(account) ==
    LET fixed == Take(account.data, 12)
        weights == SkipVec(SkipOptionVec(SkipVec(SkipVec(fixed))))
        rest == Take(SkipVec(SkipVec(weights)), 4)
    IN  IF account.owner # "escrow" \/ account.data[1] # DISPUTE_CASE_DISCRIMINATOR THEN None
        ELSE IF rest = None THEN None
        ELSE IF Len(rest) < 2 \/ rest[1] # 1 THEN None ELSE ResolutionFromDiscriminant(rest[2])

\* read_dispute_outcome: no address, no account and no decoding are the same
\* answer.
ReadDisputeOutcome(account) == IF account = None THEN None ELSE DecodeOutcome(account)

=============================================================================
