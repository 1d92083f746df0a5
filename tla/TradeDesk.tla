----------------------------- MODULE TradeDesk ------------------------------
(***************************************************************************)
(* Nodes that replicate the trade registries, their clients, and what the  *)
(* clients read (openfiat-rpc, methods/{advertisements, reservations,      *)
(* settlement, disputes, trade, counterparties, wallet_auth}.rs).          *)
(*                                                                         *)
(* A client sends a signed payload to a node it picks; the node applies it *)
(* and, if that was not an error, originates it; every other node applies  *)
(* it when it hears it, in whatever order it hears things.  What happened  *)
(* on chain each node sees for itself, when it looks.  Three readers run   *)
(* beside this: a taker who is shown a price and later signs it, a client  *)
(* paging through the book, and a wallet proving itself to read its own    *)
(* records.                                                                *)
(*                                                                         *)
(* A scene fixes the payloads that may be sent and to which nodes, the     *)
(* chain's answers, and which readers there are.                           *)
(***************************************************************************)
EXTENDS TradeRecords

-----------------------------------------------------------------------------
(* What a node computes from the trade registries it holds and stores      *)
(* nowhere: the status of a trade and its redacted form (openfiat-trade,   *)
(* view.rs; openfiat-rpc, redaction.rs), a wallet's counterparties         *)
(* (counterparties.rs), its reputation (openfiat-reputation) and the       *)
(* settled volume (volume.rs).                                             *)

-----------------------------------------------------------------------------
(* Trades                                                                  *)

\* The settlement joined to a reservation: the first by key.
SettlementOf(d, r) ==
    LET of == {s \in DOMAIN d.settlements : d.settlements[s].reservation = r}
    IN  IF of = {} THEN None ELSE Min(of)

\* Trade::status: the settlement decides whenever there is one.
SettlementStatus(s) == IF s.state = "Approved" THEN "Completed" ELSE s.state

ReservationStatus(r) ==
    CASE r.state \in {"EscrowLocked", "Settling"} -> "EscrowLocked"
      [] r.state = "Settled" -> "Completed"
      [] r.state \in {"Cancelled", "Expired"} -> "Cancelled"

TradeStatus(d, r) ==
    IF SettlementOf(d, r) # None THEN SettlementStatus(d.settlements[SettlementOf(d, r)])
    ELSE ReservationStatus(d.reservations[r])

\* TradeView::all, as the records a gated reader sees.
Trades(d) ==
    {[id |-> r, reservation |-> d.reservations[r], settlement |-> SettlementOf(d, r),
      status |-> TradeStatus(d, r)] : r \in DOMAIN d.reservations}

\* What a caller who proved nothing is shown: no party, no key, no reference,
\* no reason, and of a panel only how far it has got.
PublicReservation(r) ==
    [ad |-> r.ad, amount |-> r.amount, price |-> r.price, mid |-> r.mid, state |-> r.state,
     requested_at |-> r.requested_at, updated_at |-> r.updated_at, expires_at |-> r.expires_at]

PublicSettlement(s) ==
    [reservation |-> s.reservation, amount |-> s.amount, state |-> s.state,
     release |-> s.release, payment_submitted_at |-> s.payment_submitted_at,
     merchant_responded_at |-> s.merchant_responded_at, discrepancy |-> s.discrepancy,
     created_at |-> s.created_at, updated_at |-> s.updated_at]

PublicDispute(c) ==
    [settlement |-> c.settlement, status |-> c.status,
     required_arbitrators |-> RequiredArbitrators,
     arbitrators_seated |-> Cardinality(c.arbitrators),
     commitments |-> Cardinality(DOMAIN c.commitments),
     reveals |-> Cardinality(DOMAIN c.reveals),
     resolution |-> c.resolution, execution |-> c.execution,
     opened_at |-> c.opened_at, updated_at |-> c.updated_at]

PublicTrade(d, r) ==
    [reservation |-> PublicReservation(d.reservations[r]), status |-> TradeStatus(d, r),
     settlement |-> IF SettlementOf(d, r) = None THEN None
                    ELSE PublicSettlement(d.settlements[SettlementOf(d, r)])]

-----------------------------------------------------------------------------
(* Counterparties                                                          *)

\* counterparty_of: a trade with oneself is no relationship.
CounterpartyOf(s, wallet) ==
    CASE s.buyer = s.seller -> None
      [] s.buyer = wallet -> s.seller
      [] s.seller = wallet -> s.buyer
      [] OTHER -> None

Traded(s) == s.state \in {"Approved", "Completed"}

\* Mutant: a frozen trade is in no bucket.
InProgressUnfrozen(s) == s.state \in {"AwaitingPayment", "PaymentSubmitted"}

InProgress(s) == s.state \in {"AwaitingPayment", "PaymentSubmitted", "Disputed"}

Abandoned(s) == s.state \in {"Rejected", "Cancelled"}

\* Mutant: a trade is dated by the node's last touch of its record.
ConcludedAtUpdate(s) == s.updated_at

ConcludedAt(s) ==
    IF s.merchant_responded_at # None THEN s.merchant_responded_at ELSE s.updated_at

\* pair: the settlements of the two, by id.
Pair(d, wallet, other) ==
    LET ours == {i \in DOMAIN d.settlements :
                    wallet # other /\ CounterpartyOf(d.settlements[i], wallet) = other}
        traded == {i \in ours : Traded(d.settlements[i])}
    IN  [trades |-> Cardinality(traded),
         in_progress |-> Cardinality({i \in ours : InProgress(d.settlements[i])}),
         abandoned |-> Cardinality({i \in ours : Abandoned(d.settlements[i])}),
         disputed |-> Cardinality({i \in ours : d.settlements[i].disputed_at # None}),
         last_traded_at |-> IF traded = {} THEN None
                            ELSE Max({ConcludedAt(d.settlements[i]) : i \in traded})]

Counterparties(d, wallet) ==
    {CounterpartyOf(s, wallet) : s \in Records(d.settlements)} \ {None}

\* for_wallet: one summary per counterparty; the order is for display.
ForWallet(d, wallet) == [w \in Counterparties(d, wallet) |-> Pair(d, wallet, w)]

-----------------------------------------------------------------------------
(* Reputation                                                              *)

\* ReputationView::profile.  A payment's answer is the merchant's record, its
\* accuracy the payer's.
AccuracyFault(s) == s.discrepancy \notin {None, "Other"}

Profile(d, wallet) ==
    LET mine == {i \in DOMAIN d.settlements :
                    wallet \in {d.settlements[i].buyer, d.settlements[i].seller}}
        s(i) == d.settlements[i]
        done == {i \in mine : Traded(s(i))}
        put == {i \in mine : s(i).seller = wallet /\ s(i).payment_submitted_at # None}
        answered == {i \in put : s(i).merchant_responded_at # None}
        paid == {i \in mine : s(i).buyer = wallet}
        cases == {c \in DOMAIN d.disputes :
                    wallet \in {d.disputes[c].buyer, d.disputes[c].seller}}
    IN  [trades_started |-> Cardinality(mine),
         trades_completed |-> Cardinality(done),
         trades_cancelled |-> Cardinality({i \in mine : Abandoned(s(i))}),
         responses_due |-> Cardinality(put),
         responses_made |-> Cardinality(answered),
         response_latency |-> MapThenSumSet(LAMBDA i :
             SaturatingSub(s(i).merchant_responded_at, s(i).payment_submitted_at), answered),
         payments_submitted |-> Cardinality({i \in paid : s(i).payment_submitted_at # None}),
         discrepancies |-> Cardinality({i \in paid : AccuracyFault(s(i))}),
         volume |-> MapThenSumSet(LAMBDA i : s(i).amount, done),
         completed_duration |-> MapThenSumSet(LAMBDA i :
             SaturatingSub(s(i).updated_at, s(i).created_at), done),
         first_active_at |-> IF mine = {} THEN None ELSE Min({s(i).created_at : i \in mine}),
         disputes_involved |-> Cardinality(cases),
         disputes_lost |-> Cardinality({c \in cases :
             \/ d.disputes[c].resolution = "BuyerWins" /\ d.disputes[c].seller = wallet
             \/ d.disputes[c].resolution = "MerchantWins" /\ d.disputes[c].buyer = wallet}),
         reservations_missed |-> Cardinality({r \in DOMAIN d.reservations :
             d.reservations[r].requester = wallet /\ d.reservations[r].state = "Expired"})]

-----------------------------------------------------------------------------
(* Settled volume                                                          *)

\* asset_of: by the reservation and its advertisement, if the node has both.
AssetOf(d, s) ==
    IF s.reservation \in DOMAIN d.reservations
       /\ d.reservations[s.reservation].ad \in DOMAIN d.ads
    THEN d.ads[d.reservations[s.reservation].ad].mint ELSE None

\* getSettledVolume: only what a confirmed release moved.
SettledVolume(d) ==
    LET released == {i \in DOMAIN d.settlements : d.settlements[i].release # None}
        of(mint) == {i \in released : AssetOf(d, d.settlements[i]) = mint}
        mints == {AssetOf(d, d.settlements[i]) : i \in released} \ {None}
    IN  [assets |-> [m \in mints |->
            [base_units |-> MapThenSumSet(LAMBDA i : d.settlements[i].amount, of(m)),
             settlements |-> Cardinality(of(m))]],
         unattributed |-> Cardinality(of(None)),
         settlements_known |-> Cardinality(DOMAIN d.settlements)]

-----------------------------------------------------------------------------
CONSTANTS Nodes, Wallets,
          Symbols,           \* symbol_for_mint
          ChallengeTtl,      \* CHALLENGE_TTL_SECS
          MaxOutstanding     \* ChallengeLedger::MAX_OUTSTANDING

-----------------------------------------------------------------------------
(* Proving control of a key without a login: the ledger of single-use,     *)
(* expiring challenges (openfiat-crypto, challenge.rs) and the earnings    *)
(* statements it guards (openfiat-registry, earnings.rs).                  *)
(*                                                                         *)
(* `outstanding' is keyed by nonce.  A nonce is fresh random bytes, so     *)
(* issuing takes any nonce never used before.                              *)

\* The challenges a prune drops to make room once expired ones are gone:
\* any set of the required size that expires no later than what stays.  The
\* order among equal expiries is the hash map's.
OldestExpiring(out, excess) ==
    {S \in SUBSET DOMAIN out :
        /\ Cardinality(S) = excess
        /\ \A s \in S, t \in DOMAIN out \ S : out[s].expires_at <= out[t].expires_at}

\* prune: expired entries go, then the ceiling is enforced.
Pruned(out, now) ==
    LET live == Without(out, {n \in DOMAIN out : out[n].expires_at < now})
        held == Cardinality(DOMAIN live)
    IN  IF held < MaxOutstanding THEN {live}
        ELSE {Without(live, S) : S \in OldestExpiring(live, held + 1 - MaxOutstanding)}

\* issue: the ledgers it may leave behind.
Issued(out, subject, nonce, now) ==
    {Put(p, nonce, [subject |-> subject, expires_at |-> now + ChallengeTtl]) :
        p \in Pruned(out, now)}

\* consume: the nonce is spent whatever the answer.
Consumed(out, nonce) == Without(out, {nonce})

\* consume's answer: the nonce is outstanding, for this subject, unexpired.
ConsumeSucceeds(out, subject, nonce, now) ==
    /\ nonce \in DOMAIN out
    /\ out[nonce].subject = subject
    /\ out[nonce].expires_at >= now

-----------------------------------------------------------------------------
VARIABLES desk,        \* desk[n]: the trade registries of n
          heard,       \* heard[n]: the events in n's log
          now,
          mids,        \* mids[n]: what n's oracle registry answers per symbol
          shown,       \* shown[t]: the quote taker t read, and its terms
          paging,      \* the paging client
          ledger,      \* ledger[n]: outstanding challenges, of wallets and of services
          issuedTo,    \* nonce -> the wallet or service it was handed to (history)
          answers,     \* the reads answered (history)
          scene

deskVars == <<desk, heard, now, mids, shown, paging, ledger, issuedTo, answers, scene>>

NotPaging == [on |-> FALSE, after |-> None, seen |-> <<>>, must |-> {}, done |-> FALSE]

DeskInit(scenes) ==
    /\ scene \in scenes
    /\ desk = [n \in Nodes |-> scene.desk]
    /\ heard = [n \in Nodes |-> {}]
    /\ now = 0
    /\ mids = [n \in Nodes |-> scene.mids[1]]
    /\ shown = [t \in scene.takers |-> None]
    /\ paging = NotPaging
    /\ ledger = [n \in Nodes |-> [wallets |-> EmptyStore, earnings |-> EmptyStore]]
    /\ issuedTo = EmptyStore
    /\ answers = {}

\* A node's registries change; a row of the book that stopped matching what
\* the paging client asks for is no longer one it must be shown.
Matching(d) == {i \in DOMAIN d.ads : Matches(scene.filter, d.ads[i])}

Becomes(n, d) ==
    /\ desk' = [desk EXCEPT ![n] = d]
    /\ paging' = IF n = scene.pages_from
                 THEN [paging EXCEPT !.must = @ \cap Matching(d)] ELSE paging

-----------------------------------------------------------------------------
(* Events                                                                  *)

Sent == UNION {heard[n] : n \in Nodes}

\* The send methods: applied here first, and an error is the answer; then
\* originated, which hands it to this node's own handlers as well.
Send(n, e) ==
    /\ e \notin Sent /\ e.timestamp <= now
    /\ Accepts(desk[n], e, now)
    /\ Becomes(n, EventApplied(Effect(desk[n], e, now), e, now))
    /\ heard' = [heard EXCEPT ![n] = @ \cup {e}]
    /\ UNCHANGED <<now, mids, shown, ledger, issuedTo, answers, scene>>

SendAdvertisement(n, e) ==
    /\ e.kind \in {"AdvertisementCreated", "AdvertisementStatusSet",
                   "AdvertisementTermsUpdated", "AdvertisementPricingUpdated"}
    /\ Send(n, e)

SendReservation(n, e) ==
    e.kind \in {"ReservationRequested", "ReservationCancelled"} /\ Send(n, e)

SendPayment(n, e) ==
    e.kind \in {"SettlementInitiated", "PaymentSubmitted", "PaymentReversed"} /\ Send(n, e)

SendDecision(n, e) ==
    /\ e.kind \in {"SettlementApproved", "SettlementRejected", "SettlementCancelled"}
    /\ Send(n, e)

SendDispute(n, e) ==
    e.kind \in {"DisputeOpened", "ArbitratorJoined", "VoteCommitted", "VoteRevealed"} /\ Send(n, e)

\* agree_to_mutual_settlement has no method: the service originates it, and
\* the registry judges it like a peer's.
Originate(n, e) ==
    /\ e \notin Sent /\ e.timestamp <= now
    /\ Becomes(n, EventApplied(desk[n], e, now))
    /\ heard' = [heard EXCEPT ![n] = @ \cup {e}]
    /\ UNCHANGED <<now, mids, shown, ledger, issuedTo, answers, scene>>

\* Gossip hands the event over once, and a refusal is dropped.
Hear(n, e) ==
    /\ e \in Sent \ heard[n]
    /\ heard' = [heard EXCEPT ![n] = @ \cup {e}]
    /\ Becomes(n, EventApplied(desk[n], e, now))
    /\ UNCHANGED <<now, mids, shown, ledger, issuedTo, answers, scene>>

\* expire_stale, on the node's tick.
Sweep(n) ==
    /\ Lapsed(desk[n], now) # {}
    /\ Becomes(n, StaleExpired(desk[n], now))
    /\ UNCHANGED <<heard, now, mids, shown, ledger, issuedTo, answers, scene>>

\* poll_chain finds the transaction of a settlement, or of a case, confirmed.
ObserveRelease(n, s) ==
    /\ s \in scene.released /\ CanRelease(desk[n], s)
    /\ Becomes(n, EscrowReleasedApplied(desk[n], s, "release", now))
    /\ UNCHANGED <<heard, now, mids, shown, ledger, issuedTo, answers, scene>>

\* An execution may have re-opened the round, or be one whose account the node
\* cannot fetch; there is nothing to see twice.
ObserveExecution(n, c, account) ==
    LET outcome == ReadDisputeOutcome(account)
    IN  /\ c \in DOMAIN scene.executed /\ CanExecute(desk[n], c)
        /\ outcome # None \/ desk[n].disputes[c].execution = None
        /\ Becomes(n, ExecutionApplied(desk[n], c, "execution", outcome, now))
        /\ UNCHANGED <<heard, now, mids, shown, ledger, issuedTo, answers, scene>>

Tick ==
    /\ now < scene.last
    /\ now' = now + 1
    /\ UNCHANGED <<desk, heard, mids, shown, paging, ledger, issuedTo, answers, scene>>

\* An oracle record arrives, expires, or is replaced (OracleIndex has the records): the
\* median that a node computes from them moves.
RateMoves(n, mid) ==
    /\ mid \in Range(scene.mids) \ {mids[n]}
    /\ mids' = [mids EXCEPT ![n] = mid]
    /\ UNCHANGED <<desk, heard, now, shown, paging, ledger, issuedTo, answers, scene>>

-----------------------------------------------------------------------------
(* A taker                                                                 *)

\* getAdvertisement: the price now, and the rate behind it.
ReadQuote(n, t) ==
    LET ad == desk[n].ads[t.ad]
        quote == Resolve(ad, Symbols, mids[n])
    IN  /\ shown[t] = None /\ t.ad \in DOMAIN desk[n].ads
        /\ quote.price # None
        /\ shown' = [shown EXCEPT ![t] =
             [price |-> quote.price, pricing |-> ad.pricing,
              mid |-> IF quote.kind = "Floating" THEN quote.mid_rate ELSE None]]
        /\ UNCHANGED <<desk, heard, now, mids, paging, ledger, issuedTo, answers, scene>>

\* sendReservationRequest with the price that was shown, perhaps long ago and
\* perhaps by another node.
Request(n, t) ==
    /\ shown[t] # None
    /\ SendReservation(n, [kind |-> "ReservationRequested", wallet |-> t.wallet, signer |-> t.wallet,
            id |-> t.id, timestamp |-> now, ad |-> t.ad, amount |-> t.amount,
            price |-> shown[t].price, mid |-> shown[t].mid])

-----------------------------------------------------------------------------
(* A client paging through the book                                        *)

\* getAdvertisements, from the start and then from the cursor of the last
\* page, until a page says there is nothing after it.
ReadPage(n) ==
    LET page == PageOf(desk[n].ads, scene.filter, paging.after, scene.limit)
    IN  /\ n = scene.pages_from /\ ~paging.done
        /\ paging' = [on |-> TRUE, after |-> page.next_cursor, seen |-> paging.seen \o page.ids,
                      must |-> IF paging.on THEN paging.must ELSE Matching(desk[n]),
                      done |-> page.next_cursor = None]
        /\ UNCHANGED <<desk, heard, now, mids, shown, ledger, issuedTo, answers, scene>>

-----------------------------------------------------------------------------
(* Reading one's own records                                               *)

\* The parties each record names.
PartiesOfReservation(r) == {r.requester}
PartiesOfSettlement(s) == {s.buyer, s.seller}
PartiesOfDispute(c) == {c.buyer, c.seller} \cup c.arbitrators

\* What each gated surface answers for a wallet: the wallets named by every
\* record it contains.  getMyTrades joins a reservation with its settlement.
MySettlements(d, w) ==
    {PartiesOfSettlement(s) : s \in {x \in Records(d.settlements) : w \in PartiesOfSettlement(x)}}
MyReservations(d, w) ==
    {PartiesOfReservation(r) : r \in {x \in Records(d.reservations) : x.requester = w}}
MyDisputes(d, w) ==
    {PartiesOfDispute(c) : c \in {x \in Records(d.disputes) : w \in PartiesOfDispute(x)}}
MyTrades(d, w) ==
    LET named(t) == PartiesOfReservation(t.reservation)
                      \cup IF t.settlement = None THEN {}
                           ELSE PartiesOfSettlement(d.settlements[t.settlement])
    IN  {named(t) : t \in {x \in Trades(d) : w \in named(x)}}
MyCounterparties(d, w) == {{w, x} : x \in DOMAIN ForWallet(d, w)}

Gated(surface, d, w) ==
    CASE surface = "getMySettlements" -> MySettlements(d, w)
      [] surface = "getMyReservations" -> MyReservations(d, w)
      [] surface = "getMyDisputes" -> MyDisputes(d, w)
      [] surface = "getMyTrades" -> MyTrades(d, w)
      [] surface = "getCounterparties" -> MyCounterparties(d, w)

\* getWalletChallenge, getCounterpartiesChallenge: for anyone who asks.
IssueChallenge(n, w, nonce) ==
    /\ nonce \in scene.nonces \ DOMAIN issuedTo
    /\ \E l \in Issued(ledger[n].wallets, w, nonce, now) : ledger' = [ledger EXCEPT ![n].wallets = l]
    /\ issuedTo' = Put(issuedTo, nonce, w)
    /\ UNCHANGED <<desk, heard, now, mids, shown, paging, answers, scene>>

\* getProviderEarningsChallenge: for anyone who names a service on file.
IssueEarningsChallenge(n, service, nonce) ==
    /\ service \in DOMAIN scene.services
    /\ nonce \in scene.nonces \ DOMAIN issuedTo
    /\ \E l \in Issued(ledger[n].earnings, service, nonce, now) :
           ledger' = [ledger EXCEPT ![n].earnings = l]
    /\ issuedTo' = Put(issuedTo, nonce, service)
    /\ UNCHANGED <<desk, heard, now, mids, shown, paging, answers, scene>>

\* Mutant: the signature does not say which surface it was made for.
SignatureAnywhere(proof, surface, key) == proof.signer = key

\* The signature of a proof, over the challenge and the surface's domain.
SignatureVerifies(proof, surface, key) == proof.signer = key /\ proof.domain = surface

Answered(n, surface, proof, named) ==
    answers' = answers \cup
        {[node |-> n, surface |-> surface, proof |-> proof, at |-> now, named |-> named]}

\* verify_wallet, then the read: a key that is not the wallet's is refused
\* before the nonce is touched, and the nonce is spent before the signature
\* is looked at.
Present(n, surface, proof) ==
    /\ surface \in scene.surfaces \ {"getProviderEarnings"}
    /\ proof.nonce \in DOMAIN ledger[n].wallets /\ proof.key = proof.subject
    /\ ledger' = [ledger EXCEPT ![n].wallets = Consumed(@, proof.nonce)]
    /\ IF /\ ConsumeSucceeds(ledger[n].wallets, proof.subject, proof.nonce, now)
          /\ SignatureVerifies(proof, surface, proof.subject)
       THEN Answered(n, surface, proof, Gated(surface, desk[n], proof.subject))
       ELSE UNCHANGED answers
    /\ UNCHANGED <<desk, heard, now, mids, shown, paging, issuedTo, scene>>

\* statement: where the service is paid.  Nothing credits the ledger yet, so
\* there are no entries.
Statement(service) == {{service, scene.services[service].payout}}

\* getProviderEarnings: judged by the key the registry holds for the service.
PresentEarnings(n, proof) ==
    /\ "getProviderEarnings" \in scene.surfaces /\ proof.subject \in DOMAIN scene.services
    /\ proof.nonce \in DOMAIN ledger[n].earnings
    /\ ledger' = [ledger EXCEPT ![n].earnings = Consumed(@, proof.nonce)]
    /\ IF /\ ConsumeSucceeds(ledger[n].earnings, proof.subject, proof.nonce, now)
          /\ SignatureVerifies(proof, "getProviderEarnings", scene.services[proof.subject].key)
       THEN Answered(n, "getProviderEarnings", proof, Statement(proof.subject))
       ELSE UNCHANGED answers
    /\ UNCHANGED <<desk, heard, now, mids, shown, paging, issuedTo, scene>>

Proofs ==
    [subject : scene.readers \cup DOMAIN scene.services, key : scene.readers,
     signer : scene.readers, nonce : scene.nonces, domain : scene.surfaces]

-----------------------------------------------------------------------------
SendAny ==
    \E <<n, e>> \in scene.sends :
        \/ SendAdvertisement(n, e) \/ SendReservation(n, e)
        \/ SendPayment(n, e) \/ SendDecision(n, e) \/ SendDispute(n, e)
OriginateAny == \E <<n, e>> \in scene.originates : Originate(n, e)
HearAny == \E n \in Nodes : \E e \in Sent : Hear(n, e)
SweepAny == \E n \in Nodes : Sweep(n)
ObserveAny ==
    \E n \in Nodes :
        \/ \E s \in scene.released : ObserveRelease(n, s)
        \/ \E c \in DOMAIN scene.executed :
             \E account \in scene.executed[c] \cup {None} : ObserveExecution(n, c, account)
ReadAny ==
    \E n \in Nodes :
        \/ \E mid \in Range(scene.mids) : RateMoves(n, mid)
        \/ \E t \in scene.takers : ReadQuote(n, t) \/ Request(n, t)
        \/ ReadPage(n)
ProveAny ==
    \E n \in Nodes :
        \/ \E w \in scene.readers, nonce \in scene.nonces : IssueChallenge(n, w, nonce)
        \/ \E service \in DOMAIN scene.services, nonce \in scene.nonces :
               IssueEarningsChallenge(n, service, nonce)
        \/ \E proof \in Proofs :
               PresentEarnings(n, proof) \/ \E surface \in scene.surfaces : Present(n, surface, proof)

DeskNext ==
    \/ SendAny \/ OriginateAny \/ HearAny \/ SweepAny \/ ObserveAny
    \/ ReadAny \/ ProveAny \/ Tick

-----------------------------------------------------------------------------
(* Properties                                                              *)

\* "Recomputed through the same path `quote` uses, so the check and the
\* display can never disagree": a price some node showed for the terms of an
\* advertisement is accepted by every node that holds those terms, however
\* the rate has moved since.
ShownPriceBinds ==
    \A t \in scene.takers, n \in Nodes :
        (shown[t] # None /\ t.ad \in DOMAIN desk[n].ads
            /\ desk[n].ads[t.ad].pricing = shown[t].pricing)
        => AgreesWith(desk[n].ads[t.ad].pricing, shown[t].price, shown[t].mid)

\* A client that pages to the end of the book is shown every advertisement
\* that matched all along, and none twice, whatever is published, changed or
\* deleted between two pages.
PagesMissNothing ==
    /\ \A i, j \in DOMAIN paging.seen : i < j => paging.seen[i] < paging.seen[j]
    /\ paging.done => paging.must \subseteq Range(paging.seen)

\* The wallets a record shows.
Names(record) == {w \in Wallets : \E f \in DOMAIN record : record[f] = w}

\* The key that speaks for the subject of a challenge.
KeyOf(subject) ==
    IF subject \in DOMAIN scene.services THEN scene.services[subject].key ELSE subject

\* A read that names a wallet was answered to a party of what it names, who
\* signed a nonce handed to that wallet, or to its service, for that surface,
\* before it lapsed and for this answer alone; what anyone may read names
\* nobody.
AnswersAreProven ==
    /\ \A a \in answers :
         /\ issuedTo[a.proof.nonce] = a.proof.subject
         /\ a.proof.signer = KeyOf(a.proof.subject) /\ a.proof.domain = a.surface
         /\ \A ws \in a.named : a.proof.subject \in ws
         /\ \A b \in answers : b.proof.nonce = a.proof.nonce => b = a
    /\ \A n \in Nodes :
         /\ \A s \in Records(desk[n].settlements) : Names(PublicSettlement(s)) = {}
         /\ \A c \in Records(desk[n].disputes) : Names(PublicDispute(c)) = {}
         /\ \A r \in DOMAIN desk[n].reservations :
              LET t == PublicTrade(desk[n], r) IN Names(t) \cup Names(t.reservation) = {}

\* What a node has on record about a trade was signed: its parties and the
\* seller's key by the buyer who started it, a payment by the same buyer, an
\* answer by that key, a vote by the arbitrator who had committed to it, an
\* outcome by the chain.  Whose key the buyer stated is not checked.
HeardFrom(n, wallet, kinds, id) ==
    {e \in heard[n] : e.kind \in kinds /\ e.id = id /\ e.signer = wallet}

RecordsAreSigned ==
    \A n \in Nodes :
        /\ \A i \in DOMAIN desk[n].settlements \ DOMAIN scene.desk.settlements :
             LET s == desk[n].settlements[i] IN
             /\ \E e \in HeardFrom(n, s.buyer, {"SettlementInitiated"}, i) :
                    e.seller = s.seller /\ e.seller_key = s.seller_key /\ e.amount = s.amount
             /\ s.payment_submitted_at # None =>
                  \E e \in HeardFrom(n, s.buyer, {"PaymentSubmitted"}, i) :
                      e.timestamp = s.payment_submitted_at
             /\ s.merchant_responded_at # None =>
                  \E e \in HeardFrom(n, s.seller_key,
                                   {"SettlementApproved", "SettlementRejected"}, i) :
                      e.wallet = s.seller /\ e.timestamp = s.merchant_responded_at
        /\ \A c \in DOMAIN desk[n].disputes :
             LET case == desk[n].disputes[c] IN
             /\ \A a \in DOMAIN case.reveals :
                  \E e \in HeardFrom(n, a, {"VoteCommitted"}, c) :
                      e.commitment[1] = case.reveals[a]
             /\ case.resolution # None =>
                  \E account \in scene.executed[c] :
                      account.owner = "escrow" /\ account.outcome = case.resolution

\* A node that reads the account of a case the chain has ruled on shows the
\* case resolved, and by that ruling.
RulingsClose ==
    \A n \in Nodes, c \in DOMAIN scene.executed : \A account \in scene.executed[c] :
        /\ ObserveExecution(n, c, account) /\ account.owner = "escrow"
        /\ account.outcome \in {"BuyerWins", "MerchantWins", "Invalid"}
        => /\ desk'[n].disputes[c].status = "Resolved"
           /\ desk'[n].disputes[c].resolution = account.outcome

\* The views a wallet is judged by are three readings of one history, and
\* agree: its counterparties' buckets and its trades with itself, which are
\* with no counterparty, add up to its profile; both sides of a pair see the
\* same; and no completed trade is missing from the volume.
ViewsAgree ==
    /\ \A n \in Nodes :
         LET v == SettledVolume(desk[n])
         IN  MapThenSumSet(LAMBDA a : v.assets[a].settlements, DOMAIN v.assets) + v.unattributed
               >= Cardinality({i \in DOMAIN desk[n].settlements :
                                 desk[n].settlements[i].state = "Completed"})
    /\ \A n \in Nodes, w \in Wallets :
        LET pairs == ForWallet(desk[n], w)
            total(f) == MapThenSumSet(LAMBDA x : pairs[x][f], DOMAIN pairs)
            own(Is(_)) == Cardinality({i \in DOMAIN desk[n].settlements :
                LET s == desk[n].settlements[i] IN s.buyer = w /\ s.seller = w /\ Is(s)})
            p == Profile(desk[n], w)
        IN  /\ total("trades") + own(Traded) = p.trades_completed
            /\ total("abandoned") + own(Abandoned) = p.trades_cancelled
            /\ total("in_progress") + own(InProgress)
                 = p.trades_started - p.trades_completed - p.trades_cancelled
            /\ total("disputed") <= p.disputes_involved
            /\ \A x \in DOMAIN pairs : pairs[x] = Pair(desk[n], x, w)

\* "Counting `Completed` alone would make the answer depend on which node you
\* happened to ask": a node that sees a release on chain changes no count of
\* any wallet's record, nor when it last traded.
Counted(d, w) ==
    LET p == Profile(d, w)
    IN  <<p.trades_completed, p.trades_cancelled, p.volume, p.response_latency,
          ForWallet(d, w)>>

CountsIgnoreObservation ==
    \A n \in Nodes, s \in scene.released :
        ObserveRelease(n, s) => \A w \in Wallets : Counted(desk'[n], w) = Counted(desk[n], w)

-----------------------------------------------------------------------------
(* What a comment of openfiat-disputes says                                *)

\* "A node that refused to record that would go on showing a live case that has
\* already paid out": a node that reads the account of a case the chain has
\* closed shows the case resolved.
ExecutionClosesCase ==
    [][\A n \in Nodes, c \in DOMAIN scene.executed : \A account \in scene.executed[c] :
         ObserveExecution(n, c, account) /\ account.owner = "escrow" /\ account.resolved
         => desk'[n].disputes[c].status = "Resolved"]_deskVars

=============================================================================
