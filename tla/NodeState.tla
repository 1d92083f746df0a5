----------------------------- MODULE NodeState ------------------------------
(***************************************************************************)
(* The replicated registries of a set of nodes (openfiat-rpc, state.rs and *)
(* the ticks of actor.rs that touch them), composed over the event log the *)
(* gossip layer implements.  Every node applies the events it hears, in    *)
(* the order it hears them, to its own column families; a client submits a *)
(* signed payload to a node it picks.                                      *)
(*                                                                         *)
(* An event of the log is a pair <<payload, origin>>: a client that        *)
(* submits the same payload to two nodes makes two events of it.           *)
(***************************************************************************)
EXTENDS EventLog, Payloads, Integers, Sequences, SequencesExt

CONSTANTS
    Body,                    \* Body[p]: the payload named p
    Scenes,                  \* the situations tried: which events may happen,
                             \* which nodes reach Solana, which kinds they may
                             \* originate, the chain they start from, and the
                             \* last tick of the clock
    MaxAttempts,             \* VOTE_VERIFICATION_MAX_ATTEMPTS
    RateScale,               \* the unit of an oracle rate
    SettlementDecimals,      \* mints::priced(mint).decimals
    MaxClaimsPerWallet, ClaimRetention, OracleGrace, RiskGrace, HealthThreshold,
    SessionGrace, MillisPerDay, MaxMethodsPerMerchant, Catalog, PaddingBlock,
    MaxEntryPlaintext, MaxEntryCiphertext, VotingPeriod, MaxQuoteValidity,
    MaxClockSkew, MaxAmount, F64Error(_, _)

VARIABLES node,              \* node[n]: the column families and queues of n
          chain,             \* what a Solana RPC endpoint would answer
          staked,            \* every <<owner, amount>> the chain has shown (history)
          quotes,            \* fee quotes handed to payers (history)
          scene, now

stateVars == <<issued, log, handed, node, chain, staked, quotes, scene, now>>

Identity == INSTANCE IdentityIndex
Services == INSTANCE ServiceRegistry
Oracles  == INSTANCE OracleIndex
Risk     == INSTANCE RiskIndex
Sessions == INSTANCE SessionIndex
Reviews  == INSTANCE ReviewIndex
Methods  == INSTANCE PaymentMethods
Channels == INSTANCE TradeChannels
Gov      == INSTANCE ProposalIndex
Notes    == INSTANCE Notifications

\* NodeState::new: every registry over one store, and the two queues.
NewNode ==
    [identity |-> EmptyStore, services |-> EmptyStore, oracles |-> EmptyStore, risk |-> EmptyStore,
     sessions |-> EmptyStore, reviews |-> EmptyStore, methods |-> EmptyStore,
     channels |-> Channels!NoChannels, governance |-> EmptyStore,
     notes |-> Notes!NoNotifications, settlements |-> EmptyStore, disputes |-> EmptyStore,
     votes |-> <<>>, outbox |-> <<>>]

\* ServicePricing: a fee in some token, or no fee declared.
Pricing == {None} \cup [mint : STRING, amount : [units : Nat, decimals : Nat]]

StateInit ==
    /\ LogInit
    /\ scene \in Scenes
    /\ node = [n \in Nodes |-> NewNode]
    /\ chain = scene.chain
    /\ staked = {<<chain.stake[a].owner, chain.stake[a].amount>> : a \in DOMAIN chain.stake}
    /\ quotes = {}
    /\ now = 0

-----------------------------------------------------------------------------
(* The trade records the other registries read.  Their own life is         *)
(* modelled in TradePipeline; here a settlement appears, is paid and is    *)
(* approved, and a dispute is opened and joined.                           *)

CanTrade(st, e) ==
    CASE e.kind = "SettlementInitiated" -> e.id \notin DOMAIN st.settlements
      [] e.kind = "PaymentSubmitted" ->
            e.id \in DOMAIN st.settlements /\ st.settlements[e.id].state = "AwaitingPayment"
      [] e.kind = "SettlementApproved" ->
            e.id \in DOMAIN st.settlements /\ st.settlements[e.id].state = "PaymentSubmitted"
      [] e.kind = "DisputeOpened" ->
            e.settlement \in DOMAIN st.settlements /\ e.id \notin DOMAIN st.disputes
      [] e.kind = "ArbitratorJoined" -> e.id \in DOMAIN st.disputes

TradeApplied(st, e) ==
    CASE e.kind = "SettlementInitiated" ->
            [st EXCEPT !.settlements = Put(@, e.id,
                [buyer |-> e.buyer, seller |-> e.seller, state |-> "AwaitingPayment"])]
      [] e.kind = "PaymentSubmitted" ->
            [st EXCEPT !.settlements[e.id].state = "PaymentSubmitted"]
      [] e.kind = "SettlementApproved" ->
            [st EXCEPT !.settlements[e.id].state = "Approved"]
      [] e.kind = "DisputeOpened" ->
            [st EXCEPT !.disputes = Put(@, e.id,
                [settlement_id |-> e.settlement, arbitrators |-> {}])]
      [] e.kind = "ArbitratorJoined" ->
            [st EXCEPT !.disputes[e.id].arbitrators = @ \cup {e.wallet}]

-----------------------------------------------------------------------------
(* One event at one node.                                                  *)

IdentityKinds == {"ClaimCreated", "ClaimVerified", "ClaimRevoked"}
ServiceKinds  == {"ServiceRegistered", "ServiceUpdated", "ServiceUnregistered"}
RiskKinds     == {"WalletFlagged", "WalletCleared"}
SessionKinds  == {"SessionEstablished", "SessionRenewed", "SessionRevoked",
                  "SessionMigrated"}
ChannelKinds  == {"KeyGranted", "EntryPosted"}
GovKinds      == {"ProposalCreated", "ProposalWithdrawn", "ProposalActivated"}
NoteKinds     == {"SubscriptionUpdated", "DeliveryReport"}
TradeKinds    == {"SettlementInitiated", "PaymentSubmitted", "SettlementApproved",
                  "DisputeOpened", "ArbitratorJoined"}

\* Mutant: a vote is counted at the weight it claims.
VoteQueuedTrusting(st, p) == [st EXCEPT !.governance = Gov!Apply(@, Body[p])]

\* A vote waits for its stake account to be read.
VoteQueued(st, p) == [st EXCEPT !.votes = Append(@, [payload |-> p, attempts |-> 0])]

\* apply_event of the registry the event belongs to; every other handler
\* ignores it.
Applied(st, p) ==
    LET e == Body[p] IN
    CASE e.kind \in IdentityKinds ->
            [st EXCEPT !.identity = Identity!Apply(@, e, now)]
      [] e.kind \in ServiceKinds -> [st EXCEPT !.services = Services!Apply(@, e)]
      [] e.kind = "OraclePublished" ->
            [st EXCEPT !.oracles = Oracles!Apply(@, st.services, e)]
      [] e.kind \in RiskKinds -> [st EXCEPT !.risk = Risk!Apply(@, st.services, e)]
      [] e.kind \in SessionKinds -> [st EXCEPT !.sessions = Sessions!Apply(@, e)]
      [] e.kind = "ReviewPublished" -> [st EXCEPT !.reviews = Reviews!Apply(@, e)]
      [] e.kind = "MethodDefined" -> [st EXCEPT !.methods = Methods!Apply(@, e)]
      [] e.kind \in ChannelKinds ->
            [st EXCEPT !.channels = Channels!Apply(@, st.settlements, st.disputes, e)]
      [] e.kind \in GovKinds -> [st EXCEPT !.governance = Gov!Apply(@, e)]
      [] e.kind = "VoteCast" -> VoteQueued(st, p)
      [] e.kind \in NoteKinds -> [st EXCEPT !.notes = Notes!Apply(@, st.services, e)]
      [] e.kind \in TradeKinds -> IF CanTrade(st, e) THEN TradeApplied(st, e) ELSE st

\* NotificationDispatcher::observe: whom an event is about, read from the
\* state the handlers before it wrote.
Observed(st, e) ==
    LET party(f) == IF e.id \in DOMAIN st.settlements THEN <<st.settlements[e.id][f]>>
                    ELSE <<>>
        Of(trigger, recipients) == [trigger |-> trigger, recipients |-> recipients]
    IN  CASE e.kind = "PaymentSubmitted" -> Of("PaymentSubmitted", party("seller"))
          [] e.kind = "SettlementApproved" ->
                Of("SettlementApproved", party("buyer") \o party("seller"))
          [] e.kind = "DisputeOpened" /\ e.id \in DOMAIN st.disputes ->
                LET s == st.settlements[st.disputes[e.id].settlement_id]
                IN  Of("EvidenceRequested", <<s.buyer, s.seller>>)
          [] e.kind = "ProposalCreated" ->
                Of("ProposalPublished",
                   Notes!BroadcastRecipients(st.notes, "ProposalPublished"))
          [] e.kind = "ProposalActivated" ->
                Of("ProposalActivated",
                   Notes!BroadcastRecipients(st.notes, "ProposalActivated"))
          [] OTHER -> Of(None, <<>>)

\* notify: every planned delivery is recorded and queued for a gateway.
Notify(st, event, e) ==
    LET o == Observed(st, e)
        planned == Notes!PlanAll(st.notes, st.services, o.trigger, event, o.recipients)
    IN  IF o.recipients = <<>> THEN st
        ELSE [st EXCEPT !.notes = Notes!Notified(@, planned),
                        !.outbox = @ \o planned]

\* Every handler in the order it was attached, the dispatcher last.
Handled(st, event) == Notify(Applied(st, event[1]), event, Body[event[1]])


-----------------------------------------------------------------------------
(* Actions.                                                                *)

\* is_authorized: the one kind here that a node needs a role to originate.
RequiredRole(kind) == IF kind = "WalletFlagged" THEN {"RiskIntelligenceProvider"} ELSE {}

\* A sendX method: the registry decides first, and only what it accepts is
\* originated.  A node without the role keeps the write to itself.
Submit(n, p, accepted) ==
    LET direct == Applied(node[n], p)
        permitted == RequiredRole(Body[p].kind) \subseteq scene.roles[n]
    IN  /\ <<p, n>> \in scene.events \ issued
        /\ Body[p].timestamp <= now
        /\ accepted
        /\ \/ /\ permitted
              /\ LogOriginate(n, <<p, n>>)
              /\ node' = [node EXCEPT ![n] = Handled(direct, <<p, n>>)]
           \/ /\ ~permitted
              /\ node' = [node EXCEPT ![n] = direct]
              /\ UNCHANGED logVars
        /\ UNCHANGED <<chain, staked, quotes, scene, now>>

\* sendClaimPublish; the other two claim events have no method.
SendClaim(n, p) ==
    /\ Body[p].kind = "ClaimCreated"
    /\ Submit(n, p, Identity!CanPublish(node[n].identity, Body[p], now))

\* sendProviderRegister, sendProviderHealthUpdate, sendProviderWithdraw
SendProvider(n, p) ==
    /\ Body[p].kind \in ServiceKinds
    /\ Submit(n, p, Services!CanApply(node[n].services, Body[p]))

\* sendOraclePublish
SendOracle(n, p) ==
    /\ Body[p].kind = "OraclePublished"
    /\ Submit(n, p, Oracles!CanPublish(node[n].oracles, node[n].services, Body[p]))

\* sendRiskPublish
SendRisk(n, p) ==
    /\ Body[p].kind \in RiskKinds
    /\ Submit(n, p, Risk!CanPublish(node[n].risk, node[n].services, Body[p]))

\* sendSessionEstablish, sendSessionRenew, sendSessionRevoke, sendSessionMigrate
SendSession(n, p) ==
    /\ Body[p].kind \in SessionKinds
    /\ Submit(n, p, Sessions!CanApply(node[n].sessions, Body[p]))

\* sendReviewPublish
SendReview(n, p) ==
    /\ Body[p].kind = "ReviewPublished"
    /\ Submit(n, p, Reviews!CanPublish(node[n].reviews, Body[p]))

\* sendPaymentMethodDefine
SendMethod(n, p) ==
    /\ Body[p].kind = "MethodDefined"
    /\ Submit(n, p, Methods!CanDefine(node[n].methods, Body[p]))

\* sendTradeChannelKeyGrant, sendTradeChannelEntry
SendChannel(n, p) ==
    /\ Body[p].kind \in ChannelKinds
    /\ Submit(n, p, Channels!CanApply(node[n].channels, node[n].settlements,
                                      node[n].disputes, Body[p]))

\* sendProposalCreate, and sendVoteCast, which checks the signature and leaves
\* the rest to the vote's verification.
SendProposal(n, p) ==
    \/ /\ Body[p].kind = "ProposalCreated"
       /\ Submit(n, p, Gov!CanCreate(node[n].governance, Body[p]))
    \/ /\ Body[p].kind = "VoteCast"
       /\ Submit(n, p, Gov!VoteVerifies(Body[p]))

\* sendSubscriptionUpdate, sendDeliveryReport
SendNotification(n, p) ==
    \/ /\ Body[p].kind = "SubscriptionUpdated"
       /\ Submit(n, p, Notes!CanUpdate(Body[p]))
    \/ /\ Body[p].kind = "DeliveryReport"
       /\ Submit(n, p, Notes!CanReport(node[n].notes, node[n].services, Body[p]))

\* The settlement and dispute methods.
SendTrade(n, p) ==
    Body[p].kind \in TradeKinds /\ Submit(n, p, CanTrade(node[n], Body[p]))

\* The kinds only a service originates: no answer is asked for, and the
\* registry judges the payload like one from a peer.
UnaskedKinds == {"ClaimVerified", "ClaimRevoked", "ProposalWithdrawn", "ProposalActivated"}

Publish(n, p) ==
    /\ Body[p].kind \in UnaskedKinds
    /\ <<p, n>> \in scene.events \ issued
    /\ Body[p].timestamp <= now
    /\ LogOriginate(n, <<p, n>>)
    /\ node' = [node EXCEPT ![n] = Handled(@, <<p, n>>)]
    /\ UNCHANGED <<chain, staked, quotes, scene, now>>

\* An event heard from a peer, in any order.
Deliver(n, event) ==
    /\ LogHear(n, {event})
    /\ node' = [node EXCEPT ![n] = Handled(@, event)]
    /\ UNCHANGED <<chain, staked, quotes, scene, now>>

Keeping == UNCHANGED <<issued, log, handed, chain, staked, quotes, scene, now>>

\* poll_expired_records
PruneExpired(n) ==
    /\ node' = [node EXCEPT ![n].oracles = Oracles!PruneExpired(@, now),
                            ![n].risk = Risk!PruneExpired(@, now),
                            ![n].sessions = Sessions!PruneExpired(@, now)]
    /\ Keeping

\* poll_identity_pruning
PruneClaims(n) ==
    /\ node' = [node EXCEPT ![n].identity = Identity!Prune(@, now)]
    /\ Keeping

\* The registry sweep.
SweepServices(n) ==
    /\ node' = [node EXCEPT ![n].services = Services!ExpireStale(@, now)]
    /\ Keeping

\* Mutant: a vote put back for another look starts counting afresh.
RetriedAfresh(pending) == [pending EXCEPT !.attempts = 0]

\* requeue_vote_verification carries the attempts along.
Retried(pending) == [pending EXCEPT !.attempts = @ + 1]

\* One pending vote of poll_vote_verifications.
Verified(st, pending, readable) ==
    LET e == Body[pending.payload]
    IN  IF ~readable \/ e.stake_account \notin DOMAIN chain.stake
        THEN IF pending.attempts + 1 >= MaxAttempts THEN st
             ELSE [st EXCEPT !.votes = Append(@, Retried(pending))]
        ELSE LET account == chain.stake[e.stake_account]
             IN  IF /\ account.owned /\ account.owner = e.wallet
                    /\ Gov!CanVote(st.governance, e)
                 THEN [st EXCEPT !.governance = Gov!Voted(@, e, account.amount)]
                 ELSE st

\* poll_vote_verifications: the queue is drained, each stake account is read
\* or is not.
VerifyVotes(n) ==
    /\ n \in scene.rpc /\ node[n].votes /= <<>>
    /\ \E readable \in [DOMAIN node[n].votes -> BOOLEAN] :
        node' = [node EXCEPT ![n] =
            FoldLeft(LAMBDA st, i : Verified(st, node[n].votes[i], readable[i]),
                     [node[n] EXCEPT !.votes = <<>>],
                     [i \in DOMAIN node[n].votes |-> i])]
    /\ Keeping

\* discard_unverifiable_votes, on a node with no endpoint to read stake from.
DiscardVotes(n) ==
    /\ n \notin scene.rpc /\ node[n].votes /= <<>>
    /\ node' = [node EXCEPT ![n].votes = <<>>]
    /\ Keeping

\* poll_proposal_resolutions: the account each open proposal claims, when it
\* can be read.
AdoptResolutions(n) ==
    /\ n \in scene.rpc
    /\ LET open == Gov!PendingOnchainResolutions(node[n].governance)
           Read(id) == LET oid == node[n].governance[id].onchain_proposal_id
                       IN  IF oid \in DOMAIN chain.proposals
                           THEN Gov!Decoded(chain.proposals[oid]) ELSE None
       IN  \E readable \in SUBSET open :
             /\ readable /= {}
             /\ node' = [node EXCEPT ![n].governance =
                    [id \in DOMAIN @ |->
                        IF id \in readable THEN Gov!Adopted(@, id, Read(id), now)[id]
                        ELSE @[id]]]
    /\ Keeping

\* poll_notifications: each planned delivery is handed to its gateway once.
HandOff(n) ==
    /\ node[n].outbox /= <<>>
    /\ \E accepted \in [DOMAIN node[n].outbox -> BOOLEAN] :
        node' = [node EXCEPT
            ![n].notes = FoldLeft(LAMBDA notes, i :
                            Notes!RecordHandoff(notes, node[n].outbox[i].id, accepted[i]),
                            @, [i \in DOMAIN node[n].outbox |-> i]),
            ![n].outbox = <<>>]
    /\ Keeping

\* getProviderFeeQuote, for a fee that needs a rate and can be settled.
QuoteFee(n, id, mint) ==
    /\ id \in DOMAIN node[n].services /\ node[n].services[id].pricing /= None
    /\ LET pricing == node[n].services[id].pricing
           lookup == Oracles!AsSettlementRate(
                        Oracles!ExchangeRate(node[n].oracles, <<pricing.mint, mint>>, now))
           read == IF lookup.found = "Available"
                   THEN [lookup EXCEPT !.rate = [num |-> @, den |-> RateScale]]
                   ELSE lookup
           quote == Services!SettleIn(pricing, mint, SettlementDecimals, read, now)
       IN  /\ quote.status = "Settleable"
           /\ quotes' = quotes \cup {[service |-> id, quote |-> quote]}
    /\ UNCHANGED <<issued, log, handed, node, chain, staked, scene, now>>

\* A restart keeps the column families and loses the queues.
Restart(n) ==
    /\ node[n].votes /= <<>> \/ node[n].outbox /= <<>>
    /\ node' = [node EXCEPT ![n].votes = <<>>, ![n].outbox = <<>>]
    /\ Keeping

\* The chain: a stake account changes its amount or appears, and a proposal
\* is tallied.
StakeMoves(a, amount) ==
    /\ a \in DOMAIN scene.stakes
    /\ amount \in scene.stakes[a].amounts
    /\ chain' = [chain EXCEPT !.stake = Put(@, a,
                    [owned |-> scene.stakes[a].owned, owner |-> scene.stakes[a].owner,
                     amount |-> amount])]
    /\ staked' = staked \cup {<<scene.stakes[a].owner, amount>>}
    /\ UNCHANGED <<issued, log, handed, node, quotes, scene, now>>

ChainTallies(id, outcome) ==
    /\ id \in DOMAIN chain.proposals
    /\ chain.proposals[id].state = "Voting"
    /\ chain' = [chain EXCEPT !.proposals[id].state = outcome]
    /\ UNCHANGED <<issued, log, handed, node, staked, quotes, scene, now>>

ClockTicks ==
    /\ now < scene.clock
    /\ now' = now + 1
    /\ UNCHANGED <<issued, log, handed, node, chain, staked, quotes, scene>>

StateNext ==
    \/ \E event \in scene.events \ issued :
        LET p == event[1]  n == event[2]
        IN  \/ SendClaim(n, p) \/ SendProvider(n, p) \/ SendOracle(n, p)
            \/ SendRisk(n, p) \/ SendSession(n, p) \/ SendReview(n, p)
            \/ SendMethod(n, p) \/ SendChannel(n, p) \/ SendProposal(n, p)
            \/ SendNotification(n, p) \/ SendTrade(n, p) \/ Publish(n, p)
    \/ \E n \in Nodes :
        \/ \E event \in issued : Deliver(n, event)
        \/ PruneExpired(n) \/ PruneClaims(n) \/ SweepServices(n)
        \/ VerifyVotes(n) \/ DiscardVotes(n) \/ AdoptResolutions(n)
        \/ HandOff(n) \/ Restart(n)
        \/ \E id \in DOMAIN node[n].services : \E mint \in scene.mints :
              QuoteFee(n, id, mint)
    \/ \E a \in DOMAIN scene.stakes : \E amount \in scene.stakes[a].amounts :
          StakeMoves(a, amount)
    \/ \E id \in DOMAIN chain.proposals : \E outcome \in {"Accepted", "Rejected"} :
          ChainTallies(id, outcome)
    \/ ClockTicks

-----------------------------------------------------------------------------
(* Properties.                                                             *)

\* Every column family holds records of its own type (the record.rs of each
\* crate), and a delivery waits in the outbox only once it was recorded.
StateTypeOK ==
    \A n \in Nodes :
        /\ \A c \in Records(node[n].identity) :
              c \in Identity!Claim(Nat, STRING, Nat)
        /\ \A s \in Records(node[n].services) :
              s \in Services!ServiceRecord(STRING, Pricing, STRING, Nat)
        /\ \A r \in Records(node[n].oracles) :
              r \in Oracles!OracleRecord(STRING, STRING \X STRING, Nat, Nat, Nat)
        /\ \A r \in Records(node[n].risk) :
              r \in Risk!RiskRecord(STRING, STRING, Nat)
        /\ \A s \in Records(node[n].sessions) :
              s \in Sessions!Session(STRING, STRING, Nat, Nat)
        /\ \A r \in Records(node[n].reviews) :
              r \in Reviews!Review(Nat, STRING, Nat, Nat)
        /\ \A p \in Records(node[n].governance) :
              p \in Gov!Proposal(STRING, {v[1] : v \in staked}, {v[2] : v \in staked},
                               Nat, Nat)
        /\ \A c \in Records(node[n].channels.entries) : c.kind \in Channels!EntryKind
        /\ \A s \in Records(node[n].notes.subscriptions) :
              s.categories \subseteq Notes!NotificationCategory
        /\ \A d \in Records(node[n].notes.dispatches) \cup Records(node[n].notes.receipts) :
              d.status \in Notes!DeliveryStatus
        /\ \A i \in DOMAIN node[n].outbox :
              node[n].outbox[i].id \in DOMAIN node[n].notes.dispatches

\* Reviews and merchant payment methods are the same on two nodes that have
\* heard the same events, whatever order each heard them in.
ReplicasAgree ==
    \A n, m \in Nodes : log[n] = log[m] =>
        /\ node[n].reviews = node[m].reviews
        /\ node[n].methods = node[m].methods

\* The key a counterparty seals to is one its wallet still holds live, and is
\* missing only if there is none (current_encryption_key, live_claim_ids).
KeysInForce(st) ==
    \A w \in {c.wallet : c \in Records(st.identity)} :
        LET keys == {id \in Identity!LiveClaimIds(st.identity, w, now) :
                        st.identity[id].ctype = "EncryptionKey"}
            key  == Identity!CurrentEncryptionKey(st.identity, w, now)
        IN  IF keys = {} THEN key = None ELSE key \in keys

\* Reviews read by trade, by wallet and in public are the same reviews
\* (find_for_settlement, involving, about).
ReviewsReadAlike(st) ==
    \A s \in DOMAIN st.settlements :
        LET parties == {st.settlements[s].buyer, st.settlements[s].seller}
            involving(w) == {p \in Reviews!ReviewsInvolving(st.reviews, st.settlements, w) :
                                p.review.settlement = s}
            written == UNION {involving(w) : w \in parties}
        IN  /\ {st.reviews[id] :
                   id \in Reviews!FindForSettlement(st.reviews, st.settlements, s)}
                 = {p.review : p \in written}
            /\ \A p \in written :
                  /\ {p.review.author, p.about} = parties
                  /\ \E public \in Reviews!PublicAbout(st.reviews, st.settlements, p.about) :
                        public.rating = p.review.rating /\ public.words = p.review.words

\* Sweeping lapsed records changes no answer: their grace ends after they
\* stopped counting (prune_expired, median_exchange_rate, screen).
SweepsAreSilent(st) ==
    /\ \A pair \in {r.pair : r \in Records(st.oracles)} :
          Oracles!MedianExchangeRate(Oracles!PruneExpired(st.oracles, now), pair, now)
            = Oracles!MedianExchangeRate(st.oracles, pair, now)
    /\ \A w \in {r.subject : r \in Records(st.risk)} :
          Risk!HighestSeverity(Risk!PruneExpired(st.risk, now), w, now)
            = Risk!HighestSeverity(st.risk, w, now)

\* A trade's channel is handed to its parties and to arbitrators of its cases
\* and nobody else; an entry on file opens, with the key it was sealed under,
\* only in its own slot; and what an author writes next meets none of its
\* entries (role_of, open_entry, next_sequence).
ChannelsAreClosed(st) ==
    \A s \in DOMAIN st.settlements :
        LET parties == {st.settlements[s].buyer, st.settlements[s].seller}
            seated  == UNION {d.arbitrators : d \in {x \in Records(st.disputes) :
                                                        x.settlement_id = s}}
            Slot(k) == [settlement |-> k[1], wallet |-> k[2], sequence |-> k[3],
                        entry |-> st.channels.entries[k].kind,
                        payload |-> st.channels.entries[k].payload]
            Elsewhere(k) == [Slot(k) EXCEPT !.sequence = @ + 1]
            own == {k \in DOMAIN st.channels.entries : k[1] = s}
        IN  /\ Channels!Readers(st.channels, s) \subseteq parties \cup seated
            /\ own = UNION {Channels!EntriesOfKind(st.channels, s, kind) :
                               kind \in Channels!EntryKind}
            /\ \A k \in own :
                  LET payload == st.channels.entries[k].payload
                  IN  /\ Channels!OpensTo(payload.key, Slot(k)) = payload.plaintext
                      /\ Channels!OpensTo(payload.key, Elsewhere(k)) = None
            /\ \A w \in parties :
                  <<s, w, Channels!NextSequence(st.channels, s, w)>> \notin own

\* A merchant's method is selectable by the merchant on its record and nobody
\* else, a row of the catalog by everyone (is_selectable_by).
MethodsAreScoped(st) ==
    \A w \in {Body[p].wallet : p \in DOMAIN Body} :
        /\ \A id \in DOMAIN st.methods :
              Methods!IsSelectableBy(id, w) <=> w = st.methods[id].merchant
        /\ \A row \in Catalog : Methods!IsSelectableBy(Methods!BuiltinRef(row.slug), w)

\* What a node answers from its registries stands, whichever way it is asked
\* and whenever its sweeps ran.
AnswersStand ==
    \A n \in Nodes :
        /\ KeysInForce(node[n]) /\ ReviewsReadAlike(node[n]) /\ SweepsAreSilent(node[n])
        /\ ChannelsAreClosed(node[n]) /\ MethodsAreScoped(node[n])

\* A record a node keeps only moves forward: a revoked claim or session stays
\* revoked, a session's and an oracle record's version never falls, a service
\* id keeps its provider, a channel entry is never rewritten, and a proposal
\* that left Voting is never voted on or decided again.
RecordsStepForward ==
    \A n \in Nodes :
        LET old == node[n]  new == node'[n]
            Kept(f) == DOMAIN old[f] \cap DOMAIN new[f]
        IN  /\ \A id \in Kept("identity") :
                 /\ old.identity[id].revoked => new.identity[id].revoked
                 /\ new.identity[id].wallet = old.identity[id].wallet
            /\ \A id \in Kept("sessions") :
                 /\ old.sessions[id].revoked => new.sessions[id] = old.sessions[id]
                 /\ new.sessions[id].version >= old.sessions[id].version
            /\ \A id \in Kept("oracles") :
                 \/ new.oracles[id] = old.oracles[id]
                 \/ new.oracles[id].version > old.oracles[id].version
            /\ \A id \in Kept("services") :
                 new.services[id].provider = old.services[id].provider
            /\ \A k \in DOMAIN old.channels.entries :
                 /\ k \in DOMAIN new.channels.entries
                 /\ new.channels.entries[k] = old.channels.entries[k]
            /\ \A id \in Kept("governance") :
                 old.governance[id].status \notin {"Voting", "Accepted"} =>
                    new.governance[id] = old.governance[id]

\* A vote is counted only at a weight the chain has shown for its voter, a
\* voter once, and the preview a node shows has it on exactly one side.
VotesVerified ==
    \A n \in Nodes : \A id \in DOMAIN node[n].governance :
        LET votes == node[n].governance[id].votes
        IN  /\ \A v \in DOMAIN votes : <<v, votes[v].weight>> \in staked
            /\ MapThenSumSet(LAMBDA c : Gov!VotePreview(node[n].governance[id], c),
                             Gov!VoteChoice)
                 = MapThenSumSet(LAMBDA v : votes[v].weight, DOMAIN votes)

\* A proposal is Accepted, Rejected or Activated on a node only if the
\* governance program decided so in an account that names the proposal back.
OutcomesFromChain ==
    \A n \in Nodes : \A id \in DOMAIN node[n].governance :
        LET p == node[n].governance[id]
        IN  p.status \in {"Accepted", "Rejected", "Activated"} =>
              /\ p.onchain_proposal_id \in DOMAIN chain.proposals
              /\ LET c == chain.proposals[p.onchain_proposal_id]
                 IN  /\ c.owned /\ c.offchain_id = id
                     /\ c.state = IF p.status = "Rejected" THEN "Rejected" ELSE "Accepted"

\* Until a fee quote expires every node that has the same price on file
\* accepts the payer's commitment to it, even with a clock that lags by as
\* much as the protocol allows.
QuotesHonoured ==
    \A q \in quotes, n \in Nodes, lag \in 0 .. MaxClockSkew :
        LET clock == SaturatingSub(now, lag)
        IN  /\ clock < q.quote.expires_at
            /\ q.service \in DOMAIN node[n].services
            /\ node[n].services[q.service].pricing /= None
            /\ node[n].services[q.service].pricing.mint = q.quote.fee_mint
            /\ node[n].services[q.service].pricing.amount = q.quote.fee
            => Services!AcceptsSettlement(Services!Commitment("payer", q.quote),
                                      node[n].services[q.service].pricing, clock)

\* No event takes a wallet over the cap on live claims, or further over it.
\* A sweep can: it may drop a lapsed claim before the one that claim replaced.
ClaimsCapped ==
    \A n \in Nodes : \A w \in {c.wallet : c \in Records(node'[n].identity)} :
        LET before == Cardinality(Identity!LiveClaimIds(node[n].identity, w, now))
            after  == Cardinality(Identity!LiveClaimIds(node'[n].identity, w, now'))
            Sweep  == DOMAIN node'[n].identity \subseteq DOMAIN node[n].identity
        IN  \/ after <= MaxClaimsPerWallet
            \/ after <= before
            \/ Sweep

=============================================================================
