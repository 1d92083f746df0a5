---------------------------- MODULE MCTradeDesk -----------------------------
(***************************************************************************)
(* The trade desks of two nodes, for TLC: one scene per group of payloads  *)
(* that meet each other, and one per reader.                               *)
(***************************************************************************)
EXTENDS TradeDesk

CONSTANTS m, b, x,         \* a merchant, a buyer, a bystander
          a1, a2           \* arbitrators

SymbolOfUsdc == [usdc |-> "USDC"]

Card == [owner |-> None, name |-> "card"]
Ad(id, pricing, liquidity) ==
    NewAdvertisement(AdvertisementCreate(m, id, Terms(1, 2, {Card}), pricing, liquidity, 0))

\* A median of 1.00, 1.05 or none: with the premiums below one of the prices
\* falls between two units, and one exactly half way.
At(mid) == [USDC |-> mid]
Mids == <<At(Available(105, 1)), At(Available(100, 1)), At(StaleOracleData), At(NoOracleData)>>

To(n, payloads) == {n} \X payloads
ToAny(payloads) == Nodes \X payloads

Quiet ==
    [desk |-> EmptyDesk, sends |-> {}, originates |-> {}, released |-> {}, executed |-> EmptyStore,
     mids |-> <<At(NoOracleData)>>, takers |-> {}, filter |-> Unconstrained, limit |-> 2,
     pages_from |-> None, readers |-> {}, nonces |-> {}, surfaces |-> {},
     services |-> EmptyStore, last |-> 0]

-----------------------------------------------------------------------------
\* A taker is shown a floating price; the merchant changes it; the offer is
\* used up, cancelled, or lapses.
Taker(id, amount) == [wallet |-> b, id |-> id, ad |-> 1, amount |-> amount]

QuoteScene ==
    [Quiet EXCEPT !.desk = [EmptyDesk EXCEPT !.ads = (1 :> Ad(1, Floating(0, 1), 2))],
        !.mids = Mids, !.takers = {Taker(1, 2)},
        !.sends = ToAny({AdvertisementUpdatePricing(m, 1, Floating(5000, 0), 0),
                   AdvertisementUpdatePricing(m, 1, Fixed(1), 0)})]

LapseScene ==
    [Quiet EXCEPT !.desk = [EmptyDesk EXCEPT !.ads = (1 :> Ad(1, Fixed(1), 3))],
        !.takers = {Taker(1, 2)}, !.last = 2,
        !.sends = To("a", {ReservationCancel(b, 1, 0), AdvertisementSetStatus(m, 1, "Disabled", 1)})
             \cup To("b", {SettlementInitiate(b, 1, 1, m, m, 2, 1), SettlementCancel(m, 1, 1)})]

-----------------------------------------------------------------------------
\* Five rows read two at a time while rows come, change and go.
Rows(ids) == [i \in ids |-> Ad(i, Fixed(1), 3)]

PagingScene ==
    [Quiet EXCEPT !.desk = [EmptyDesk EXCEPT !.ads = Rows({1, 2, 4, 5})],
        !.pages_from = "a",
        !.sends = ToAny({AdvertisementCreate(m, 3, Terms(1, 2, {Card}), Fixed(1), 3, 0),
                   AdvertisementCreate(x, 6, Terms(2, 1, {Card}), Fixed(1), 3, 0),
                   AdvertisementSetStatus(m, 1, "Deleted", 0),
                   AdvertisementSetStatus(m, 4, "Inactive", 0),
                   AdvertisementSetStatus(m, 4, "Active", 0)})]

FilterScene ==
    [PagingScene EXCEPT !.desk = [EmptyDesk EXCEPT !.ads = Rows(1..3)],
        !.filter = [Unconstrained EXCEPT !.amount = 2, !.merchant = m, !.direction = "Sell",
                                         !.method = Card, !.statuses = {"Active", "Inactive"}],
        !.limit = 0,
        !.takers = {Taker(1, 2)},
        !.sends = ToAny({AdvertisementUpdateTerms(m, 2, Terms(1, 1, {Card}), 0),
                   AdvertisementUpdateTerms(m, 2, Terms(1, 1, {[owner |-> x, name |-> "cash"]}), 0),
                   AdvertisementUpdateTerms(m, 2, Terms(2, 2, {Card}), 0),
                   AdvertisementSetStatus(x, 3, "Deleted", 0),
                   AdvertisementSetStatus(m, 3, "Inactive", 0)})]

-----------------------------------------------------------------------------
\* A case account: two seats, one of them revealed, one barred earlier, and a
\* deposit the vault could not cover.
OnChain(outcome) ==
    [resolved |-> outcome # None, outcome |-> outcome, arbitrators |-> <<2, 1>>,
     revealed |-> <<"BuyerWins", None>>, weights |-> <<1, 3>>, barred |-> <<1>>,
     deposit |-> 3, shortfall |-> 1]
Split == [OnChain(None) EXCEPT !.resolved = TRUE]

\* One trade and its messages, and the release each node sees for itself; the
\* same with another key on file for the seller; and a wallet that trades with
\* itself, beside a trade with another.
Open1 == NewSettlement(SettlementInitiate(b, 1, 1, m, m, 2, 0))

TradeScene ==
    [Quiet EXCEPT !.sends =
        ToAny({SettlementInitiate(b, 1, 1, m, m, 2, 0), SubmitPayment(b, 1, "ref", 0),
         ReversePayment(b, 1, 0), SubmitPayment(b, 1, "again", 1), SettlementApprove(m, 1, 1),
         [SettlementApprove(m, 1, 0) EXCEPT !.signer = b]}),
        !.released = {1}, !.last = 2]

KeyScene ==
    [Quiet EXCEPT !.sends =
        ToAny({SettlementInitiate(b, 1, 1, m, m, 2, 0), SettlementInitiate(b, 1, 1, m, x, 2, 0),
         SubmitPayment(b, 1, "ref", 0), SettlementApprove(m, 1, 1),
         [SettlementReject(m, 1, "Other", 0) EXCEPT !.signer = x]}), !.last = 1]

SelfScene ==
    [Quiet EXCEPT !.desk = [EmptyDesk EXCEPT !.settlements =
            (1 :> NewSettlement(SettlementInitiate(b, 1, 1, b, b, 2, 0)))
         @@ (2 :> NewSettlement(SettlementInitiate(b, 2, 2, m, m, 1, 0)))],
        !.sends = To("a", {SubmitPayment(b, 1, "ref", 0), SettlementApprove(b, 1, 0),
                           SettlementCancel(b, 1, 0), SettlementCancel(m, 2, 0),
                           DisputeOpen(b, 1, 1, 0)})]

RejectScene ==
    [Quiet EXCEPT !.sends =
        ToAny({SettlementInitiate(b, 1, 1, m, m, 2, 0), SubmitPayment(b, 1, "ref", 0),
         SettlementReject(m, 1, "IncorrectAmount", 1), SettlementCancel(b, 1, 1),
         DisputeOpen(x, 1, 1, 1), DisputeOpen(b, 1, 1, 1)}),
        !.executed = (1 :> {Account("escrow", OnChain("MerchantWins"))}), !.last = 1]

\* A case: the seats, their votes, one that does not match, and the parties
\* agreeing instead.
CaseScene(outcome) ==
    [Quiet EXCEPT !.desk = [EmptyDesk EXCEPT !.settlements = (1 :> Open1)],
        !.sends =
            ToAny({DisputeOpen(b, 1, 1, 0), JoinAsArbitrator(a1, 1, 0), JoinAsArbitrator(a2, 1, 0),
             CommitVote(a1, 1, "BuyerWins", 7, 0), CommitVote(a2, 1, "Invalid", 7, 0),
             RevealVote(a1, 1, "BuyerWins", 7, 0), RevealVote(a2, 1, "BuyerWins", 7, 0),
             RevealVote(a2, 1, "Invalid", 7, 0)}),
        !.executed = (1 :> {Account("escrow", OnChain(None)), Account("escrow", OnChain(outcome)),
                            Account("other", OnChain("Invalid"))}), !.last = 0]

AgreeScene ==
    [Quiet EXCEPT !.desk = [EmptyDesk EXCEPT !.settlements = (1 :> Open1)],
        !.sends = ToAny({DisputeOpen(m, 1, 1, 0), SubmitPayment(b, 1, "ref", 0)}),
        !.originates = To("a", {AgreeToMutualSettlement(b, 1, 0)})
                  \cup To("b", {AgreeToMutualSettlement(m, 1, 0)}),
        !.executed = (1 :> {Account("escrow", OnChain("MutualSettlement"))}), !.last = 1]

-----------------------------------------------------------------------------
\* Two wallets, one of them party to a trade and a case, prove themselves.
Case1 == NewDispute([settlements |-> (1 :> Open1)], DisputeOpen(b, 1, 1, 0))

ProofScene(surfaces) ==
    [Quiet EXCEPT !.desk =
        [EmptyDesk EXCEPT
            !.ads = (1 :> Ad(1, Fixed(1), 2)),
            !.reservations = (1 :> NewReservation(ReservationRequest(b, 1, 1, 2, 1, None, 0)))
                          @@ (2 :> NewReservation(ReservationRequest(x, 2, 1, 1, 1, None, 0))),
            !.settlements = (1 :> Open1)
                         @@ (2 :> NewSettlement(SettlementInitiate(x, 2, 2, m, m, 1, 0))),
            !.disputes = (1 :> Case1)],
        !.sends = ToAny({JoinAsArbitrator(x, 1, 0)}),
        !.readers = {b, x}, !.nonces = {1, 2}, !.surfaces = surfaces, !.last = 1]

\* Two providers, and a wallet reading beside them.
EarningsScene ==
    [Quiet EXCEPT !.readers = {m, x}, !.nonces = {1, 2}, !.last = 1,
        !.surfaces = {"getProviderEarnings", "getMySettlements"},
        !.services = (a1 :> [key |-> m, payout |-> m]) @@ (a2 :> [key |-> x, payout |-> b])]

Scenes ==
    {QuoteScene, LapseScene, PagingScene, FilterScene, TradeScene, RejectScene,
     KeyScene, SelfScene, CaseScene("BuyerWins"), AgreeScene,
     ProofScene({"getMySettlements", "getMyDisputes"}),
     ProofScene({"getMyReservations", "getMyTrades"}),
     ProofScene({"getCounterparties"}), EarningsScene}

\* A case that ran out of rounds.
SplitScene ==
    [Quiet EXCEPT !.desk = [EmptyDesk EXCEPT !.settlements = (1 :> Open1)],
        !.sends = ToAny({DisputeOpen(b, 1, 1, 0)}),
        !.executed = (1 :> {Account("escrow", Split)})]

SplitSpec == DeskInit({SplitScene}) /\ [][DeskNext]_deskVars

=============================================================================
