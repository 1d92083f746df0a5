---------------------------- MODULE OracleIndex -----------------------------
(***************************************************************************)
(* The replicated index of oracle records (crate openfiat-oracles).  A     *)
(* record is replaced only by a strictly newer version under its id, and   *)
(* only a registered market-data provider may publish.  `services' is the  *)
(* same node's service registry.                                           *)
(***************************************************************************)
EXTENDS Wire, Sequences, SequencesExt

CONSTANT OracleGrace            \* EXPIRED_GRACE

OracleCategory == {"ExchangeRate", "StablecoinMetadata",
                   "PaymentInfrastructure", "RegionalMetadata"}

\* A record carries the fields of its own category; only an exchange rate's
\* are told apart here: the pair it prices and the rate.
OracleRecord(Prov, Pair, Rate, Version, Time) ==
    [provider : Prov, category : OracleCategory, pair : Pair, rate : Rate,
     version : Version, published_at : Time, expires_at : Time]

OracleIsCurrent(r, now) == now < r.expires_at

RegisteredMarketData(services, provider) ==
    \E id \in DOMAIN services :
        services[id].provider = provider /\ services[id].stype = "MarketData"

\* SignedOraclePublish::verify: the payload names the wallet its key derives to, and
\* that key signed it.
PublishVerifies(e) == SelfSigned(e)

\* apply_publish: signature, registration, not already expired, and newer
\* than the version on file.
CanPublish(oracles, services, e) ==
    /\ PublishVerifies(e)
    /\ RegisteredMarketData(services, e.wallet)
    /\ e.expires_at > e.timestamp
    /\ e.id \in DOMAIN oracles => e.version > oracles[e.id].version

Published(oracles, e) ==
    Put(oracles, e.id,
        [provider |-> e.wallet, category |-> e.category, pair |-> e.pair,
         rate |-> e.rate, version |-> e.version,
         published_at |-> e.timestamp, expires_at |-> e.expires_at])

Apply(oracles, services, e) ==
    IF CanPublish(oracles, services, e) THEN Published(oracles, e) ELSE oracles

\* prune_expired keeps an expired record for a grace period.
PruneExpired(oracles, now) ==
    Without(oracles, {id \in DOMAIN oracles :
        oracles[id].expires_at < SaturatingSub(now, OracleGrace)})

FindByCategory(oracles, category) ==
    {id \in DOMAIN oracles : oracles[id].category = category}

\* exchange_rate: the upper median of the current records for a pair, good
\* until the first of them lapses.  An unpriced pair and a lapsed feed are
\* different answers.
ExchangeRate(oracles, pair, now) ==
    LET matching == {id \in FindByCategory(oracles, "ExchangeRate") :
                        oracles[id].pair = pair}
        current  == {id \in matching : OracleIsCurrent(oracles[id], now)}
        sorted   == SetToSortSeq(current,
                        LAMBDA i, j : \/ oracles[i].rate < oracles[j].rate
                                      \/ oracles[i].rate = oracles[j].rate /\ i < j)
        Earliest == CHOOSE t \in {oracles[id].expires_at : id \in current} :
                        \A id \in current : t <= oracles[id].expires_at
    IN  CASE matching = {} -> [found |-> "NoData"]
          [] matching /= {} /\ current = {} -> [found |-> "Stale"]
          [] OTHER -> [found |-> "Current",
                       rate |-> oracles[sorted[(Len(sorted) \div 2) + 1]].rate,
                       expires_at |-> Earliest]

\* as_settlement_rate: all three answers are carried across to fee settlement.
AsSettlementRate(lookup) ==
    CASE lookup.found = "Current" ->
            [found |-> "Available", rate |-> lookup.rate,
             expires_at |-> lookup.expires_at]
      [] lookup.found = "Stale"  -> [found |-> "StaleOracleData"]
      [] lookup.found = "NoData" -> [found |-> "NoOracleData"]

\* median_exchange_rate: the same answer with both failures made None.
MedianExchangeRate(oracles, pair, now) ==
    LET lookup == ExchangeRate(oracles, pair, now)
    IN  IF lookup.found = "Current" THEN lookup.rate ELSE None

=============================================================================
