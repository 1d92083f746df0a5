----------------------------- MODULE RiskIndex ------------------------------
(***************************************************************************)
(* The replicated index of risk records (crate openfiat-risk).  Records    *)
(* are immutable: a wallet is cleared by a later `Cleared' record, never   *)
(* by deleting a `Flagged' one.                                            *)
(***************************************************************************)
EXTENDS Wire

CONSTANT RiskGrace              \* EXPIRED_GRACE

RiskOutcome == {"Flagged", "Cleared"}

\* Informational, Low, Medium, High, Critical: compared only by order.
Severity == 0 .. 4

RiskRecord(Prov, Wal, Time) ==
    [provider : Prov, subject : Wal, outcome : RiskOutcome,
     severity : Severity, published_at : Time, expires_at : Time \cup {None}]

RiskIsCurrent(r, now) == r.expires_at = None \/ now < r.expires_at

RegisteredRiskProvider(services, provider) ==
    \E id \in DOMAIN services :
        services[id].provider = provider /\ services[id].stype = "RiskIntelligence"

\* SignedRiskPublish::verify: the payload names the wallet its key derives to, and
\* that key signed it.
PublishVerifies(e) == SelfSigned(e)

\* apply_publish: signature, registration, and an id never used before.
CanPublish(risks, services, e) ==
    /\ PublishVerifies(e)
    /\ RegisteredRiskProvider(services, e.wallet)
    /\ e.id \notin DOMAIN risks

Published(risks, e) ==
    Put(risks, e.id,
        [provider |-> e.wallet, subject |-> e.subject, outcome |-> e.outcome,
         severity |-> e.severity, published_at |-> e.timestamp,
         expires_at |-> e.expires_at])

\* apply_event takes both event types to the same operation.
Apply(risks, services, e) ==
    IF e.kind \in {"WalletFlagged", "WalletCleared"} /\ CanPublish(risks, services, e)
    THEN Published(risks, e) ELSE risks

\* prune_expired keeps an expired record for a grace period; a record with
\* no expiry is kept for good.
PruneExpired(risks, now) ==
    Without(risks, {id \in DOMAIN risks :
        /\ risks[id].expires_at /= None
        /\ risks[id].expires_at < SaturatingSub(now, RiskGrace)})

\* screen: the flags still current and published after the last current
\* clearance.
ActiveFlags(risks, wallet, now) ==
    LET current == {id \in DOMAIN risks : /\ risks[id].subject = wallet
                                          /\ RiskIsCurrent(risks[id], now)}
        cleared == {id \in current : risks[id].outcome = "Cleared"}
    IN  {id \in current : /\ risks[id].outcome = "Flagged"
                          /\ \A c \in cleared :
                                risks[id].published_at > risks[c].published_at}

\* screen's aggregate: the worst severity among the active flags.
HighestSeverity(risks, wallet, now) ==
    LET flags == ActiveFlags(risks, wallet, now)
    IN  IF flags = {} THEN None
        ELSE CHOOSE s \in {risks[id].severity : id \in flags} :
                \A id \in flags : s >= risks[id].severity

=============================================================================
