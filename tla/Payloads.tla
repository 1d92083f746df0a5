------------------------------ MODULE Payloads ------------------------------
(***************************************************************************)
(* The signed payloads the services of the domain crates build.  Each      *)
(* operator is one *Service method: it fills in the payload under its own  *)
(* identity and clock, signs it, and hands it to gossip.  What is only     *)
(* displayed (titles, summaries, reasons, regions, captions) is left out.  *)
(***************************************************************************)
EXTENDS Wire, TLC

CONSTANTS SessionLifetime       \* DEFAULT_SESSION_LIFETIME

\* What every payload carries.  A payload may be signed by another key than
\* the wallet it names; a service signs with its own.
Signed(kind, wallet, id, now) ==
    [kind |-> kind, wallet |-> wallet, signer |-> wallet, id |-> id, timestamp |-> now]

-----------------------------------------------------------------------------
(* IdentityService, SessionService                                         *)

ClaimPublish(wallet, id, ctype, parses, verified, supersedes, expires, now) ==
    Signed("ClaimCreated", wallet, id, now) @@
    [ctype |-> ctype, parses |-> parses, verified |-> verified,
     supersedes |-> supersedes, expires_at |-> expires]

ClaimVerify(wallet, id, now) == Signed("ClaimVerified", wallet, id, now)

ClaimRevoke(wallet, id, now) == Signed("ClaimRevoked", wallet, id, now)

\* lifetime.unwrap_or(DEFAULT_SESSION_LIFETIME)
Lifetime(lifetime) == IF lifetime = None THEN SessionLifetime ELSE lifetime

\* A session is hosted by the node that establishes it.
SessionEstablish(wallet, id, lifetime, now) ==
    Signed("SessionEstablished", wallet, id, now) @@
    [host_node |-> wallet, expires_at |-> now + Lifetime(lifetime)]

SessionRenew(wallet, id, version, lifetime, now) ==
    Signed("SessionRenewed", wallet, id, now) @@
    [version |-> version, expires_at |-> now + Lifetime(lifetime)]

SessionRevoke(wallet, id, now) == Signed("SessionRevoked", wallet, id, now)

SessionMigrate(wallet, id, host, version, now) ==
    Signed("SessionMigrated", wallet, id, now) @@
    [version |-> version, host_node |-> host]

-----------------------------------------------------------------------------
(* RegistryService, OracleService, RiskService                             *)

\* ServiceListing is what the operator states about a service.
Listing(stype, pricing, payout, channel) ==
    [stype |-> stype, branding |-> "absent", endpoints |-> "wellformed",
     pricing |-> pricing, payout_wallet |-> payout, channel |-> channel]

ServiceRegister(wallet, id, listing, now) ==
    Signed("ServiceRegistered", wallet, id, now) @@ listing

HealthPublish(wallet, id, state, now) ==
    Signed("ServiceUpdated", wallet, id, now) @@ [state |-> state]

ServiceWithdraw(wallet, id, now) == Signed("ServiceUnregistered", wallet, id, now)

OraclePublish(wallet, id, pair, rate, version, ttl, now) ==
    Signed("OraclePublished", wallet, id, now) @@
    [category |-> "ExchangeRate", pair |-> pair, rate |-> rate,
     version |-> version, expires_at |-> now + ttl]

\* The outcome chooses the event type.
RiskPublish(wallet, id, subject, outcome, severity, expires, now) ==
    Signed(IF outcome = "Flagged" THEN "WalletFlagged" ELSE "WalletCleared",
           wallet, id, now) @@
    [subject |-> subject, outcome |-> outcome, severity |-> severity,
     expires_at |-> expires]

-----------------------------------------------------------------------------
(* GovernanceService, NotificationService, AttachmentService               *)

ProposalCreate(wallet, id, onchain, now) ==
    Signed("ProposalCreated", wallet, id, now) @@ [onchain_proposal_id |-> onchain]

VoteCast(wallet, id, choice, weight, account, now) ==
    Signed("VoteCast", wallet, id, now) @@
    [choice |-> choice, weight |-> weight, stake_account |-> account]

ProposalWithdraw(wallet, id, now) == Signed("ProposalWithdrawn", wallet, id, now)

ProposalActivate(wallet, id, now) == Signed("ProposalActivated", wallet, id, now)

SubscriptionUpdate(wallet, categories, destinations, now) ==
    Signed("SubscriptionUpdated", wallet, wallet, now) @@
    [categories |-> categories, destinations |-> destinations]

DeliveryReport(wallet, id, service, recipient, trigger, status, now) ==
    Signed("DeliveryReport", wallet, id, now) @@
    [service |-> service, recipient |-> recipient, trigger |-> trigger,
     status |-> status]

AttachmentPublish(wallet, id, settlement, cid, size, now) ==
    Signed("AttachmentPublished", wallet, id, now) @@
    [settlement |-> settlement, cid |-> cid, size_bytes |-> size,
     caption_fits |-> TRUE]

-----------------------------------------------------------------------------
(* TradeChannelService                                                     *)

\* publish_grant: the sealed key is abstracted to the key it wraps.
KeyGrant(wallet, settlement, recipient, key, now) ==
    [kind |-> "KeyGranted", wallet |-> wallet, signer |-> wallet, timestamp |-> now,
     settlement |-> settlement, recipient |-> recipient, key_id |-> key]

\* post: the next sequence number of the author, as its own store has it, and
\* a payload sealed to that slot.
EntryPost(wallet, settlement, sequence, entry, payload, now) ==
    [kind |-> "EntryPosted", wallet |-> wallet, signer |-> wallet, timestamp |-> now,
     settlement |-> settlement, sequence |-> sequence, entry |-> entry,
     payload |-> payload]

=============================================================================
