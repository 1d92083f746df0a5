--------------------------- MODULE IdentityIndex ----------------------------
(***************************************************************************)
(* The replicated index of identity claims (crate openfiat-identity).      *)
(*                                                                         *)
(* `claims' is one node's column family: a function from claim ids to      *)
(* claims.  A claim is never edited by a second publication: an update is  *)
(* a new claim that names the old one in `supersedes'.  Claim ids are      *)
(* naturals, ordered as the store iterates them.                           *)
(***************************************************************************)
EXTENDS Wire

CONSTANTS MaxClaimsPerWallet,   \* MAX_CLAIMS_PER_WALLET
          ClaimRetention        \* CLAIM_RETENTION

ClaimType == {"EncryptionKey", "Avatar", "Custom"}

\* The types whose value is parsed at publication; the rest are free text.
Validated == {"EncryptionKey", "Avatar"}

\* ClaimType::accepts.  A value is abstracted to whether it parses.
Accepts(ctype, parses) == ctype \in Validated => parses

VerificationStatus == {"Unverified", "SelfAttested"}

Claim(Id, Wal, Time) ==
    [wallet : Wal, ctype : ClaimType, parses : BOOLEAN,
     status : VerificationStatus, supersedes : Id \cup {None},
     expires_at : Time \cup {None}, revoked : BOOLEAN,
     created_at : Time, updated_at : Time]

ClaimIsValid(c, now) ==
    /\ ~c.revoked
    /\ c.expires_at = None \/ now < c.expires_at

FindByWallet(claims, wallet) ==
    {id \in DOMAIN claims : claims[id].wallet = wallet}

\* The ids some claim among `ids' says it replaces.
Superseded(claims, ids) == {claims[id].supersedes : id \in ids} \ {None}

\* live_claim_ids: neither revoked, expired, nor replaced by a claim of the
\* same wallet.
LiveClaimIds(claims, wallet, now) ==
    LET mine == FindByWallet(claims, wallet) IN
    {id \in mine : ClaimIsValid(claims[id], now)} \ Superseded(claims, mine)

\* Only a target the wallet holds live right now makes a replacement; a
\* `supersedes' that names anything else frees no slot.
GenuineSupersede(claims, e, now) ==
    e.supersedes \in LiveClaimIds(claims, e.wallet, now)

\* SignedClaimPublish::verify: the payload names the wallet its key derives to, and
\* that key signed it.
PublishVerifies(e) == SelfSigned(e)

\* The checks of apply_publish, in order: signature, fresh id, value, cap.
CanPublish(claims, e, now) ==
    /\ PublishVerifies(e)
    /\ e.id \notin DOMAIN claims
    /\ Accepts(e.ctype, e.parses)
    /\ \/ GenuineSupersede(claims, e, now)
       \/ Cardinality(LiveClaimIds(claims, e.wallet, now)) < MaxClaimsPerWallet

Published(claims, e) ==
    Put(claims, e.id,
        [wallet |-> e.wallet, ctype |-> e.ctype, parses |-> e.parses,
         status |-> IF e.verified THEN "SelfAttested" ELSE "Unverified",
         supersedes |-> e.supersedes, expires_at |-> e.expires_at,
         revoked |-> FALSE, created_at |-> e.timestamp,
         updated_at |-> e.timestamp])

\* The checks apply_verify and apply_revoke share: the claim exists, its own
\* wallet signed, and it is not revoked.
OwnUnrevoked(claims, e) ==
    /\ e.id \in DOMAIN claims
    /\ SignedBy(e, claims[e.id].wallet)
    /\ ~claims[e.id].revoked

Verified(claims, e) ==
    [claims EXCEPT ![e.id].status = "SelfAttested",
                   ![e.id].updated_at = e.timestamp]

Revoked(claims, e) ==
    [claims EXCEPT ![e.id].revoked = TRUE,
                   ![e.id].updated_at = e.timestamp]

CanApply(claims, e, now) ==
    CASE e.kind = "ClaimCreated"  -> CanPublish(claims, e, now)
      [] e.kind = "ClaimVerified" -> OwnUnrevoked(claims, e)
      [] e.kind = "ClaimRevoked"  -> OwnUnrevoked(claims, e)

\* apply_event: whatever the handler refuses leaves the index alone.
Apply(claims, e, now) ==
    IF ~CanApply(claims, e, now) THEN claims
    ELSE CASE e.kind = "ClaimCreated"  -> Published(claims, e)
           [] e.kind = "ClaimVerified" -> Verified(claims, e)
           [] e.kind = "ClaimRevoked"  -> Revoked(claims, e)

\* The claims a prune sweep counts as dead.  The `supersedes' of every
\* wallet's claims is collected, not only the claim's own wallet's.
DeadClaims(claims, now) ==
    {id \in DOMAIN claims : ~ClaimIsValid(claims[id], now)}
        \cup (DOMAIN claims \cap Superseded(claims, DOMAIN claims))

Prune(claims, now) ==
    Without(claims,
            {id \in DeadClaims(claims, now) :
                claims[id].updated_at <= SaturatingSub(now, ClaimRetention)})

\* current_encryption_key: the newest valid, unreplaced key claim, the last
\* in store order among equals; None when the wallet has published none.
CurrentEncryptionKey(claims, wallet, now) ==
    LET mine == FindByWallet(claims, wallet)
        inForce == {id \in mine \ Superseded(claims, mine) :
                        /\ claims[id].ctype = "EncryptionKey"
                        /\ ClaimIsValid(claims[id], now)}
        Newer(i, j) == \/ claims[i].created_at > claims[j].created_at
                       \/ claims[i].created_at = claims[j].created_at /\ i >= j
    IN  IF inForce = {} THEN None
        ELSE CHOOSE i \in inForce : \A j \in inForce : Newer(i, j)

=============================================================================
