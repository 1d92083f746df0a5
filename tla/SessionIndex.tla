---------------------------- MODULE SessionIndex ----------------------------
(***************************************************************************)
(* The replicated index of wallet sessions (crate openfiat-sessions).  A   *)
(* session is created once under its id; renewals and migrations carry a   *)
(* version that must move strictly forward, and each changes only its own  *)
(* field; revocation is permanent.                                         *)
(***************************************************************************)
EXTENDS Wire

CONSTANT SessionGrace           \* EXPIRED_GRACE

Session(Wal, Host, Version, Time) ==
    [wallet : Wal, host_node : Host, expires_at : Time,
     version : Version, revoked : BOOLEAN]

\* SignedSessionCreate::verify: the payload names the wallet its key derives to, and
\* that key signed it.
CreateVerifies(e) == SelfSigned(e)

CanCreate(sessions, e) == CreateVerifies(e) /\ e.id \notin DOMAIN sessions

Created(sessions, e) ==
    Put(sessions, e.id,
        [wallet |-> e.wallet, host_node |-> e.host_node,
         expires_at |-> e.expires_at, version |-> 0, revoked |-> FALSE])

\* What renew, revoke and migrate all ask: the session exists, its own
\* wallet signed, and it is not revoked.
OwnOpenSession(sessions, e) ==
    /\ e.id \in DOMAIN sessions
    /\ SignedBy(e, sessions[e.id].wallet)
    /\ ~sessions[e.id].revoked

\* Mutant: a renewal of any version is applied.
MovesForwardAny(sessions, e) == OwnOpenSession(sessions, e)

\* Renewals and migrations are refused unless their version is newer.
MovesForward(sessions, e) ==
    OwnOpenSession(sessions, e) /\ e.version > sessions[e.id].version

Renewed(sessions, e) ==
    [sessions EXCEPT ![e.id].expires_at = e.expires_at,
                     ![e.id].version = e.version]

SessionRevoked(sessions, e) == [sessions EXCEPT ![e.id].revoked = TRUE]

Migrated(sessions, e) ==
    [sessions EXCEPT ![e.id].host_node = e.host_node,
                     ![e.id].version = e.version]

CanApply(sessions, e) ==
    CASE e.kind = "SessionEstablished" -> CanCreate(sessions, e)
      [] e.kind = "SessionRevoked" -> OwnOpenSession(sessions, e)
      [] e.kind \in {"SessionRenewed", "SessionMigrated"} ->
            MovesForward(sessions, e)

Apply(sessions, e) ==
    IF ~CanApply(sessions, e) THEN sessions
    ELSE CASE e.kind = "SessionEstablished" -> Created(sessions, e)
           [] e.kind = "SessionRenewed"     -> Renewed(sessions, e)
           [] e.kind = "SessionRevoked"     -> SessionRevoked(sessions, e)
           [] e.kind = "SessionMigrated"    -> Migrated(sessions, e)

\* prune_expired keeps an expired session for a grace period.
PruneExpired(sessions, now) ==
    Without(sessions, {id \in DOMAIN sessions :
        sessions[id].expires_at < SaturatingSub(now, SessionGrace)})

=============================================================================
