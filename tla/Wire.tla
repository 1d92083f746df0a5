-------------------------------- MODULE Wire --------------------------------
(***************************************************************************)
(* What every replicated registry of a node shares: the key-value store    *)
(* its records live in, the envelope an event travels in, and the two ways *)
(* a payload's signature is judged.                                        *)
(*                                                                         *)
(* A registry is a function from the ids it holds to records.  An event is *)
(* a record whose field `kind' is its event type and whose field `signer'  *)
(* is the wallet whose key produced the signature; cryptography is         *)
(* abstracted to who signed.                                               *)
(***************************************************************************)
EXTENDS Naturals, FiniteSets

CONSTANT None                 \* the absent Option<_>

\* An empty column family.
EmptyStore == [x \in {} |-> None]

\* KvStore::put under a key: insert or overwrite.
Put(store, key, value) ==
    [x \in DOMAIN store \cup {key} |-> IF x = key THEN value ELSE store[x]]

\* KvStore::delete of a set of keys.
Without(store, keys) == [x \in DOMAIN store \ keys |-> store[x]]

\* The records of a scan that satisfy nothing in particular: iter_prefix.
Records(store) == {store[x] : x \in DOMAIN store}

\* A payload that carries its own public key: the wallet it names must be
\* the one the key derives to, and that key must have signed it.
SelfSigned(e) == e.signer = e.wallet

\* A payload judged by a key already on file for the record it touches.
SignedBy(e, wallet) == e.wallet = wallet /\ e.signer = wallet

\* Timestamp arithmetic saturates at zero.
SaturatingSub(a, b) == IF a >= b THEN a - b ELSE 0

=============================================================================
