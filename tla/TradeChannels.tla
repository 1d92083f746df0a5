--------------------------- MODULE TradeChannels ----------------------------
(***************************************************************************)
(* The replicated index of trade channels (crate openfiat-tradechannel):   *)
(* who was handed a trade's channel key and the sealed entries its two     *)
(* parties wrote.  Both are authorized from the same node's settlement and *)
(* dispute registries: `settlements' maps ids to records with fields buyer *)
(* and seller, `disputes' ids to records with settlement_id and            *)
(* arbitrators.  A channel store is a record with two column families.     *)
(***************************************************************************)
EXTENDS Wire, Integers, FiniteSets, FiniteSetsExt

CONSTANTS PaddingBlock,         \* PADDING_BLOCK
          MaxEntryPlaintext,    \* MAX_ENTRY_PLAINTEXT
          MaxEntryCiphertext    \* MAX_ENTRY_CIPHERTEXT

LengthPrefix == 4               \* the u32 in front of a padded plaintext
PolyTag == 16                   \* the Poly1305 tag the cipher appends

EntryKind == {"PaymentDetails", "Message"}

NoChannels == [grants |-> EmptyStore, entries |-> EmptyStore]

\* grant_key and entry_key: length-prefixed, so two fields never run together.
GrantKey(e) == <<e.settlement, e.recipient, e.wallet>>
EntryKey(e) == <<e.settlement, e.wallet, e.sequence>>

IsParty(s, peer) == peer \in {s.buyer, s.seller}

\* party_key: the event is signed with the key the settlement records for
\* the party it names.
FromParty(settlements, e) ==
    /\ e.settlement \in DOMAIN settlements
    /\ IsParty(settlements[e.settlement], e.wallet)
    /\ SignedBy(e, e.wallet)

JoinedDispute(disputes, settlement, peer) ==
    \E d \in DOMAIN disputes :
        disputes[d].settlement_id = settlement /\ peer \in disputes[d].arbitrators

\* role_of: derived, never asserted by the granter; None refuses.
RoleOf(settlements, disputes, settlement, peer) ==
    IF IsParty(settlements[settlement], peer) THEN "Party"
    ELSE IF JoinedDispute(disputes, settlement, peer) THEN "Arbitrator" ELSE None

CanGrant(settlements, disputes, e) ==
    /\ FromParty(settlements, e)
    /\ RoleOf(settlements, disputes, e.settlement, e.recipient) /= None

Granted(channels, settlements, disputes, e) ==
    [channels EXCEPT !.grants = Put(@, GrantKey(e),
        [role |-> RoleOf(settlements, disputes, e.settlement, e.recipient),
         key_id |-> e.key_id, granted_at |-> e.timestamp])]

EntryOf(e) == [kind |-> e.entry, payload |-> e.payload, posted_at |-> e.timestamp]

\* An author writes once at each of their own sequence numbers; reposting the
\* same entry is a no-op.
SequenceFree(channels, e) ==
    EntryKey(e) \in DOMAIN channels.entries =>
        channels.entries[EntryKey(e)] = EntryOf(e)

CanPost(channels, settlements, e) ==
    /\ FromParty(settlements, e)
    /\ e.payload.length <= MaxEntryCiphertext
    /\ SequenceFree(channels, e)

Posted(channels, e) ==
    [channels EXCEPT !.entries = Put(@, EntryKey(e), EntryOf(e))]

CanApply(channels, settlements, disputes, e) ==
    \/ e.kind = "KeyGranted" /\ CanGrant(settlements, disputes, e)
    \/ e.kind = "EntryPosted" /\ CanPost(channels, settlements, e)

Apply(channels, settlements, disputes, e) ==
    IF ~CanApply(channels, settlements, disputes, e) THEN channels
    ELSE IF e.kind = "KeyGranted" THEN Granted(channels, settlements, disputes, e)
    ELSE Posted(channels, e)

\* TradeChannel: what one node renders for a settlement.
Readers(channels, settlement) ==
    {k[2] : k \in {g \in DOMAIN channels.grants : g[1] = settlement}}

EntriesOfKind(channels, settlement, kind) ==
    {k \in DOMAIN channels.entries :
        k[1] = settlement /\ channels.entries[k].kind = kind}

NextSequence(channels, settlement, author) ==
    LET own == {k \in DOMAIN channels.entries : k[1] = settlement /\ k[2] = author}
    IN  IF own = {} THEN 0 ELSE Max({k[3] + 1 : k \in own})

-----------------------------------------------------------------------------
\* pad, and the cipher text a plaintext of a given length becomes.
PaddedLength(n) ==
    ((LengthPrefix + n + PaddingBlock - 1) \div PaddingBlock) * PaddingBlock

\* seal_entry binds the cipher text to its slot; open_entry needs the same
\* key and the same slot.
SealEntry(key, settlement, author, sequence, kind, plaintext, length) ==
    [key |-> key, binding |-> <<settlement, author, sequence, kind>>,
     plaintext |-> plaintext, length |-> PaddedLength(length) + PolyTag]

OpensTo(key, e) ==
    IF /\ e.payload.key = key
       /\ e.payload.binding = <<e.settlement, e.wallet, e.sequence, e.entry>>
    THEN e.payload.plaintext ELSE None

=============================================================================
