---------------------------- MODULE SnapshotMesh ----------------------------
(***************************************************************************)
(* Snapshots between nodes: providers register, write their state to a     *)
(* file and announce it; a node without a checkpoint bootstraps from the   *)
(* newest announced snapshot that verifies, trying one after another; a    *)
(* node with a checkpoint may import a newer one from a provider whose     *)
(* stake it has read from the chain.                                       *)
(*                                                                         *)
(* A node's state is one record that gossip keeps at the newest version    *)
(* heard and the content blocks it holds.  The slot a snapshot is current  *)
(* as of is the time.  Registrations and announcements travel by gossip    *)
(* and arrive in any order; downloads fail or return damaged bytes; a      *)
(* crash during a restore, or between it and the checkpoint, leaves what   *)
(* was written without the checkpoint; the stake readings are memory.      *)
(***************************************************************************)
EXTENDS Wire, Integers

-----------------------------------------------------------------------------
(* The snapshot index of a node (crate openfiat-snapshot): announcements   *)
(* by registered providers, the stake readings that decide who may be      *)
(* imported from, the import pipeline, and production.                     *)
(*                                                                         *)
(* A snapshot body is a record: the column families it carries, as a       *)
(* function from names to stores.  Its state root is abstracted to the     *)
(* body itself, so that a download verifies when it is the body announced. *)

CONSTANTS Anchors,               \* TrustAnchors: the pinned producers
          MinimumProviderStake,  \* MINIMUM_PROVIDER_STAKE
          ObservationTtl,        \* STAKE_OBSERVATION_TTL
          MaxSnapshotBytes,      \* MAX_SNAPSHOT_BYTES
          SupportedVersion,      \* SUPPORTED_PROTOCOL_VERSION
          Retain,                \* DEFAULT_RETAIN
          Peers,                 \* the nodes
          Settings               \* what a behavior starts from, see below

-----------------------------------------------------------------------------
(* Stake readings: what this node has read from the chain.                 *)

\* ProviderStakes::enforcing and ::unenforceable.
NoStakes(enforced) ==
    [enforced |-> enforced, required |-> MinimumProviderStake, seen |-> EmptyStore]

Larger(a, b) == IF a >= b THEN a ELSE b

\* observe_requirement: governance's figure, never below the node's floor.
ObserveRequirement(stakes, minimum) ==
    [stakes EXCEPT !.required = Larger(minimum, MinimumProviderStake)]

\* observe and forget, of several providers: a reading is an amount and when it was read.
Observe(stakes, readings) ==
    [stakes EXCEPT !.seen = [p \in DOMAIN readings \cup DOMAIN stakes.seen |->
        IF p \in DOMAIN readings THEN readings[p] ELSE stakes.seen[p]]]

Forget(stakes, providers) == [stakes EXCEPT !.seen = Without(stakes.seen, providers)]

\* Mutant: a reading never ages out.
StandingForever(stakes, provider, now) ==
    CASE ~stakes.enforced -> "Unenforceable"
      [] stakes.enforced /\ provider \notin DOMAIN stakes.seen -> "Unread"
      [] OTHER -> IF stakes.seen[provider].amount >= stakes.required
                  THEN "Qualified" ELSE "Insufficient"

\* ProviderStakes::standing
Standing(stakes, provider, now) ==
    IF ~stakes.enforced THEN "Unenforceable"
    ELSE IF \/ provider \notin DOMAIN stakes.seen
            \/ SaturatingSub(now, stakes.seen[provider].at) > ObservationTtl
         THEN "Unread"
         ELSE IF stakes.seen[provider].amount >= stakes.required
              THEN "Qualified" ELSE "Insufficient"

\* poll_provider_stake: the accounts at the derived addresses of the providers whose
\* request was answered, None when the cluster has none there.  What is not a stake
\* account of the provider's is not read as zero.
PolledStakes(stakes, accounts, now) ==
    LET read == {p \in DOMAIN accounts : accounts[p] = None \/ accounts[p].decodes}
    IN  Observe(Forget(stakes, DOMAIN accounts \ read),
                [p \in read |->
                    [amount |-> IF accounts[p] = None THEN 0 ELSE accounts[p].amount,
                     at |-> now]])

-----------------------------------------------------------------------------
(* The index.                                                              *)

NoIndex == [announced |-> EmptyStore, checkpoint |-> None]

RegisteredSnapshotProvider(services, producer) ==
    \E id \in DOMAIN services :
        /\ services[id].provider = producer
        /\ services[id].stype = "SnapshotProvider"

\* SignedSnapshotAnnounce::verify: the payload names the producer its key derives to, and
\* that key signed it.
AnnounceVerifies(m) == SelfSigned(m)

\* apply_announce: only a known shortfall is refused here.
CanAnnounce(index, services, stakes, m, now) ==
    /\ AnnounceVerifies(m)
    /\ RegisteredSnapshotProvider(services, m.wallet)
    /\ Standing(stakes, m.wallet, now) /= "Insufficient"
    /\ m.id \notin DOMAIN index.announced

Announce(index, services, stakes, m, now) ==
    IF ~CanAnnounce(index, services, stakes, m, now) THEN index
    ELSE [index EXCEPT !.announced = Put(index.announced, m.id, m)]

\* latest(): a snapshot of the highest slot known.
Latest(index) ==
    {id \in DOMAIN index.announced : \A other \in DOMAIN index.announced :
        index.announced[id].slot >= index.announced[other].slot}

\* The two trust gates of import: an anchor for the first snapshot, then an
\* anchor or a stake read recently and found sufficient.
TrustedForImport(index, stakes, producer, now) ==
    \/ producer \in Anchors
    \/ /\ index.checkpoint /= None
       /\ Standing(stakes, producer, now) = "Qualified"

\* Mutant: an import does not look at the checkpoint.
MayImportOlder(index, services, stakes, id, now) ==
    /\ id \in DOMAIN index.announced
    /\ LET m == index.announced[id]
       IN  /\ m.protocol_version = SupportedVersion
           /\ RegisteredSnapshotProvider(services, m.wallet)
           /\ TrustedForImport(index, stakes, m.wallet, now)
           /\ m.size_bytes <= MaxSnapshotBytes
           /\ m.compression /= "Zstd"

\* The checks import makes before it looks at any byte.
MayImport(index, services, stakes, id, now) ==
    /\ id \in DOMAIN index.announced
    /\ LET m == index.announced[id]
       IN  /\ m.protocol_version = SupportedVersion
           /\ RegisteredSnapshotProvider(services, m.wallet)
           /\ TrustedForImport(index, stakes, m.wallet, now)
           /\ index.checkpoint /= None => m.slot > index.checkpoint
           /\ m.size_bytes <= MaxSnapshotBytes
           /\ m.compression /= "Zstd"

\* RESERVED_COLUMN_FAMILIES
Reserved == {"snapshot_metadata", "snapshot_checkpoint"}

\* verify_snapshot_entry: content blocks must hash to their key; a block is
\* the CID its bytes hash to.
EntryVerifies(family, key, value) == family = "pinned_content" => value = key

\* Mutant: the bytes a mirror sends are written without comparing them with
\* the announced root.
BodyVerifiesUnread(m, body) ==
    /\ DOMAIN body \cap Reserved = {}

\* Size, then digest, then restore's two checks over the whole body.
BodyVerifies(m, body) ==
    /\ body = m.state_root
    /\ DOMAIN body \cap Reserved = {}
    /\ \A f \in DOMAIN body : \A k \in DOMAIN body[f] : EntryVerifies(f, k, body[f][k])

\* restore: every entry of the body is put over what the store has.
Restored(families, body) ==
    [f \in DOMAIN families \cup DOMAIN body |->
        LET old == IF f \in DOMAIN families THEN families[f] ELSE EmptyStore
            new == IF f \in DOMAIN body THEN body[f] ELSE EmptyStore
        IN  [k \in DOMAIN old \cup DOMAIN new |->
                IF k \in DOMAIN new THEN new[k] ELSE old[k]]]

\* The checkpoint moves last.
Checkpointed(index, id) == [index EXCEPT !.checkpoint = index.announced[id].slot]

\* recency: slot, then creation time.
NewerThan(a, b) ==
    a.slot > b.slot \/ (a.slot = b.slot /\ a.created_at > b.created_at)

\* prune_superseded: the newest announcement of each producer survives, of
\* equally recent ones the one the store lists first.
NewestOf(known, producer) ==
    LET own == {id \in DOMAIN known : known[id].wallet = producer}
    IN  {id \in own : \A other \in own : ~NewerThan(known[other], known[id])}

Superseded(known) ==
    {id \in DOMAIN known : id /= CHOOSE first \in NewestOf(known, known[id].wallet) : TRUE}

PruneSuperseded(index) ==
    [index EXCEPT !.announced = Without(index.announced, Superseded(index.announced))]

-----------------------------------------------------------------------------
(* Production and bootstrap.                                               *)

\* SnapshotConfig::locations: the override, else what is derived from the
\* reachable addresses unless the server answers on loopback only.
Locations(public_urls, loopback, reachable) ==
    IF public_urls /= {} THEN public_urls
    ELSE IF loopback THEN {} ELSE reachable

\* produce writes the file, then prunes the directory to the newest Retain.
FilesAfter(files, m) ==
    LET all == files \cup {m}
    IN  {f \in all : Cardinality({g \in all : NewerThan(g, f)}) < Retain}

\* poll_snapshot_bootstrap: everyone's announcements but one's own, highest
\* slot first.
ByOthers(index, local) == {m \in Records(index.announced) : m.wallet /= local}

\* Mutant: only the newest announcement is ever tried.
CandidatesNewest(index, local) ==
    {m \in ByOthers(index, local) : \A o \in ByOthers(index, local) : m.slot >= o.slot}

Candidates(index, local) == ByOthers(index, local)

-----------------------------------------------------------------------------
(* A setting: who produces and when, who joins and imports, whose stake    *)
(* readings are enforced, the announcements of providers whose own store   *)
(* is damaged, the stakes and what governance requires of them, how far    *)
(* the record and the clock go, and how many faults may happen.            *)

ASSUME SnapshotAssumption ==
    /\ None \notin Nat
    /\ MinimumProviderStake \in Nat \ {0} /\ ObservationTtl \in Nat
    /\ \A s \in Settings :
          /\ s.joiners \cup s.producers \subseteq Peers
          /\ s.requirement \in Nat
          /\ \A p \in DOMAIN s.stake : s.stake[p] \in Nat
          /\ \A m \in s.foreign : m.slot \in Nat /\ m.created_at \in Nat

VARIABLES setting, families, index, services, stakes, files,
          announced,          \* the announcements gossip carries
          bonded,             \* provider -> stake on the chain
          held,               \* ghost: the stakes the chain has shown, and when
          imported,           \* ghost: what was imported from whom, and when
          version, failures, time

meshVars == <<setting, families, index, services, stakes, files, announced, bonded,
              held, imported, version, failures, time>>

Worldview(v, blocks) == [records |-> [r |-> v], pinned_content |-> blocks]

\* What the chain shows at a time.
Holdings(stake, t) ==
    {[provider |-> p, amount |-> stake[p], at |-> t] : p \in DOMAIN stake}

\* What a stake must be: governance's figure, or this code's floor.
Required == Larger(setting.requirement, MinimumProviderStake)

SnapshotInit ==
    /\ setting \in Settings
    /\ families = [n \in Peers |-> Worldview(0, EmptyStore)]
    /\ index = [n \in Peers |-> NoIndex]
    /\ services = [n \in Peers |-> EmptyStore]
    /\ stakes = [n \in Peers |-> NoStakes(n \in setting.enforced)]
    /\ files = [n \in Peers |-> {}]
    /\ announced = setting.foreign
    /\ bonded = setting.stake
    /\ held = Holdings(bonded, 0)
    /\ imported = {}
    /\ version = 0 /\ failures = 0 /\ time = 0

Service(provider) == [provider |-> provider, stype |-> "SnapshotProvider"]

\* Someone publishes a newer version of the record.
PublishRecord ==
    /\ version < setting.versions
    /\ version' = version + 1
    /\ UNCHANGED <<setting, families, index, services, stakes, files, announced, bonded,
                   held, imported, failures, time>>

\* Gossip brings the record up to date at one node.
HearRecord(n) ==
    /\ families[n]["records"]["r"] < version
    /\ families' = [families EXCEPT ![n]["records"]["r"] = version]
    /\ UNCHANGED <<setting, index, services, stakes, files, announced, bonded, held,
                   imported, version, failures, time>>

\* Gossip brings a provider's registration.
HearService(n, p) ==
    /\ p \notin DOMAIN services[n]
    /\ services' = [services EXCEPT ![n] = Put(services[n], p, Service(p))]
    /\ UNCHANGED <<setting, families, index, stakes, files, announced, bonded, held,
                   imported, version, failures, time>>

\* Gossip brings an announcement; one refused is not kept for later.
HearAnnounce(n, m) ==
    /\ index' = [index EXCEPT ![n] = Announce(index[n], services[n], stakes[n], m, time)]
    /\ UNCHANGED <<setting, families, services, stakes, files, announced, bonded, held,
                   imported, version, failures, time>>

\* producer::produce: the node's own column families under the current slot.
Produced(n) ==
    [id |-> <<n, time>>, wallet |-> n, signer |-> n, slot |-> time, created_at |-> time,
     protocol_version |-> SupportedVersion, state_root |-> families[n],
     size_bytes |-> 1, compression |-> "Gzip"]

\* announce_produced: what one's own index refuses is not gossiped.
AnnounceProduced(n, known, m) ==
    /\ index' = [index EXCEPT ![n] = Announce(index[n], known, stakes[n], m, time)]
    /\ announced' = IF CanAnnounce(index[n], known, stakes[n], m, time)
                    THEN announced \cup {m} ELSE announced

\* poll_snapshot_production: register, write the file, prune the directory,
\* announce it in one's own index and to the network.
Produce(n) ==
    LET m == Produced(n)
        known == Put(services[n], n, Service(n))
    IN  /\ <<n, time>> \in setting.timer /\ Locations({}, FALSE, {n}) /= {}
        /\ m.id \notin {f.id : f \in files[n]} /\ m.size_bytes <= MaxSnapshotBytes
        /\ services' = [services EXCEPT ![n] = known]
        /\ files' = [files EXCEPT ![n] = FilesAfter(files[n], m)]
        /\ AnnounceProduced(n, known, m)
        /\ UNCHANGED <<setting, families, stakes, bonded, held, imported, version,
                       failures, time>>

Account(p) == IF p \in DOMAIN bonded THEN [decodes |-> TRUE, amount |-> bonded[p]] ELSE None

\* poll_provider_stake on a node with a chain connection: the requirement if the
\* endpoint answers for it, then the stake account of every registered provider that it
\* answers for.  Where it does not answer, the reading there is ages.
PollProviderStake(n, governed, answered) ==
    /\ stakes[n].enforced
    /\ stakes' = [stakes EXCEPT ![n] =
          PolledStakes(IF governed THEN ObserveRequirement(stakes[n], setting.requirement)
                                   ELSE stakes[n],
                       [p \in answered |-> Account(p)], time)]
    /\ UNCHANGED <<setting, families, index, services, files, announced, bonded, held,
                   imported, version, failures, time>>

\* A provider withdraws its stake on the chain.
Unstake(p) ==
    /\ bonded[p] > 0
    /\ bonded' = [bonded EXCEPT ![p] = 0]
    /\ held' = held \cup Holdings(bonded', time)
    /\ UNCHANGED <<setting, families, index, services, stakes, files, announced,
                   imported, version, failures, time>>

-----------------------------------------------------------------------------
(* Imports.                                                                *)

\* What the mirrors of an announcement serve: the body while its producer
\* keeps the file, something else, or nothing.
OnFile(m) == m \in setting.foreign \/ m \in UNION {files[p] : p \in Peers}

Served(m, bad) ==
    IF m.id \in bad THEN Worldview(0, EmptyStore)
    ELSE IF OnFile(m) THEN m.state_root ELSE None

\* Whether import takes these bytes for this announcement.
Imports(n, m, body) ==
    /\ body /= None
    /\ MayImport(index[n], services[n], stakes[n], m.id, time)
    /\ BodyVerifies(m, body)

Import(n, m, body) ==
    /\ families' = [families EXCEPT ![n] = Restored(families[n], body)]
    /\ index' = [index EXCEPT ![n] = Checkpointed(index[n], m.id)]
    /\ imported' = imported \cup {[node |-> n, from |-> m.wallet, at |-> time,
                                   first |-> index[n].checkpoint = None,
                                   required |-> stakes[n].required]}

\* The candidates in turn until one imports: the announcements that may be the one,
\* those of the highest slot among the importable.  `bad' are those whose mirrors fail.
Importable(n, bad) ==
    LET good == {m \in Candidates(index[n], n) : Imports(n, m, Served(m, bad))}
    IN  {m \in good : \A o \in good : m.slot >= o.slot}

\* poll_snapshot_bootstrap, while there is no checkpoint.
Bootstrap(n, bad) ==
    /\ index[n].checkpoint = None
    /\ \E m \in Importable(n, bad) : Import(n, m, Served(m, bad))
    /\ UNCHANGED <<setting, services, stakes, files, announced, bonded, held,
                   version, time>>

BootstrapClean(n) == Bootstrap(n, {}) /\ UNCHANGED failures

BootstrapDamaged(n) ==
    /\ failures < setting.faults /\ failures' = failures + 1
    /\ \E bad \in SUBSET DOMAIN index[n].announced : Bootstrap(n, bad)

\* The entries of a body that restore had put, of those it puts one by one.
Entries(body) == UNION {{f} \X DOMAIN body[f] : f \in DOMAIN body}

Part(body, put) ==
    [f \in DOMAIN body |->
        [k \in {key \in DOMAIN body[f] : <<f, key>> \in put} |-> body[f][k]]]

\* Mutant: the checkpoint is written before the state.
BootstrapCrashCheckpointFirst(n) ==
    /\ failures < setting.faults /\ failures' = failures + 1
    /\ index[n].checkpoint = None
    /\ \E m \in Importable(n, {}) : \E put \in SUBSET Entries(Served(m, {})) :
          /\ families' = [families EXCEPT ![n] = Restored(families[n], Part(Served(m, {}), put))]
          /\ index' = [index EXCEPT ![n] = Checkpointed(index[n], m.id)]
    /\ stakes' = [stakes EXCEPT ![n] = NoStakes(stakes[n].enforced)]
    /\ UNCHANGED <<setting, services, files, announced, bonded, held,
                   imported, version, time>>

\* The same, with a crash while the state is written or before the checkpoint
\* is; what was in memory goes with it.
BootstrapCrash(n) ==
    /\ failures < setting.faults /\ failures' = failures + 1
    /\ index[n].checkpoint = None
    /\ \E m \in Importable(n, {}) : \E put \in SUBSET Entries(Served(m, {})) :
          families' = [families EXCEPT ![n] = Restored(families[n], Part(Served(m, {}), put))]
    /\ stakes' = [stakes EXCEPT ![n] = NoStakes(stakes[n].enforced)]
    /\ UNCHANGED <<setting, index, services, files, announced, bonded, held,
                   imported, version, time>>

\* SnapshotService::import of an announcement this node holds: a library call, that the
\* node's own loop makes no more once it has a checkpoint.
ImportKnown(n, m) ==
    /\ Imports(n, m, Served(m, {}))
    /\ Import(n, m, Served(m, {}))
    /\ UNCHANGED <<setting, services, stakes, files, announced, bonded, held,
                   version, failures, time>>

\* poll_snapshot_index_pruning
PruneIndex(n) ==
    /\ PruneSuperseded(index[n]) /= index[n]
    /\ index' = [index EXCEPT ![n] = PruneSuperseded(index[n])]
    /\ UNCHANGED <<setting, families, services, stakes, files, announced, bonded, held,
                   imported, version, failures, time>>

TimePasses ==
    /\ time < setting.last
    /\ time' = time + 1
    /\ held' = held \cup Holdings(bonded, time + 1)
    /\ UNCHANGED <<setting, families, index, services, stakes, files, announced, bonded,
                   imported, version, failures>>

SnapshotNext ==
    \/ PublishRecord
    \/ \E n \in setting.joiners \cup setting.producers : HearRecord(n) \/ PruneIndex(n)
    \/ \E n \in setting.joiners :
          \/ \E p \in setting.producers \cup {m.wallet : m \in setting.foreign} : HearService(n, p)
          \/ \E m \in announced : HearAnnounce(n, m)
          \/ \E m \in Records(index[n].announced) : ImportKnown(n, m)
          \/ \E governed \in BOOLEAN, answered \in SUBSET DOMAIN services[n] :
                PollProviderStake(n, governed, answered)
          \/ BootstrapClean(n) \/ BootstrapDamaged(n) \/ BootstrapCrash(n)
    \/ \E n \in setting.producers : Produce(n)
    \/ \E p \in DOMAIN bonded : Unstake(p)
    \/ TimePasses

SnapshotSpec == SnapshotInit /\ [][SnapshotNext]_meshVars

-----------------------------------------------------------------------------
(* Properties.                                                             *)

\* Every import was from someone the node had reason to trust: the first from
\* a pinned anchor, any later one from an anchor or from a provider whose
\* stake on the chain reached what the node requires no longer ago than a
\* reading may stand (import, ProviderStakes::standing).
ImportsTrusted ==
    \A i \in imported : i.from \notin Anchors =>
        /\ ~i.first
        /\ i.required \in {MinimumProviderStake, Required}
        /\ \E h \in held : /\ h.provider = i.from /\ h.amount >= i.required
                          /\ h.at <= i.at /\ i.at - h.at <= ObservationTtl

\* No node holds a block under a name its bytes do not hash to, whatever a
\* provider's store or a mirror delivers (verify_snapshot_entry, restore).
BlocksAreGenuine ==
    \A n \in Peers : LET blocks == families[n]["pinned_content"]
                     IN  \A cid \in DOMAIN blocks : blocks[cid] = cid

\* The checkpoint only moves to a later slot (import's staleness check), and
\* no sweep forgets the newest snapshot a node knows of (prune_superseded).
CheckpointMovesForward ==
    \A n \in Peers :
        /\ index[n].checkpoint /= None =>
              index'[n].checkpoint /= None /\ index'[n].checkpoint >= index[n].checkpoint
        /\ \A id \in Latest(index[n]) : \E newest \in Latest(index'[n]) :
              index'[n].announced[newest].slot >= index[n].announced[id].slot

\* Every entry of a body is in a store.
Holds(store, body) ==
    \A f \in DOMAIN body : \A k \in DOMAIN body[f] :
        f \in DOMAIN store /\ k \in DOMAIN store[f] /\ store[f][k] = body[f][k]

\* A checkpoint moves only once all of the announced state it stands for is
\* written, wherever the node stops in between ("a checkpoint advanced ahead of
\* the state would tell this node's gossip catch-up to resume from a slot whose
\* state it does not have", import).
CheckpointFollowsState ==
    \A n \in Peers : index'[n].checkpoint /= index[n].checkpoint =>
        \E m \in Records(index[n].announced) :
            m.slot = index'[n].checkpoint /\ Holds(families'[n], m.state_root)

\* A node's first import is from a pinned anchor, any later one from an anchor
\* or from a provider whose stake sufficed on the chain no longer ago than a
\* reading may stand, however readings, withdrawals and announcements were
\* interleaved.  It never leaves a block under a name its bytes do not hash
\* to, never moves the checkpoint back, and moves it only over the whole state
\* (import, ProviderStakes::standing, verify_snapshot_entry).  The node itself
\* imports once, to bootstrap; any later import is a call of
\* SnapshotService::import, which the library offers its embedder.
ImportsAreTrusted ==
    /\ [](ImportsTrusted /\ BlocksAreGenuine)
    /\ [][CheckpointMovesForward /\ CheckpointFollowsState]_meshVars

Fetchable(n) ==
    \E m \in Records(index[n].announced) :
        m.wallet \in Anchors \ {n} /\ Imports(n, m, Served(m, {}))

=============================================================================
