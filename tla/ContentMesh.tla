---------------------------- MODULE ContentMesh -----------------------------
(***************************************************************************)
(* Content serving between nodes: clients upload blocks to one node, the   *)
(* records that name them arrive by gossip, and on every pinning tick a    *)
(* node drops what nothing names any more, asks its peers for what it      *)
(* misses, goes to a gateway for what no peer answered, announces what it  *)
(* can serve in full and challenges one peer.  What the node hears and     *)
(* what its challenges prove goes into its liveness ledger, from which an  *)
(* operator pays completed epochs.                                         *)
(*                                                                         *)
(* Bitswap messages are sent once and never acknowledged: they may be      *)
(* lost, and a reply may arrive after the want that caused it is gone.     *)
(* The wants, the grace of an upload, the announcements and the ledger are *)
(* memory and die with the process; blocks and records are on disk.        *)
(*                                                                         *)
(* A ledger maps an epoch to what was seen of each peer in it (crate       *)
(* openfiat-rewards).  Time is in ticks; amounts and basis points are the  *)
(* code's integers.                                                        *)
(***************************************************************************)
EXTENDS ContentStore

-----------------------------------------------------------------------------
(* Rewards: the parameters, what a node observes, and the schedule.         *)

CONSTANTS BpsDenominator,       \* BPS_DENOMINATOR, 10000 in the code
          EpochTicks,           \* RewardParams::epoch_millis
          Buckets,              \* availability_buckets
          Emission,             \* per_epoch_emission
          RpcBps, GossipBps,    \* connectivity multipliers
          ServingBps, AbsentBps, \* pinning multipliers
          MinNodeStake,         \* min_stake
          ObservationEpochs     \* REWARD_OBSERVATION_EPOCHS

\* RewardParams::validate
RewardParamsValid ==
    /\ EpochTicks \in Nat \ {0} /\ Buckets \in Nat \ {0}
    /\ \A bps \in {RpcBps, GossipBps, ServingBps, AbsentBps} : bps \in 0..BpsDenominator

AtLeastOne(x) == IF x = 0 THEN 1 ELSE x

Capped(x, y) == IF x <= y THEN x ELSE y

EpochIndex(at) == at \div EpochTicks

EpochStart(epoch) == epoch * EpochTicks

-----------------------------------------------------------------------------
(* The ledger.                                                             *)

Unseen == [buckets_seen |-> {}, announced_blockhash |-> FALSE, served_content |-> FALSE]

PeerLiveness(peers, buckets) ==
    [peers -> [buckets_seen : SUBSET buckets, announced_blockhash : BOOLEAN,
               served_content : BOOLEAN]]

\* LivenessLedger::epoch
EpochOf(ledger, epoch) == IF epoch \in DOMAIN ledger THEN ledger[epoch] ELSE EmptyStore

SeenOf(ledger, epoch, peer) ==
    LET peers == EpochOf(ledger, epoch)
    IN  IF peer \in DOMAIN peers THEN peers[peer] ELSE Unseen

BucketOf(at) ==
    LET bucket == (at - EpochStart(EpochIndex(at))) \div AtLeastOne(EpochTicks \div Buckets)
    IN  IF bucket < Buckets THEN bucket ELSE Buckets - 1

\* observe: filed under the epoch of the time the event claims.
ObservePeer(ledger, peer, at, announcement) ==
    LET epoch == EpochIndex(at)
        seen  == SeenOf(ledger, epoch, peer)
    IN  Put(ledger, epoch, Put(EpochOf(ledger, epoch), peer,
            [buckets_seen |-> seen.buckets_seen \cup {BucketOf(at)},
             announced_blockhash |-> seen.announced_blockhash \/ announcement,
             served_content |-> seen.served_content]))

\* observe_content_served
ContentServed(ledger, peer, at) ==
    LET seen == ObservePeer(ledger, peer, at, FALSE)
    IN  [seen EXCEPT ![EpochIndex(at)][peer].served_content = TRUE]

\* prune_through, as poll_reward_observation_pruning calls it.
Pruned(ledger, now) ==
    IF EpochIndex(now) < ObservationEpochs + 1 THEN ledger
    ELSE Without(ledger, {e \in DOMAIN ledger : e <= EpochIndex(now) - (ObservationEpochs + 1)})

-----------------------------------------------------------------------------
(* The schedule.                                                           *)

AvailabilityBps(live) ==
    (Capped(Cardinality(live.buckets_seen), Buckets) * BpsDenominator) \div Buckets

ConnectivityBps(live) == IF live.announced_blockhash THEN RpcBps ELSE GossipBps

PinningBps(live) == IF live.served_content THEN ServingBps ELSE AbsentBps

\* The three multipliers collapse to one factor before they meet the stake.
QualityBps(live) ==
    (ConnectivityBps(live) * AvailabilityBps(live) * PinningBps(live))
        \div (BpsDenominator * BpsDenominator)

\* Who may be weighed: known, registered, staked above the floor, and on a
\* stake account no other candidate names.
Weighable(eligibility, peer) ==
    /\ peer \in DOMAIN eligibility
    /\ eligibility[peer].registered
    /\ eligibility[peer].effective_stake >= MinNodeStake
    /\ \A other \in DOMAIN eligibility \ {peer} :
          eligibility[other].stake_account /= eligibility[peer].stake_account

Weight(eligibility, peers, peer) ==
    IF Weighable(eligibility, peer)
    THEN eligibility[peer].effective_stake * QualityBps(peers[peer]) ELSE 0

\* The amount of each observed peer out of an emission; what truncation
\* leaves is dust.
Schedule(ledger, eligibility, epoch, emission) ==
    LET peers == EpochOf(ledger, epoch)
        total == SumFunction([p \in DOMAIN peers |-> Weight(eligibility, peers, p)])
        amount(p) == IF total = 0 THEN 0
                     ELSE (emission * Weight(eligibility, peers, p)) \div total
        entries == [p \in {q \in DOMAIN peers : amount(q) > 0} |-> amount(p)]
    IN  [epoch |-> epoch, emission |-> emission, entries |-> entries,
         dust |-> emission - SumFunction(entries)]

\* Mutant: a full epoch is paid whatever is left of the bucket.
ComputeUncapped(ledger, eligibility, epoch, remaining) ==
    Schedule(ledger, eligibility, epoch, Emission)

\* compute: emission is capped by what is left of the bucket.
Compute(ledger, eligibility, epoch, remaining) ==
    Schedule(ledger, eligibility, epoch, Capped(Emission, remaining))

\* payable_epochs: complete, held and not paid yet.
PayableEpochs(ledger, paid, now) ==
    {e \in DOMAIN ledger : e < EpochIndex(now) /\ e \notin paid}

-----------------------------------------------------------------------------
(* The nodes                                                               *)

CONSTANTS Hosts,               \* the nodes
          Workloads,           \* what a behavior starts from, see below
          PinningInterval      \* PINNING_INTERVAL, in ticks of the clock

(* A workload: the nodes that serve content and the retention of each, the *)
(* attachments, avatar claims and announcements that gossip will carry,    *)
(* the uploads clients will make, what the public gateway has, how many    *)
(* faults may happen, and the last tick.  Ledgers are followed on the      *)
(* nodes an operator pays from.                                            *)

ASSUME ContentAssumption ==
    /\ RewardParamsValid /\ BpsDenominator \in Nat \ {0} /\ Emission \in Nat
    /\ \A w \in Workloads :
          /\ w.listening \cup w.payers \subseteq Hosts
          /\ w.bucket \in Nat
          /\ \A e \in w.events : e.timestamp \in Nat
          /\ \A p \in DOMAIN w.eligibility : w.eligibility[p].effective_stake \in Nat

VARIABLES workload, content, attachments, avatars, streams, ledger, paid,
          due,                 \* when each node's pinning timer fires next
          heard,               \* the gossip events each node has been told of
          uploaded,            \* how many uploads have been made
          mishaps, clock

contentVars == <<workload, content, attachments, avatars, streams, ledger, paid,
                 due, heard, uploaded, mishaps, clock>>

ContentInit ==
    /\ workload \in Workloads
    /\ content = [n \in Hosts |-> NoContent]
    /\ attachments = [n \in Hosts |-> EmptyStore]
    /\ avatars = [n \in Hosts |-> {}]
    /\ streams = {}
    /\ ledger = [n \in Hosts |-> EmptyStore]
    /\ paid = [epochs |-> {}, left |-> workload.bucket, owed |-> EmptyStore]
    /\ due = [n \in Hosts |-> 0]
    /\ heard = [n \in Hosts |-> {}]
    /\ uploaded = 0
    /\ mishaps = 0
    /\ clock = 0

ValidAvatars(n) == {a.cid : a \in {x \in avatars[n] : clock < x.expires}}

Wanted(n) ==
    ContentWanted(content[n], attachments[n], ValidAvatars(n), workload.retention[n], clock)

-----------------------------------------------------------------------------
(* Clients and gossip.                                                     *)

\* sendContentPut at one node; the caller chooses the bytes, not the key.
PutContent ==
    LET u == workload.uploads[uploaded + 1]
    IN  /\ uploaded < Len(workload.uploads)
        /\ content' = [content EXCEPT ![u.node] = ContentPut(@, u.cid, u.bytes, clock)]
        /\ uploaded' = uploaded + 1
        /\ UNCHANGED <<workload, attachments, avatars, streams, ledger, paid, due, heard,
                       mishaps, clock>>

\* An envelope reaches a node: its origin was present at the time it claims,
\* and its payload is applied to the registry it belongs to.
Hear(n, e) ==
    /\ e \notin heard[n]
    /\ heard' = [heard EXCEPT ![n] = @ \cup {e}]
    /\ ledger' = [ledger EXCEPT ![n] =
                     IF n \in workload.payers
                     THEN ObservePeer(ledger[n], e.origin, e.timestamp,
                                      e.kind = "BlockhashAnnounced")
                     ELSE ledger[n]]
    /\ attachments' = [attachments EXCEPT ![n] =
                          IF e.kind = "AttachmentPublished" THEN Apply(@, e) ELSE @]
    /\ avatars' = [avatars EXCEPT ![n] =
                      IF e.kind = "ClaimPublished"
                      THEN @ \cup {[cid |-> e.cid, expires |-> e.expires]} ELSE @]
    /\ UNCHANGED <<workload, content, streams, paid, due, uploaded, mishaps, clock>>

-----------------------------------------------------------------------------
(* The pinning tick.                                                       *)

Message(from, to, wants, blocks) ==
    [from |-> from, to |-> to, wants |-> wants, blocks |-> blocks]

\* challenge_peer: the peer answers getHeldContent with the block it holds,
\* or does not answer.  A node that drew its own endpoint waits for itself
\* until the request times out.
Response(n, peer, cid, answers) ==
    IF answers /\ peer /= n /\ cid \in content[peer].held THEN cid ELSE None

\* poll_content_challenges: only a verified answer is recorded.
Challenged(n, peer, cid, answers) ==
    IF Judge(cid, Response(n, peer, cid, answers)) = "Served"
    THEN ContentServed(ledger[n], peer, clock) ELSE ledger[n]

ChallengePool(n) ==
    IF n \in workload.payers THEN Challengeable(attachments[n], clock) ELSE <<>>

\* poll_content, on a node that serves: evict, list what is missing, ask the
\* peers, and take from the gateway what they did not answer last time.
\* `available' is what the gateway has to answer with.
PollContent(n, available) ==
    \E wanted  \in {Wanted(n)} :
    \E held    \in {EvictOutside(content[n].held, wanted)} :
    \E missing \in {MissingOf(held, wanted)} :
    \E order   \in Orders(content[n].wants \cap missing) :
    \E after   \in {FromGateway(Swept(content[n], held, missing, clock), available, order)} :
        /\ content' = [content EXCEPT ![n] = Announced(after, wanted)]
        /\ streams' = streams \cup
               {Message(n, p, Wantlist(missing), {}) :
                   p \in IF missing = {} THEN {} ELSE workload.serving \ {n}}

\* The pinning arm of the actor loop: content, then one challenge of a peer
\* and a file that the clock draws.
PinningTick(n, available, answers) ==
    /\ clock >= due[n] \/ clock = workload.last
    /\ \/ n \in workload.serving /\ PollContent(n, available)
       \/ n \notin workload.serving /\ UNCHANGED <<content, streams>>
    /\ \/ ChallengePool(n) = <<>> /\ UNCHANGED ledger
       \/ \E peer \in workload.serving, seed \in DOMAIN ChallengePool(n) :
             ledger' = [ledger EXCEPT ![n] =
                 Challenged(n, peer, SelectChallenge(ChallengePool(n), seed), answers)]
    /\ due' = [due EXCEPT ![n] = clock + PinningInterval]
    /\ UNCHANGED <<workload, attachments, avatars, paid, heard, uploaded, clock>>

\* The tick when everyone answers, and with the gateway and the challenged
\* peer out of reach.  The first comes at once, then one per interval; the
\* timer goes on after the last instant the clock counts to.
Pin(n) == PinningTick(n, workload.gateway, TRUE) /\ UNCHANGED mishaps

PinAlone(n) ==
    mishaps < workload.faults /\ PinningTick(n, {}, FALSE) /\ mishaps' = mishaps + 1

\* on_bitswap: keep the blocks asked for, then answer what is wanted.
OnBitswap(m) ==
    LET c     == BlocksTaken(content[m.to], m.blocks)
        reply == Respond(c.held, m.wants)
    IN  /\ m \in streams
        /\ content' = [content EXCEPT ![m.to] = c]
        /\ streams' = (streams \ {m}) \cup
               IF reply.blocks = {} THEN {}
               ELSE {Message(m.to, m.from, <<>>, reply.blocks)}
        /\ UNCHANGED <<workload, attachments, avatars, ledger, paid, due, heard,
                       uploaded, mishaps, clock>>

-----------------------------------------------------------------------------
(* Faults, sweeps and payment.                                             *)

\* The stream cannot be opened or breaks: the message is lost.
LoseMessage(m) ==
    /\ m \in streams /\ mishaps < workload.faults
    /\ streams' = streams \ {m} /\ mishaps' = mishaps + 1
    /\ UNCHANGED <<workload, content, attachments, avatars, ledger, paid, due, heard,
                   uploaded, clock>>

\* The process restarts: everything in memory is gone, and a node that does
\* not serve content releases what it holds.
RestartNode(n) ==
    /\ mishaps < workload.faults /\ mishaps' = mishaps + 1
    /\ content' = [content EXCEPT ![n] =
          [NoContent EXCEPT !.held =
              IF n \in workload.serving THEN content[n].held
              ELSE EvictOutside(content[n].held, {})]]
    /\ ledger' = [ledger EXCEPT ![n] = EmptyStore]
    /\ due' = [due EXCEPT ![n] = clock]
    /\ UNCHANGED <<workload, attachments, avatars, streams, paid, heard, uploaded, clock>>

\* poll_reward_observation_pruning, on the sweep timer.
SweepLedger(n) ==
    /\ Pruned(ledger[n], clock) /= ledger[n]
    /\ ledger' = [ledger EXCEPT ![n] = Pruned(ledger[n], clock)]
    /\ UNCHANGED <<workload, content, attachments, avatars, streams, paid, due, heard,
                   uploaded, mishaps, clock>>

\* An operator's step, not the node's: nothing in the node calls compute or
\* payable_epochs.  A completed epoch is paid from one node's ledger and marked; the
\* record of what is paid and left is the operator's own.
Pay(n, epoch) ==
    LET schedule == Compute(ledger[n], workload.eligibility, epoch, paid.left)
    IN  /\ RewardParamsValid
        /\ epoch \in PayableEpochs(ledger[n], paid.epochs, clock)
        /\ paid' = [epochs |-> paid.epochs \cup {epoch},
                    left   |-> paid.left - (schedule.emission - schedule.dust),
                    owed   |-> Put(paid.owed, epoch, schedule.entries)]
        /\ UNCHANGED <<workload, content, attachments, avatars, streams, ledger, due, heard,
                       uploaded, mishaps, clock>>

\* The timer cannot be overtaken by more than its interval.
TickClock ==
    /\ clock < workload.last
    /\ \A n \in workload.listening : clock < due[n]
    /\ clock' = clock + 1
    /\ UNCHANGED <<workload, content, attachments, avatars, streams, ledger, paid, due, heard,
                   uploaded, mishaps>>

ContentNext ==
    \/ PutContent
    \/ \E n \in workload.listening : \E e \in workload.events \ heard[n] : Hear(n, e)
    \/ \E n \in workload.listening : Pin(n) \/ PinAlone(n)
    \/ \E m \in streams : OnBitswap(m) \/ LoseMessage(m)
    \/ \E n \in workload.listening : RestartNode(n) \/ SweepLedger(n)
    \/ \E n \in workload.payers : \E epoch \in DOMAIN ledger[n] : Pay(n, epoch)
    \/ TickClock

ContentSpec == ContentInit /\ [][ContentNext]_contentVars

-----------------------------------------------------------------------------
(* Properties.                                                             *)

\* A file that can be spelled out at all, by a node that has every block: no
\* dag-pb block without links that can be read, and within the limits with
\* its repeated chunks repeated.
Readable(root) == Assemble(Cids, root) /= None

\* No block that a walk of the file meets is missing, and a file that can be
\* spelled out is, from these blocks.
Whole(held, root) ==
    /\ MissingBlocks(held, root) = {}
    /\ Readable(root) => Assemble(held, root) /= None

\* What a node announces on the DHT it can serve: every root it provides is
\* whole, between ticks as well as right after one, through evictions, late
\* replies and restarts (announce_held_content, evict_outside).
ProvidedIsWhole ==
    \A n \in Hosts : \A root \in content[n].provided : Whole(content[n].held, root)

\* A root a running node has a reason to keep: a record inside its window, a
\* claim still valid, or an upload inside its grace.
Named(n, root, t) ==
    \/ \E id \in DOMAIN attachments[n] :
          /\ attachments[n][id].cid = root
          /\ Keeps(workload.retention[n], attachments[n][id].created_at, t)
    \/ \E a \in avatars[n] : a.cid = root /\ t < a.expires
    \/ root \in DOMAIN content[n].ingress /\ t - content[n].ingress[root] < IngressGrace

\* No step of a node that serves drops a block of a file there is a reason to
\* keep: an upload survives every sweep of its grace, and from then on the
\* record that names it (content_wanted, content_ingress).
KeepsNamedContent ==
    \A n \in workload.serving : \A root \in Cids :
        Named(n, root, clock) => Reachable(content[n].held, root) \subseteq content'[n].held

Obtainable(n, root) ==
    \/ root \in Fetch(workload.gateway, root)
    \/ \E p \in workload.serving \ {n} : Whole(content[p].held, root)

\* Every serving node has every file it wants and that the gateway, or one of
\* its peers, has in full.
WantedIsHeld ==
    \A n \in workload.serving \cap workload.listening : \A root \in Wanted(n) :
        Obtainable(n, root) => Whole(content[n].held, root)

\* An operator never pays out more than the bucket held, whatever the epochs
\* paid and their order, and one stake never pays two nodes (compute).  No
\* peer is seen in more slices of an epoch than it has (observe).
RewardsWithinBucket ==
    /\ \A n \in Hosts : \A e \in DOMAIN ledger[n] :
          ledger[n][e] \in PeerLiveness(DOMAIN ledger[n][e], 0 .. Buckets - 1)
    /\ paid.left >= 0
    /\ paid.left + SumFunction([e \in paid.epochs |-> SumFunction(paid.owed[e])])
          = workload.bucket
    /\ \A e \in paid.epochs : \A p, q \in DOMAIN paid.owed[e] :
          workload.eligibility[p].stake_account = workload.eligibility[q].stake_account
              => p = q

=============================================================================
