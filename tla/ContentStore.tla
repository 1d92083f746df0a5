---------------------------- MODULE ContentStore ----------------------------
(***************************************************************************)
(* The content one node holds (crate openfiat-content and the content      *)
(* ticks of the node's actor): blocks filed under the hash of their bytes, *)
(* the attachment records that name them, and the rules that decide what   *)
(* is kept, asked for, served and announced.                               *)
(*                                                                         *)
(* A CID is a number.  The bytes of a block are abstracted to the CID they *)
(* hash to, so that a block matches a CID when the two are equal.          *)
(* Links[c] lists the children of the chunked (dag-pb) CID c, None when    *)
(* the node is not well formed; every other CID is raw.                    *)
(***************************************************************************)
EXTENDS Wire, Integers, Sequences, Functions

CONSTANTS Links,               \* chunked CID -> sequence of children, or None
          BlockBytes,          \* CID -> size of its block
          MaxBlockBytes,       \* MAX_BLOCK_BYTES
          MaxDagBlocks,        \* MAX_DAG_BLOCKS
          MaxDagBytes,         \* MAX_DAG_BYTES
          MaxResponseBytes,    \* MAX_RESPONSE_BYTES
          MaxAttachmentBytes,  \* MAX_ATTACHMENT_BYTES
          FloorDays,           \* MINIMUM_DAYS, in ticks of the clock
          MaxGatewayBlocks,    \* MAX_GATEWAY_BLOCKS_PER_TICK
          IngressGrace         \* INGRESS_GRACE

Cids == DOMAIN BlockBytes

IsChunked(cid) == cid \in DOMAIN Links

\* Cid::is_verifiable
IsVerifiable(cid) == ~IsChunked(cid)

\* Cid::matches
Matches(cid, bytes) == bytes = cid

LinksOf(cid) == IF IsChunked(cid) /\ Links[cid] /= None THEN Links[cid] ELSE <<>>

-----------------------------------------------------------------------------
(* Attachment records.                                                     *)

\* Attachment::validate: a size, a caption that fits and an id.
AttachmentValid(e) ==
    /\ e.size_bytes > 0 /\ e.size_bytes <= MaxAttachmentBytes
    /\ e.caption_fits
    /\ e.id /= None

\* SignedAttachmentPublish::verify: the payload names the author its key derives to, and
\* that key signed it.
PublishVerifies(e) == SelfSigned(e)

\* apply_publish: the first record under an id stands.
CanPublish(attachments, e) ==
    PublishVerifies(e) /\ AttachmentValid(e) /\ e.id \notin DOMAIN attachments

Apply(attachments, e) ==
    IF ~CanPublish(attachments, e) THEN attachments
    ELSE Put(attachments, e.id,
             [settlement |-> e.settlement, author |-> e.wallet, cid |-> e.cid,
              size_bytes |-> e.size_bytes, created_at |-> e.timestamp])

-----------------------------------------------------------------------------
(* Retention.                                                              *)

Within(created_at, now, days) == SaturatingSub(now, created_at) <= days

\* Retention::Archival; Rolling is its number of days.
Archival == None

Keeps(retention, created_at, now) ==
    IF retention = Archival THEN TRUE ELSE Within(created_at, now, retention)

\* Every challenger asks inside the floor, whatever its own retention.
ChallengeWindow(created_at, now) == Within(created_at, now, FloorDays)

-----------------------------------------------------------------------------
(* Held blocks.                                                            *)

\* keep: bytes that are not the named block, or too many, are refused.
Keep(held, cid, bytes) ==
    IF BlockBytes[bytes] <= MaxBlockBytes /\ Matches(cid, bytes)
    THEN held \cup {cid} ELSE held

\* walk: breadth first from a root through the links of the blocks that are
\* here, each CID once, at most MaxDagBlocks of them.  A CID queued twice is
\* passed over the second time, where the code does not queue it.
Walk(held, root) ==
    LET walk[s \in [pending : Seq(Cids), visited : SUBSET Cids]] ==
            IF s.pending = <<>> \/ Cardinality(s.visited) = MaxDagBlocks THEN s.visited
            ELSE LET cid == Head(s.pending)
                 IN  walk[[pending |-> Tail(s.pending) \o
                               IF cid \in held \ s.visited THEN LinksOf(cid) ELSE <<>>,
                           visited |-> s.visited \cup {cid}]]
    IN  walk[[pending |-> <<root>>, visited |-> {}]]

\* Mutant: a root that is here counts as the whole file.
MissingBlocksRootOnly(held, root) == {root} \ held

MissingBlocks(held, root) == Walk(held, root) \ held

Reachable(held, root) == Walk(held, root) \cap held

EvictOutside(held, roots) ==
    held \cap UNION {Reachable(held, root) : root \in roots}

\* GatewayFetcher::block: a block the gateway has and that is no larger than one
\* may be.  Bytes that are not the ones the CID names are refused, as if it had none.
GatewayBlock(available, cid) ==
    cid \in available /\ BlockBytes[cid] <= MaxBlockBytes

\* dag::fetch from one gateway: all of the DAG or nothing.
Fetch(available, root) ==
    LET whole  == Walk(available, root)
        left   == UNION {Range(LinksOf(c)) : c \in whole} \ whole
        total  == FoldFunction(LAMBDA x, y : x + y, 0, [c \in whole |-> BlockBytes[c]])
    IN  IF \/ \E c \in whole : ~GatewayBlock(available, c)
           \/ left /= {} \/ total > MaxDagBytes
           \/ \E c \in whole : IsChunked(c) /\ Links[c] = None
        THEN {} ELSE whole

\* dag::assemble: the file in link order, a repeated chunk repeated; a
\* sequence of raw CIDs, or None.
Assemble(held, root) ==
    LET from[s \in [pending : Seq(Cids), visited : 0..MaxDagBlocks, file : Seq(Cids),
                    bytes : 0..MaxDagBytes]] ==
            IF s.pending = <<>> THEN s.file
            ELSE LET cid  == Head(s.pending)
                     rest == Tail(s.pending)
                 IN  IF s.visited = MaxDagBlocks \/ cid \notin held THEN None
                     ELSE IF IsChunked(cid)
                          THEN IF LinksOf(cid) = <<>> THEN None
                               ELSE from[[s EXCEPT !.pending = LinksOf(cid) \o rest,
                                                   !.visited = @ + 1]]
                          ELSE IF s.bytes + BlockBytes[cid] > MaxDagBytes THEN None
                               ELSE from[[pending |-> rest, visited |-> s.visited + 1,
                                          file |-> Append(s.file, cid),
                                          bytes |-> s.bytes + BlockBytes[cid]]]
    IN  from[[pending |-> <<root>>, visited |-> 0, file |-> <<>>, bytes |-> 0]]

-----------------------------------------------------------------------------
(* One node's content state and the actor's ticks over it.                 *)

NoContent == [held |-> {}, wants |-> {}, ingress |-> EmptyStore, provided |-> {}]

\* sendContentPut: kept if it is what its CID names, and noted as fresh.
ContentPut(c, cid, bytes, now) ==
    LET kept == Keep(c.held, cid, bytes)
    IN  IF cid \in kept /\ Matches(cid, bytes) /\ BlockBytes[bytes] <= MaxBlockBytes
        THEN [c EXCEPT !.held = kept, !.ingress = Put(@, cid, now)]
        ELSE c

\* The uploads still inside their grace, as content_wanted prunes them.
FreshIngress(ingress, now) ==
    Without(ingress, {x \in DOMAIN ingress :
        SaturatingSub(now, ingress[x]) >= IngressGrace})

\* Mutant: only attachments hold content on the node.
ContentWantedRecordsOnly(c, attachments, avatars, retention, now) ==
    {attachments[id].cid : id \in {i \in DOMAIN attachments :
        Keeps(retention, attachments[i].created_at, now)}}

\* content_wanted: attachments inside the retention window, the avatar of
\* every valid claim, and fresh uploads.
ContentWanted(c, attachments, avatars, retention, now) ==
    {attachments[id].cid : id \in {i \in DOMAIN attachments :
        Keeps(retention, attachments[i].created_at, now)}}
    \cup avatars
    \cup DOMAIN FreshIngress(c.ingress, now)

\* Mutant: what was asked for is announced whether or not it has arrived.
CompleteAlways(held, wanted) == wanted

\* announce_held_content: only roots whose whole DAG is here.
Complete(held, wanted) == {root \in wanted : MissingBlocks(held, root) = {}}

\* Everything still needed for the roots this node wants.
MissingOf(held, wanted) == UNION {MissingBlocks(held, root) : root \in wanted}

\* poll_content up to the requests it sends: what nothing wants any more is
\* gone, and what is missing is on the list of wants.
Swept(c, held, missing, now) ==
    [c EXCEPT !.held = held, !.wants = missing, !.ingress = FreshIngress(@, now)]

\* The gateway answers for the unanswered CIDs in turn, whole DAG or nothing,
\* until the tick's budget of blocks is spent.
FromGateway(c, available, cids) ==
    LET after[i \in 0..Len(cids)] ==
            IF i = 0 THEN [fetched |-> 0, blocks |-> {}]
            ELSE IF after[i - 1].fetched >= MaxGatewayBlocks THEN after[i - 1]
            ELSE LET dag == Fetch(available, cids[i])
                 IN  [fetched |-> after[i - 1].fetched + Cardinality(dag),
                      blocks |-> after[i - 1].blocks \cup dag]
        got == after[Len(cids)].blocks
    IN  [c EXCEPT !.held = @ \cup got, !.wants = @ \ got]

Announced(c, wanted) == [c EXCEPT !.provided = Complete(c.held, wanted)]

\* on_bitswap, the receiving half: blocks this node asked for are kept.
BlocksTaken(c, blocks) ==
    LET taken == {cid \in blocks \cap c.wants : BlockBytes[cid] <= MaxBlockBytes}
    IN  [c EXCEPT !.held = @ \cup taken, !.wants = @ \ taken]

\* One want answered, out of what is left of the budget.
Reply(held, reply, want) ==
    CASE want.cancel -> reply
      [] ~want.cancel /\ want.cid \in held /\ want.type = "Block"
         /\ BlockBytes[want.cid] <= reply.budget ->
            [reply EXCEPT !.budget = @ - BlockBytes[want.cid], !.blocks = @ \cup {want.cid}]
      [] ~want.cancel /\ want.cid \in held
         /\ (want.type = "Have" \/ BlockBytes[want.cid] > reply.budget) ->
            [reply EXCEPT !.have = @ \cup {want.cid}]
      [] ~want.cancel /\ want.cid \notin held /\ want.send_dont_have ->
            [reply EXCEPT !.dont_have = @ \cup {want.cid}]
      [] OTHER -> reply

\* bitswap::respond to a sequence of wants: blocks while the budget lasts,
\* presences for the rest.
Respond(held, wants) ==
    LET after[i \in 0..Len(wants)] ==
            IF i = 0 THEN [budget |-> MaxResponseBytes, blocks |-> {}, have |-> {},
                           dont_have |-> {}]
            ELSE Reply(held, after[i - 1], wants[i])
    IN  after[Len(wants)]

\* The orders in which the members of a set can be listed.
Orders(S) == Bijection(1..Cardinality(S), S)

\* bitswap::wantlist
Wantlist(cids) ==
    LET order == CHOOSE s \in Orders(cids) : TRUE
    IN  [i \in DOMAIN order |->
            [cid |-> order[i], type |-> "Block", cancel |-> FALSE, send_dont_have |-> TRUE]]

-----------------------------------------------------------------------------
(* Challenges.                                                             *)

\* challengeable: verifiable content inside the floor, in order.
Challengeable(attachments, now) ==
    CHOOSE s \in Orders({attachments[id].cid : id \in {i \in DOMAIN attachments :
                             /\ IsVerifiable(attachments[i].cid)
                             /\ ChallengeWindow(attachments[i].created_at, now)}}) :
        \A i \in 2..Len(s) : s[i - 1] < s[i]

SelectChallenge(cids, seed) ==
    IF cids = <<>> THEN None ELSE cids[1 + (seed % Len(cids))]

\* judge: what could not be checked is not the peer's failure.
Judge(cid, response) ==
    CASE IsChunked(cid) -> "Undecidable"
      [] ~IsChunked(cid) /\ response /= None /\ Matches(cid, response) -> "Served"
      [] OTHER -> "Failed"

=============================================================================
