------------------------------- MODULE MCNode --------------------------------
(***************************************************************************)
(* What nodes keep and exchange, on small instances: the replicated        *)
(* registries (NodeState), content and the rewards for serving it          *)
(* (ContentMesh), snapshots (SnapshotMesh).  `focus` picks one of them     *)
(* for a behavior; the others hold nothing.                                *)
(***************************************************************************)
EXTENDS NodeState, ContentMesh, SnapshotMesh

CONSTANTS a, b, j, d

VARIABLE focus

nodeVars == <<focus, stateVars, contentVars, meshVars>>

\* A file of two chunks under one root (10 -> 1, 2), a raw picture (3) and a file whose two
\* chunks are the same block (11 -> 4, 4); every block is one byte long.  And roots that
\* cannot be spelled out: links that do not parse (12), no links (13), a chunk repeated
\* beyond the limit (14).
FileLinks == (10 :> <<1, 2>>) @@ (11 :> <<4, 4>>) @@ (12 :> None) @@ (13 :> <<>>)
             @@ (14 :> <<4, 4, 4>>)
FileBytes == [cid \in {1, 2, 3, 4, 10, 11, 12, 13, 14} |-> 1]

-----------------------------------------------------------------------------
(* Registries: two nodes; each scene is one registry's small workload     *)

MCNodes == {"n1", "n2"}

ReviewBody(rating, words, t) ==
    [kind |-> "ReviewPublished", wallet |-> "w1", signer |-> "w1", timestamp |-> t,
     settlement |-> 1, rating |-> rating, words |-> words, hazard |-> FALSE]

MCCatalog == {[slug |-> "wire", names |-> {"wire"}]}

MethodBody(digest, skeleton) ==
    [kind |-> "MethodDefined", wallet |-> "w1", signer |-> "w1", timestamp |-> 0,
     name |-> [hazard |-> FALSE, skeleton |-> skeleton], category |-> "Bank",
     digest |-> digest]

Entry(words) ==
    EntryPost("w1", 1, 0, "Message",
                Channels!SealEntry("key", 1, "w1", 0, "Message", words, 2), 0)

Rate(v, rate, t) == OraclePublish("w1", 1, <<"usdc", "open">>, rate, v, 2, t)

\* One of the two rates makes a product that f64 rounds down to an integer.
RoundedDown(units, rate) == IF rate.num = 31 THEN -1 ELSE 0

Price == [mint |-> "usdc", amount |-> [units |-> 15, decimals |-> 1]]

Offer(id, wallet, stype, pricing) ==
    ServiceRegister(wallet, id, Listing(stype, pricing, TRUE, "Email"), 0)

MCBody ==
    [claim1  |-> ClaimPublish("w1", 1, "EncryptionKey", TRUE, FALSE, None, None, 0),
     claim2  |-> ClaimPublish("w1", 2, "EncryptionKey", TRUE, FALSE, 1, 1, 0),
     claim3  |-> ClaimPublish("w1", 3, "Avatar", TRUE, TRUE, None, None, 1),
     revoke2 |-> ClaimRevoke("w1", 2, 0),
     attest1 |-> ClaimVerify("w1", 1, 1),
     open    |-> SessionEstablish("w1", 1, 1, 0),
     renew   |-> SessionRenew("w1", 1, 1, None, 0),
     migrate |-> SessionMigrate("w1", 1, "n2", 2, 0),
     close   |-> SessionRevoke("w1", 1, 1),
     market  |-> Offer(1, "w1", "MarketData", None),
     priced  |-> Offer(2, "w2", "PublicRpc", Price),
     usurp   |-> Offer(2, "w1", "PublicRpc", None),
     beat    |-> HealthPublish("w2", 2, "Degraded", 1),
     leave   |-> ServiceWithdraw("w2", 2, 1),
     rate1   |-> Rate(1, 25, 0),
     rate2   |-> Rate(2, 31, 1),
     risky   |-> Offer(3, "w1", "RiskIntelligence", None),
     flag    |-> RiskPublish("w1", 1, "w2", "Flagged", 3, None, 0),
     clear   |-> RiskPublish("w1", 2, "w2", "Cleared", 0, 1, 1),
     review1 |-> ReviewBody(5, 1, 0),
     review2 |-> ReviewBody(1, 2, 0),
     method5 |-> MethodBody(5, "transfer"),
     method3 |-> MethodBody(3, "transfer"),
     method1 |-> MethodBody(1, "transfer"),
     method0 |-> MethodBody(0, "wire"),
     trade   |-> Signed("SettlementInitiated", "w1", 1, 0) @@ [buyer |-> "w1", seller |-> "w2"],
     paid    |-> Signed("PaymentSubmitted", "w1", 1, 0),
     approve |-> Signed("SettlementApproved", "w2", 1, 0),
     dispute |-> Signed("DisputeOpened", "w1", 1, 0) @@ [settlement |-> 1],
     join    |-> Signed("ArbitratorJoined", "w3", 1, 0),
     entry   |-> Entry("hello"),
     again   |-> Entry("hullo"),
     grant   |-> KeyGrant("w1", 1, "w3", "key", 0),
     create  |-> ProposalCreate("w1", 1, 7, 0),
     borrow  |-> ProposalCreate("w2", 2, 7, 0),
     vote    |-> VoteCast("w1", 1, "Approve", 9, "stake1", 0),
     other   |-> VoteCast("w2", 1, "Approve", 9, "stake1", 0),
     enact   |-> ProposalActivate("w1", 1, 0),
     retire  |-> ProposalWithdraw("w1", 1, 0),
     post    |-> Offer(4, "w1", "Notifications", None),
     listen  |-> SubscriptionUpdate("w2", {"Governance", "Trading"},
                    <<[service |-> 4, channel |-> "Email"],
                      [service |-> 5, channel |-> "Email"]>>, 0),
     report  |-> DeliveryReport("w1", <<"ProposalPublished", <<"create", "n1">>, "w2">>,
                                  4, "w2", "ProposalPublished", "Delivered", 0)]

Quiet == [proposals |-> EmptyStore, stake |-> EmptyStore]

\* A workload submitted to n1, with what else is in play.
Scene(payloads, elsewhere) ==
    [events |-> (payloads \X {"n1"}) \cup (elsewhere \X {"n2"}),
     roles |-> [n \in MCNodes |-> IF n = "n1" THEN {"RiskIntelligenceProvider"} ELSE {}],
     rpc |-> {"n1"}, chain |-> Quiet, stakes |-> EmptyStore,
     mints |-> {}, clock |-> 0]

ClaimScene   == [Scene({"claim1", "claim2", "claim3", "revoke2", "attest1"}, {})
                 EXCEPT !.clock = 2]
SessionScene == [Scene({"open", "renew", "close"}, {"migrate"}) EXCEPT !.clock = 3]
FeeScene     == [Scene({"market", "priced", "rate1", "rate2"}, {})
                 EXCEPT !.clock = 3, !.mints = {"open"}]
ServiceScene == [Scene({"priced", "beat", "leave"}, {"usurp"}) EXCEPT !.clock = 2]
RiskScene    == [Scene({"risky", "flag", "clear"}, {"flag"}) EXCEPT !.clock = 2]
ReviewScene  == Scene({"review1", "review2", "trade", "paid", "approve"}, {"review1"})
MethodScene  == Scene({"method5", "method3", "method0"}, {"method1"})
ChannelScene == Scene({"trade", "dispute", "join", "grant"}, {"entry", "again"})
VoteScene    ==
    [Scene({"create", "vote"}, {"other"})
     EXCEPT !.chain.proposals =
                (7 :> [owned |-> TRUE, id |-> 7, state |-> "Voting", offchain_id |-> 1]),
            !.stakes = ("stake1" :> [owned |-> TRUE, owner |-> "w1", amounts |-> {2}])]
\* One on-chain proposal claimed by two, and one activated.
LinkScene    ==
    [VoteScene EXCEPT !.events = {<<"create", "n1">>, <<"enact", "n1">>, <<"borrow", "n2">>},
                      !.stakes = EmptyStore]
RetireScene  ==
    [VoteScene EXCEPT !.events = {"create", "retire", "vote"} \X {"n1"},
                      !.stakes["stake1"].amounts = {1, 2}]
NoteScene    == Scene({"post", "listen", "create", "report"}, {})
TradeScene   == Scene({"post", "listen", "trade", "paid", "approve"}, {})

MCScenes == {ClaimScene, SessionScene, FeeScene, ServiceScene, RiskScene, ReviewScene,
             MethodScene, ChannelScene, VoteScene, LinkScene, RetireScene,
             NoteScene, TradeScene}

-----------------------------------------------------------------------------
(* Content                                                                 *)

Attach(id, cid, at) ==
    AttachmentPublish("w", id, "s", cid, 1, at) @@ [origin |-> a]
Avatar(cid, at, expires) ==
    [kind |-> "ClaimPublished", origin |-> a, timestamp |-> at, cid |-> cid,
     expires |-> expires]
Blockhash(origin, at) ==
    [kind |-> "BlockhashAnnounced", origin |-> origin, timestamp |-> at]

Upload(n, cid, bytes) == [node |-> n, cid |-> cid, bytes |-> bytes]
Staked(amount, account) ==
    [effective_stake |-> amount, registered |-> TRUE, stake_account |-> account]

ContentBase == [serving |-> {a, b}, listening |-> {a, b},
         retention |-> (a :> Archival) @@ (b :> 3),
         events |-> {}, uploads |-> <<>>, gateway |-> {}, payers |-> {},
         eligibility |-> EmptyStore, bucket |-> 0, faults |-> 0, last |-> 0]

\* A chunked file is uploaded to one node, leaf first, then published.
UploadScene ==
    [ContentBase EXCEPT !.uploads = <<Upload(a, 4, 4), Upload(a, 11, 11)>>,
                 !.events = {Attach("x", 11, 1)}, !.last = 2, !.faults = 1]

\* Two records, and a gateway that has both files but not the time for both.
GatewayScene ==
    [ContentBase EXCEPT !.listening = {a}, !.events = {Attach("x", 10, 0), Attach("y", 3, 0)},
                 !.gateway = {1, 2, 3, 10}, !.last = 2, !.faults = 2]

\* An avatar and a record that both run out, and an upload of wrong bytes.
WindowScene ==
    [ContentBase EXCEPT !.listening = {b}, !.events = {Avatar(3, 0, 3), Attach("x", 11, 0)},
                 !.uploads = <<Upload(b, 3, 3), Upload(b, 4, 3)>>,
                 !.gateway = {4, 11}, !.last = 3 + 2]

\* Roots that can be held, served and announced but not spelled out.
UnreadableScene ==
    [ContentBase EXCEPT !.listening = {b}, !.uploads = <<Upload(b, 12, 12)>>,
                 !.events = {Attach("x", 13, 0)}, !.gateway = {13}, !.faults = 1]
RepeatingScene ==
    [ContentBase EXCEPT !.uploads = <<Upload(a, 4, 4), Upload(a, 14, 14)>>,
                 !.events = {Attach("x", 14, 0)}, !.faults = 1]

\* Three epochs heard by one node that pays for them.
RewardScene ==
    [ContentBase EXCEPT !.listening = {a}, !.payers = {a}, !.bucket = 6, !.last = 4,
                 !.events = {Attach("x", 3, 0), Blockhash(b, 0), Blockhash(a, 2),
                             Blockhash("c", 1), Blockhash("d", 1)},
                 !.gateway = {3}, !.faults = 0,
                 !.eligibility = (a :> Staked(3, "sa")) @@ (b :> Staked(2, "sb"))
                                 @@ ("c" :> Staked(2, "sc")) @@ ("d" :> Staked(2, "sc"))]

\* Nobody listens: the content of the other behaviors.
NoUploads == [ContentBase EXCEPT !.listening = {}]

MCHosts == {a, b}
MCWorkloads == {NoUploads, UploadScene, GatewayScene, WindowScene, UnreadableScene,
                RepeatingScene, RewardScene}

-----------------------------------------------------------------------------
(* Snapshots: an anchor (a), a staked provider (b) and a node that joins   *)
(* (j); d is a second anchor, elsewhere, whose store is damaged.           *)

\* A snapshot at a later slot than any other, with a block that is not what
\* its name says.
Damaged ==
    [id |-> <<d, 9>>, wallet |-> d, signer |-> d, slot |-> 9, created_at |-> 9,
     protocol_version |-> 1, size_bytes |-> 1, compression |-> "Gzip",
     state_root |-> Worldview(0, "c1" :> "c2")]

SnapshotBase == [producers |-> {a}, timer |-> {<<a, 0>>, <<a, 1>>},
         joiners |-> {j}, enforced |-> {},
         foreign |-> {}, requirement |-> 2, stake |-> EmptyStore, versions |-> 0, last |-> 1, faults |-> 0]

\* A node joins while one of the two anchors it hears of is damaged.
JoinScene == [SnapshotBase EXCEPT !.foreign = {Damaged}, !.versions = 1, !.faults = 2]

\* A node that has joined imports from a provider that leaves.
StakeScene == [SnapshotBase EXCEPT !.producers = {a, b},
                           !.timer = {<<a, 0>>, <<b, 1>>, <<b, 3>>}, !.enforced = {j},
                           !.stake = (b :> 2), !.last = 3]

\* A node joins from a snapshot of several entries, and stops while it writes them.
Intact == [Damaged EXCEPT !.state_root = Worldview(0, [c \in {"c1", "c2"} |-> c])]
StopScene == [SnapshotBase EXCEPT !.producers = {}, !.timer = {}, !.foreign = {Intact},
                          !.versions = 1, !.faults = 2]

\* Nobody produces, joins or stakes: the snapshots of the other behaviors.
IdleScene == [SnapshotBase EXCEPT !.producers = {}, !.timer = {}, !.joiners = {}, !.last = 0]

MCPeers == {a, b, j}
MCAnchors == {a, d}
MCSettings == {IdleScene, JoinScene, StakeScene, StopScene}

-----------------------------------------------------------------------------
NoContentMesh == ContentInit /\ workload = NoUploads

NoSnapshots == SnapshotInit /\ setting = IdleScene

NoRegistries ==
    /\ issued = 0 /\ log = 0 /\ handed = 0 /\ node = 0 /\ chain = 0 /\ staked = 0
    /\ quotes = 0 /\ scene = 0 /\ now = 0

NodeInit ==
    \/ focus = "registries" /\ StateInit /\ NoContentMesh /\ NoSnapshots
    \/ focus = "content" /\ ContentInit /\ NoRegistries /\ NoSnapshots
    \/ focus = "snapshots" /\ SnapshotInit /\ NoRegistries /\ NoContentMesh

RegistryTurn ==
    focus = "registries" /\ StateNext /\ UNCHANGED <<focus, contentVars, meshVars>>

ContentTurn ==
    focus = "content" /\ ContentNext /\ UNCHANGED <<focus, stateVars, meshVars>>

SnapshotTurn ==
    focus = "snapshots" /\ SnapshotNext /\ UNCHANGED <<focus, stateVars, contentVars>>

NodeNext == RegistryTurn \/ ContentTurn \/ SnapshotTurn

Serving == focus = "content"
Joining == focus = "snapshots"
Registering == focus = "registries"

\* The actor's timers fire for as long as the node runs: the vote tick, the pinning tick,
\* the bootstrap tick (every thirty seconds while there is no checkpoint).  Bitswap streams
\* that do not fail are delivered, and gossip reaches every node (EventsSpread); gossip and
\* the clock share one clause, both come to an end.
NodeFairness ==
    /\ \A n \in Nodes : WF_stateVars(Registering /\ (VerifyVotes(n) \/ DiscardVotes(n)))
    /\ \A n \in Hosts :
          /\ WF_contentVars(Serving /\ n \in workload.listening /\ Pin(n))
          /\ WF_contentVars(Serving /\ \E m \in streams : m.to = n /\ OnBitswap(m))
    /\ WF_contentVars(Serving /\ (TickClock \/ \E n \in workload.listening :
                                   \E e \in workload.events \ heard[n] : Hear(n, e)))
    /\ \A n \in Peers :
          WF_meshVars(Joining /\ n \in setting.joiners /\ BootstrapClean(n))

NodeSpec == NodeInit /\ [][NodeNext]_nodeVars /\ NodeFairness

-----------------------------------------------------------------------------
(* Properties.                                                             *)

\* Reviews and merchant payment methods are the same on two nodes that have
\* heard the same events, whatever order each heard them in; every registry
\* holds records of its own type (each crate's apply_event); and what a node
\* answers stands whichever way it is asked and whenever its sweeps ran: the
\* key a counterparty seals to, reviews, rates, risk reports, the readers of a
\* trade's channel.
RegistriesAgree == Registering => StateTypeOK /\ ReplicasAgree /\ AnswersStand

\* A record a node keeps only moves forward, whatever order events arrive in:
\* a revoked claim or session stays revoked, a version never falls, a service
\* id keeps its provider, a channel entry is never rewritten, a proposal that
\* left Voting is never voted on or decided again.  No event takes a wallet
\* over the cap on live claims (apply_publish).
RecordsMoveForward ==
    [][Registering => RecordsStepForward /\ ClaimsCapped]_nodeVars

\* A vote heard is counted, refused or given up: the queue drains.  It is
\* counted only at a weight the chain has shown for its voter, and a proposal
\* is Accepted, Rejected or Activated only if the governance program decided
\* so in an account that names the proposal back (poll_vote_verifications,
\* adopt_onchain_resolution).
VotesAreCounted ==
    /\ [](Registering => VotesVerified /\ OutcomesFromChain)
    /\ \A n \in Nodes : []<>(Registering => node[n].votes = <<>>)

\* Until a fee quote expires every node that has the same price on file
\* accepts the payer's commitment to it, even with a clock that lags by as
\* much as the protocol allows, and however the conversion was rounded: the
\* verifier converts the same fee at the same rate (settle_in, accepts).
QuotesStand == Registering => QuotesHonoured

\* No step of a node that serves drops a block of a file there is a reason to
\* keep: an upload survives every sweep of its grace, and from then on the
\* record that names it.  And of what a node announces on the DHT it has every
\* block, and the file if the blocks spell one, through evictions, late
\* replies and restarts (content_wanted, content_ingress, evict_outside,
\* announce_held_content).
NamedContentStays ==
    /\ [](Serving => ProvidedIsWhole)
    /\ [][Serving => KeepsNamedContent]_nodeVars

\* In the end every serving node has every block of the files it wants and that
\* the gateway, or one of its peers, has in full, and the file if the blocks
\* spell one: block budgets, lost streams, an
\* unreachable gateway and a restart only delay it (poll_content, on_bitswap).
WantedContentArrives == <>[](Serving => WantedIsHeld)

\* A node that keeps knowing an anchor's snapshot it could fetch ends up with
\* a checkpoint: a damaged mirror, an unreachable producer above it in the
\* list or a crash in the middle delays it and no more
\* (poll_snapshot_bootstrap).
BootstrapCompletes ==
    \A n \in Peers :
        \/ []<>(Joining => ~(n \in setting.joiners /\ Fetchable(n)))
        \/ <>(Joining => index[n].checkpoint /= None)
===============================================================================
