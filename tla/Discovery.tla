----------------------------- MODULE Discovery ------------------------------
(***************************************************************************)
(* Peer discovery (crate openfiat-discovery) and the dialling around it in *)
(* the node's event loop: exchange on connection, announcements of what is *)
(* new, dialling of newly learned peers up to a target, redialling of the  *)
(* entrypoints by a node that has no peer, and expiry of the peer cache.   *)
(*                                                                         *)
(* A cached record is abstracted to whether it carries an address and when *)
(* the peer was last seen; every node announces an address.  The exchange  *)
(* cap of twenty peers is above the sizes checked here.                    *)
(***************************************************************************)
EXTENDS Integers, FiniteSets, Sequences, SequencesExt

CONSTANTS Peers,             \* the nodes
          Entrypoints,       \* Entrypoints[n]: --entrypoint
          TargetPeers,       \* target_peers
          MaxAge,            \* PEER_EXPIRATION_THRESHOLD
          Scenes             \* the meshes tried: the nodes that are up, and
                             \* the bounds on the connections of a pair (the
                             \* code has none), on faults and on the clock

VARIABLES links,             \* links[{n,m}]: open connections
          connected,         \* connected[n]: who n believes is connected
          cache,             \* cache[n]: peer -> [known, last_seen]
          dials,             \* dials queued and not yet resolved
          wire,              \* exchange messages in flight
          scene, now, faults

discoveryVars == <<links, connected, cache, dials, wire, scene, now, faults>>

Pairs == {p \in SUBSET Peers : Cardinality(p) = 2}
Open(n, m) == {n, m} \in Pairs /\ links[{n, m}] > 0

With(f, k, v) == [x \in DOMAIN f \cup {k} |-> IF x = k THEN v ELSE f[x]]

Message(type, from, to, peers) == [type |-> type, from |-> from, to |-> to, peers |-> peers]

\* A node starts knowing nobody and dials its entrypoints.
DiscoveryInit ==
    /\ scene \in Scenes
    /\ links = [p \in Pairs |-> 0]
    /\ connected = [n \in Peers |-> {}]
    /\ cache = [n \in Peers |-> [x \in {} |-> 0]]
    /\ dials = {<<n, m>> \in scene.up \X scene.up : m \in Entrypoints[n]}
    /\ wire = {}
    /\ now = 0
    /\ faults = 0

\* advert_batch: oneself and every cached peer with an address.
AdvertBatch(n, c, exclude) ==
    {n} \cup {m \in DOMAIN c \ {exclude} : c[m].known}

\* learn_peers: every advert but one's own is cached; one that was not known
\* with an address is new, and dialled while the cache is within the target.
LearnPeers(n, adverts) ==
    LET Learn(l, m) ==
            LET isNew == ~(m \in DOMAIN l.cache /\ l.cache[m].known)
                cached == With(l.cache, m, [known |-> TRUE, last_seen |-> now])
            IN  [cache |-> cached,
                 new |-> IF isNew THEN l.new \cup {m} ELSE l.new,
                 dials |-> IF isNew /\ Cardinality(DOMAIN cached) <= TargetPeers
                           THEN l.dials \cup {<<n, m>>} ELSE l.dials]
    IN  FoldLeft(Learn, [cache |-> cache[n], new |-> {}, dials |-> {}],
                 SetToSeq(adverts \ {n}))

\* broadcast_announcement, when something was new.  The peer it came from is
\* left out of the recipients and out of what is announced.
Announcements(n, peer, l) ==
    IF l.new = {} THEN {}
    ELSE {Message("PeerAnnouncement", n, m, AdvertBatch(n, l.cache, peer)) :
            m \in {x \in connected[n] \ {peer} : Open(n, x)}}

\* on_response and the announcement half of on_request.
HandlePeers(msg) ==
    LET l == LearnPeers(msg.to, msg.peers) IN
    /\ msg \in wire /\ msg.type \in {"PeerExchangeResponse", "PeerAnnouncement"}
    /\ cache' = [cache EXCEPT ![msg.to] = l.cache]
    /\ dials' = dials \cup l.dials
    /\ wire' = (wire \ {msg}) \cup Announcements(msg.to, msg.from, l)
    /\ UNCHANGED <<links, connected, scene, now, faults>>

\* The request half of on_request.
HandleRequest(msg) ==
    /\ msg \in wire /\ msg.type = "PeerExchangeRequest"
    /\ wire' = (wire \ {msg}) \cup
            {Message("PeerExchangeResponse", msg.to, msg.from,
                     AdvertBatch(msg.to, cache[msg.to], msg.from))}
    /\ UNCHANGED <<links, connected, cache, dials, scene, now, faults>>

\* on_connected: a placeholder for a peer not cached yet.
Placeholder(n, m) ==
    IF m \in DOMAIN cache[n] THEN cache[n]
    ELSE With(cache[n], m, [known |-> FALSE, last_seen |-> now])

\* Mutant: only the node that dialled asks.
ExchangeRequestsOneWay(n, m) == {Message("PeerExchangeRequest", n, m, {})}

\* on_connected asks the new peer for the peers it knows, at both ends.
ExchangeRequests(n, m) ==
    {Message("PeerExchangeRequest", n, m, {}), Message("PeerExchangeRequest", m, n, {})}

\* A queued dial completes: ConnectionEstablished at both ends, one more when
\* the peer is connected already.
Established(n, m) ==
    /\ <<n, m>> \in dials /\ n /= m /\ links[{n, m}] < scene.links
    /\ dials' = dials \ {<<n, m>>}
    /\ links' = [links EXCEPT ![{n, m}] = @ + 1]
    /\ connected' = [connected EXCEPT ![n] = @ \cup {m}, ![m] = @ \cup {n}]
    /\ cache' = [cache EXCEPT ![n] = Placeholder(n, m), ![m] = Placeholder(m, n)]
    /\ wire' = wire \cup ExchangeRequests(n, m)
    /\ UNCHANGED <<scene, now, faults>>

\* OutgoingConnectionError: reported, and nothing else.
DialFailed(n, m) ==
    /\ <<n, m>> \in dials /\ faults < scene.faults
    /\ dials' = dials \ {<<n, m>>}
    /\ faults' = faults + 1
    /\ UNCHANGED <<links, connected, cache, wire, scene, now>>

\* ConnectionClosed: the peer leaves `connected', whether or not another
\* connection to it is open, on which the exchange goes on.
Closed(n, m) ==
    /\ Open(n, m) /\ faults < scene.faults
    /\ links' = [links EXCEPT ![{n, m}] = @ - 1]
    /\ connected' = [connected EXCEPT ![n] = @ \ {m}, ![m] = @ \ {n}]
    /\ LET between == {v \in wire : {v.from, v.to} = {n, m}} IN
       \E kept \in IF links[{n, m}] > 1 THEN SUBSET between ELSE {{}} :
            wire' = (wire \ between) \cup kept
    /\ faults' = faults + 1
    /\ UNCHANGED <<cache, dials, scene, now>>

\* Mutant: the entrypoints are dialled at startup only.
LonelyNever(n) == FALSE

\* The entrypoint_redial arm: only a node without a single peer.
Lonely(n) == connected[n] = {} /\ Entrypoints[n] /= {}

Redial(n) ==
    /\ Lonely(n)
    /\ dials' = dials \cup {<<n, m>> : m \in Entrypoints[n] \cap scene.up}
    /\ dials' /= dials
    /\ UNCHANGED <<links, connected, cache, wire, scene, now, faults>>

\* sweep_peers: connected peers are touched first, then the old ones go.
Sweep(n) ==
    LET touched == [m \in DOMAIN cache[n] |->
                        IF m \in connected[n]
                        THEN [cache[n][m] EXCEPT !.last_seen = now] ELSE cache[n][m]]
        stale == {m \in DOMAIN touched : touched[m].last_seen < now - MaxAge}
    IN  /\ cache' = [cache EXCEPT ![n] = [m \in DOMAIN touched \ stale |-> touched[m]]]
        /\ cache' /= cache
        /\ UNCHANGED <<links, connected, dials, wire, scene, now, faults>>

TimePasses ==
    /\ now < scene.clock
    /\ now' = now + 1
    /\ UNCHANGED <<links, connected, cache, dials, wire, scene, faults>>

DiscoveryNext ==
    \/ \E msg \in wire : HandlePeers(msg) \/ HandleRequest(msg)
    \/ \E n, m \in scene.up : Established(n, m)
    \/ \E n, m \in scene.up : DialFailed(n, m) \/ Closed(n, m)
    \/ \E n \in scene.up : Redial(n) \/ Sweep(n)
    \/ TimePasses

-----------------------------------------------------------------------------
(* Properties.                                                             *)

\* Nothing is left in flight, and unless a dial or a connection failed, two
\* nodes that are connected hold each other's address.
ExchangeIsOver ==
    /\ wire = {}
    /\ \/ faults > 0 \/ now > 0
       \/ \A n, m \in scene.up : Open(n, m) =>
             m \in DOMAIN cache[n] /\ cache[n][m].known

\* A node started with an entrypoint has a peer.
HasCompany(n) == Entrypoints[n] /= {} => connected[n] /= {} \/ n \notin scene.up

=============================================================================
