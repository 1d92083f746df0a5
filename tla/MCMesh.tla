------------------------------- MODULE MCMesh --------------------------------
(***************************************************************************)
(* The mesh on small instances: gossip among three nodes, two of which     *)
(* originate an event, and discovery among three nodes started one after   *)
(* another, each told of the one before.  `focus` picks one of the two for *)
(* a behavior.  Both are handlers of one node process over the same        *)
(* connections, so they share the variables of those.                      *)
(***************************************************************************)
EXTENDS Gossip, TLC

CONSTANTS a, b, c, e1, e2

VARIABLES focus, cache, dials

discoveryVars == <<links, connected, cache, dials, wire, scene, now, faults>>
meshVars == <<focus, gossipVars, cache, dials>>

MCNodes == {a, b, c}
MCEvents == {e1, e2}
MCOriginOf == (e1 :> a) @@ (e2 :> b)

\* A line of three that relays one event, a pair that exchanges two with
\* less credit than it needs and with enough, a pair that outlives the
\* retention of one, and a pair that holds two connections at once.
MCScenes ==
    {[routes |-> {{a, b}, {b, c}}, events |-> {e1}, links |-> 1,
      capacity |-> 1, faults |-> 2, clock |-> 0],
     [routes |-> {{a, b}}, events |-> {e1, e2}, links |-> 1,
      capacity |-> 1, faults |-> 2, clock |-> 1],
     [routes |-> {{a, b}}, events |-> {e1, e2}, links |-> 1,
      capacity |-> 2, faults |-> 1, clock |-> 1],
     [routes |-> {{a, b}}, events |-> {e1}, links |-> 1,
      capacity |-> 1, faults |-> 2, clock |-> 2],
     [routes |-> {{a, b}}, events |-> {e1}, links |-> 2,
      capacity |-> 1, faults |-> 2, clock |-> 0]}

\* Three nodes and no fault, and two nodes through two faults and two ticks
\* that never reach the bound on their connections.
Discovery == INSTANCE Discovery WITH
    Peers <- {a, b, c}, Entrypoints <- (a :> {}) @@ (b :> {a}) @@ (c :> {b}),
    TargetPeers <- 3, MaxAge <- 0,
    Scenes <- {[up |-> {a, b, c}, links |-> 1, faults |-> 0, clock |-> 0],
               [up |-> {a, b}, links |-> 9, faults |-> 2, clock |-> 2]}

MeshInit ==
    \/ focus = "gossip" /\ GossipInit /\ cache = 0 /\ dials = {}
    \/ /\ focus = "discovery" /\ Discovery!DiscoveryInit
       /\ issued = [e \in Events |-> -1] /\ handed = {}
       /\ stored = [n \in Nodes |-> EmptyFn] /\ credit = [n \in Nodes |-> EmptyFn]
       /\ served = [n \in Nodes |-> {}] /\ missed = served /\ shed = served
       /\ alarmed = [n \in Nodes |-> FALSE] /\ started = [n \in Nodes |-> 0]

GossipTurn == focus = "gossip" /\ GossipNext /\ UNCHANGED <<focus, cache, dials>>

DiscoveryTurn ==
    /\ focus = "discovery" /\ Discovery!DiscoveryNext
    /\ UNCHANGED <<focus, issued, stored, handed, served, credit, alarmed, started, missed, shed>>

MeshNext == GossipTurn \/ DiscoveryTurn

Gossiping == focus = "gossip"
Discovering == focus = "discovery"

\* The event loop never stops polling the swarm and its timers: what is in
\* flight on an open connection is delivered, a dial that does not fail
\* completes, and the retention sweep and the redial are ticks of the loop.
MeshFairness ==
    /\ WF_gossipVars(Gossiping /\ \E msg \in wire : ReceivePush(msg))
    /\ WF_gossipVars(Gossiping /\ \E msg \in wire : AnswerRecovery(msg))
    /\ WF_gossipVars(Gossiping /\ \E msg \in wire : ReceiveRecovery(msg))
    /\ WF_gossipVars(Gossiping /\ \E n \in Nodes : Prune(n))
    /\ WF_discoveryVars(Discovering /\ \E msg \in wire :
            Discovery!HandlePeers(msg) \/ Discovery!HandleRequest(msg))
    /\ WF_discoveryVars(Discovering /\ \E n, m \in scene.up : Discovery!Established(n, m))
    /\ WF_discoveryVars(Discovering /\ \E n \in scene.up : Discovery!Redial(n))

MeshSpec == MeshInit /\ [][MeshNext]_meshVars /\ MeshFairness

-----------------------------------------------------------------------------
(* Properties.                                                             *)

\* An event a node holds reaches every peer it counts as connected (forward,
\* request_recovery), unless something failed to be handed over since: a lost
\* or refused request, a recovery answer that did not fit, or one given while
\* the peer was forgotten because one of two connections to it had closed.  A
\* peer that is forgotten in this way is told nothing until it connects again.
EventsSpread ==
    \A n, m \in Nodes, e \in Events : []<>(Gossiping => SpreadOrExcused(n, m, e))

\* Peers meet: the exchange settles with nothing in flight and, unless a dial
\* or a connection failed, connected nodes knowing each other's address; and
\* a node with an entrypoint is never left alone for good, however its
\* connections and dials fail (learn_peers, entrypoint_redial, sweep_peers).
PeersMeet ==
    /\ <>[](Discovering => Discovery!ExchangeIsOver)
    /\ \A n \in {a, b, c} : []<>(Discovering => Discovery!HasCompany(n))

=============================================================================
