------------------------------- MODULE Gossip -------------------------------
(***************************************************************************)
(* The gossip service (crate openfiat-gossip) over the connections of a    *)
(* mesh: flooding with a hop budget, duplicate suppression by the stored   *)
(* log, recovery of a log on connection, relay credit per neighbour,       *)
(* retention, and the alarm for a second node running the same identity.   *)
(*                                                                         *)
(* An envelope is abstracted to its event: the id is a function of the     *)
(* content and the signature is the origin's, so two envelopes with one id *)
(* differ at most in their hop budget.  Requests travel on a connection    *)
(* and are lost when it closes or when the receiver is out of streams.     *)
(***************************************************************************)
EXTENDS Integers, FiniteSets, Sequences, FiniteSetsExt

CONSTANTS Nodes, Events,
          Scenes,            \* the meshes tried: which pairs of nodes can
                             \* reach each other, which events happen,
                             \* GOSSIP_PEER_CREDIT_CAPACITY, and the bounds
                             \* on the connections of a pair (the code has
                             \* none), on faults and on the clock
          OriginOf,          \* OriginOf[e]: the node whose key signs e
          Ttl,               \* the hop budget every service originates with
          MaxTtl,            \* MAX_TTL
          DropThreshold,     \* GOSSIP_PEER_DROP_DISCONNECT_THRESHOLD
          RecoveryBudget,    \* RECOVERY_RESPONSE_BUDGET_BYTES, in events
          LogRetention       \* GOSSIP_LOG_RETENTION

ASSUME GossipAssumption ==
    /\ IsFiniteSet(Events) /\ OriginOf \in [Events -> Nodes]
    /\ {Ttl, MaxTtl, DropThreshold, RecoveryBudget, LogRetention} \subseteq Nat

VARIABLES issued,            \* issued[e]: the time e was originated, or -1
          stored,            \* stored[n]: events held, with their hop budget
          handed,            \* who has just given which event to its handlers
          links,             \* links[{n,m}]: open connections
          connected,         \* connected[n]: who n believes is connected
          served,            \* served[n]: recovery_served
          credit,            \* credit[n][m]: m's bucket at n, while it exists
          alarmed,           \* alarmed[n]: identity_conflicts > 0
          started,           \* started[n]: started_at
          wire,              \* requests and responses in flight
          missed,            \* missed[n]: peers that, since n last lost a
                             \* connection to them, failed to hand it
                             \* something (history)
          shed,              \* shed[n]: its own events n pruned since it
                             \* booted (history)
          scene, now, faults

gossipVars == <<issued, stored, handed, links, connected, served, credit,
                alarmed, started, wire, missed, shed, scene, now, faults>>

Routes == scene.routes
Linked(n, m) == {n, m} \in Routes /\ links[{n, m}] > 0
Neighbours(n) == {m \in Nodes : Linked(n, m)}

Held(n) == DOMAIN stored[n]

EmptyFn == [x \in {} |-> 0]
With(f, k, v) == [x \in DOMAIN f \cup {k} |-> IF x = k THEN v ELSE f[x]]
Less(f, ks) == [x \in DOMAIN f \ ks |-> f[x]]

Push(from, to, e, ttl) == [type |-> "Push", from |-> from, to |-> to, event |-> e, ttl |-> ttl]
Ask(from, to) == [type |-> "RecoveryRequest", from |-> from, to |-> to]
Answer(from, to, events) ==
    [type |-> "RecoveryResponse", from |-> from, to |-> to, events |-> events]

\* broadcast: to every peer this node believes is connected, less one.  A
\* request to a peer with no connection left is never delivered.
Broadcast(n, e, ttl, exclude) ==
    {Push(n, m, e, ttl) : m \in (connected[n] \ exclude) \cap Neighbours(n)}

GossipInit ==
    /\ issued = [e \in Events |-> -1]
    /\ stored = [n \in Nodes |-> EmptyFn]
    /\ scene \in Scenes
    /\ handed = {}
    /\ links = [p \in Routes |-> 0]
    /\ connected = [n \in Nodes |-> {}]
    /\ served = [n \in Nodes |-> {}]
    /\ credit = [n \in Nodes |-> EmptyFn]
    /\ alarmed = [n \in Nodes |-> FALSE]
    /\ shed = [n \in Nodes |-> {}]
    /\ started = [n \in Nodes |-> 0]
    /\ wire = {}
    /\ missed = [n \in Nodes |-> {}]
    /\ now = 0
    /\ faults = 0

-----------------------------------------------------------------------------
(* Origination and receipt.                                                *)

\* GossipService::originate, once authorised: store, notify, broadcast.
Originate(e) ==
    LET n == OriginOf[e] IN
    /\ e \in scene.events /\ issued[e] = -1
    /\ issued' = [issued EXCEPT ![e] = now]
    /\ stored' = [stored EXCEPT ![n] = With(stored[n], e, Ttl)]
    /\ handed' = {<<n, e>>}
    /\ wire' = wire \cup Broadcast(n, e, Ttl, {})
    /\ UNCHANGED <<links, connected, served, credit, alarmed, started,
                   missed, shed, scene, now, faults>>

\* What a node learns from a peer, one event after another: its log, its
\* bucket for that peer, the alarms, and what it relays.
Ledger(n, peer) ==
    [log |-> stored[n],
     bucket |-> IF peer \in DOMAIN credit[n] THEN credit[n][peer]
                ELSE [tokens |-> scene.capacity, drops |-> 0, escalated |-> FALSE],
     new |-> {}, alarm |-> FALSE, relays |-> {}, short |-> FALSE, hangup |-> FALSE]

\* consume_relay_credit with an empty bucket: the drop is counted, and the
\* threshold hangs up once.
Starved(l) ==
    LET over == l.bucket.drops + 1 >= DropThreshold /\ ~l.bucket.escalated IN
    [l EXCEPT !.bucket = [l.bucket EXCEPT !.drops = l.bucket.drops + 1,
                                          !.escalated = l.bucket.escalated \/ over],
              !.hangup = l.hangup \/ over,
              !.short = TRUE]

Charged(l) == [l EXCEPT !.bucket = [l.bucket EXCEPT !.tokens = l.bucket.tokens - 1]]

\* Mutant: the time of the event is not compared with this boot.
ImpostorAnyAge(n, e) == OriginOf[e] = n

\* is_impostor: signed by this node's key, stamped after this boot.
Impostor(n, e) == OriginOf[e] = n /\ issued[e] > started[n]

\* forward: one hop less, and only while one is left; never back.
Relays(n, peer, e, ttl) ==
    IF ttl - 1 > 0 THEN Broadcast(n, e, ttl - 1, {peer}) ELSE {}

\* Mutant: an event already in the log is handled again.
TakenTwice(n, peer, l, e, ttl) ==
    IF l.bucket.tokens = 0 THEN Starved(l)
    ELSE IF Impostor(n, e) THEN [Charged(l) EXCEPT !.alarm = TRUE]
    ELSE LET kept == Min({ttl, MaxTtl}) IN
         [Charged(l) EXCEPT !.log = With(l.log, e, kept), !.new = l.new \cup {e},
                            !.relays = l.relays \cup Relays(n, peer, e, kept)]

\* receive_event: duplicate, then credit, then (validate and) the impostor
\* test, then store, notify and forward.
Taken(n, peer, l, e, ttl) ==
    IF e \in DOMAIN l.log THEN l
    ELSE IF l.bucket.tokens = 0 THEN Starved(l)
    ELSE IF Impostor(n, e) THEN [Charged(l) EXCEPT !.alarm = TRUE]
    ELSE LET kept == Min({ttl, MaxTtl}) IN
         [Charged(l) EXCEPT !.log = With(l.log, e, kept), !.new = l.new \cup {e},
                            !.relays = l.relays \cup Relays(n, peer, e, kept)]

\* The outcome of receiving a run of envelopes from one peer, each after the
\* one before it.
Receive(n, peer, envelopes) ==
    LET after[i \in 0..Len(envelopes)] ==
            IF i = 0 THEN Ledger(n, peer)
            ELSE Taken(n, peer, after[i - 1], envelopes[i].event, envelopes[i].ttl)
    IN  after[Len(envelopes)]

\* Requests and responses on connections that are gone are gone with them.
Between(msgs, n, m) == {v \in msgs : {v.from, v.to} = {n, m}}
Drained(msgs, n, m) == msgs \ Between(msgs, n, m)

\* Mutant: the peer stays marked as served when its connection closes.
RearmedNever(n, m) == served

\* recovery_served is keyed on the connection: closing one re-arms both ends.
Rearmed(n, m) == [served EXCEPT ![n] = @ \ {m}, ![m] = @ \ {n}]

\* A receipt writes the node's side, and hangs up when credit says so:
\* every connection to the peer closes, on both ends.
Settle(n, peer, l, rest) ==
    /\ stored' = [stored EXCEPT ![n] = l.log]
    /\ handed' = {n} \X l.new
    /\ alarmed' = [alarmed EXCEPT ![n] = alarmed[n] \/ l.alarm]
    /\ IF l.hangup
       THEN /\ links' = [links EXCEPT ![{n, peer}] = 0]
            /\ connected' = [connected EXCEPT ![n] = @ \ {peer}, ![peer] = @ \ {n}]
            /\ served' = Rearmed(n, peer)
            /\ credit' = [credit EXCEPT ![n] = Less(@, {peer}), ![peer] = Less(@, {n})]
            /\ missed' = [missed EXCEPT ![n] = @ \ {peer}, ![peer] = @ \ {n}]
            /\ wire' = Drained(rest \cup l.relays, n, peer)
       ELSE /\ credit' = [credit EXCEPT ![n] = With(@, peer, l.bucket)]
            /\ missed' = [missed EXCEPT ![n] = IF l.short THEN @ \cup {peer} ELSE @]
            /\ wire' = rest \cup l.relays
            /\ UNCHANGED <<links, connected, served>>
    /\ UNCHANGED <<issued, started, shed, scene, now, faults>>

\* on_request of a push; the acknowledgement is not modelled.
ReceivePush(msg) ==
    /\ msg \in wire /\ msg.type = "Push"
    /\ Settle(msg.to, msg.from,
              Receive(msg.to, msg.from, <<[event |-> msg.event, ttl |-> msg.ttl]>>),
              wire \ {msg})

\* Some k events of a log with none older left out, oldest first; events of
\* one time come in the order of their ids, which can be any.
OldestFirst(n, k) ==
    {s \in [1..k -> Held(n)] :
        /\ \A i, j \in 1..k : i < j => s[i] /= s[j] /\ issued[s[i]] <= issued[s[j]]
        /\ \A e \in Held(n) : \/ \E i \in 1..k : s[i] = e
                             \/ \A i \in 1..k : issued[s[i]] <= issued[e]}

\* recoverable_for: oldest first, as much as one response carries.
Recoverable(n) ==
    {[i \in DOMAIN s |-> [event |-> s[i], ttl |-> stored[n][s[i]]]] :
        s \in OldestFirst(n, Min({Cardinality(Held(n)), RecoveryBudget}))}

\* on_request of a recovery request: the log once per connection, after
\* that an empty answer.
AnswerRecovery(msg) ==
    LET n == msg.to
        peer == msg.from
    IN  \E events \in IF peer \in served[n] THEN {<<>>} ELSE Recoverable(n) :
        /\ msg \in wire /\ msg.type = "RecoveryRequest"
        /\ served' = [served EXCEPT ![n] = @ \cup {peer}]
        /\ wire' = (wire \ {msg}) \cup {Answer(n, peer, events)}
        /\ missed' = [missed EXCEPT ![peer] =
                IF \/ peer \notin served[n] /\ Len(events) < Cardinality(Held(n))
                   \/ peer \notin connected[n]
                THEN @ \cup {n} ELSE @]
        /\ handed' = {}
        /\ UNCHANGED <<issued, stored, links, connected, credit, alarmed,
                       started, shed, scene, now, faults>>

\* on_response: every recovered event is received from the peer that sent it.
ReceiveRecovery(msg) ==
    /\ msg \in wire /\ msg.type = "RecoveryResponse"
    /\ Settle(msg.to, msg.from, Receive(msg.to, msg.from, msg.events), wire \ {msg})

-----------------------------------------------------------------------------
(* Connections, faults and retention.                                      *)

\* request_recovery, by both ends.
AskEachOther(n, m) == {Ask(n, m), Ask(m, n)}

\* ConnectionEstablished at both ends.
Connect(n, m) ==
    /\ {n, m} \in Routes /\ links[{n, m}] < scene.links
    /\ links' = [links EXCEPT ![{n, m}] = @ + 1]
    /\ connected' = [connected EXCEPT ![n] = @ \cup {m}, ![m] = @ \cup {n}]
    /\ wire' = wire \cup AskEachOther(n, m)
    /\ handed' = {}
    /\ UNCHANGED <<issued, stored, served, credit, alarmed, started, missed,
                   shed, scene, now, faults>>

\* ConnectionClosed, at both ends, whether or not another one is open: the
\* peer is forgotten, though what travels on the other one still arrives.
Close(n, m) ==
    /\ Linked(n, m) /\ faults < scene.faults
    /\ links' = [links EXCEPT ![{n, m}] = @ - 1]
    /\ connected' = [connected EXCEPT ![n] = @ \ {m}, ![m] = @ \ {n}]
    /\ served' = Rearmed(n, m)
    /\ credit' = [credit EXCEPT ![n] = Less(@, {m}), ![m] = Less(@, {n})]
    /\ missed' = [missed EXCEPT ![n] = @ \ {m}, ![m] = @ \ {n}]
    /\ \E kept \in IF links[{n, m}] > 1 THEN SUBSET Between(wire, n, m) ELSE {{}} :
            wire' = Drained(wire, n, m) \cup kept
    /\ faults' = faults + 1
    /\ handed' = {}
    /\ UNCHANGED <<issued, stored, alarmed, started, shed, scene, now>>

\* A push or a response the receiver had no stream for.
Lose(msg) ==
    /\ msg \in wire /\ faults < scene.faults
    /\ wire' = wire \ {msg}
    /\ missed' = [missed EXCEPT ![msg.to] = @ \cup {msg.from},
                                ![msg.from] = @ \cup {msg.to}]
    /\ faults' = faults + 1
    /\ handed' = {}
    /\ UNCHANGED <<issued, stored, links, connected, served, credit, alarmed,
                   started, shed, scene, now>>

\* A process restart: everything in memory is new, the log is as it was or,
\* if the data directory is lost, empty.
Restart(n, keepLog) ==
    LET Cut(f) == [m \in Nodes |-> IF m = n THEN {} ELSE f[m] \ {n}] IN
    /\ faults < scene.faults
    /\ faults' = faults + 1
    /\ started' = [started EXCEPT ![n] = now]
    /\ stored' = [stored EXCEPT ![n] = IF keepLog THEN stored[n] ELSE EmptyFn]
    /\ links' = [p \in Routes |-> IF n \in p THEN 0 ELSE links[p]]
    /\ connected' = Cut(connected)
    /\ served' = Cut(served)
    /\ missed' = Cut(missed)
    /\ credit' = [m \in Nodes |-> IF m = n THEN EmptyFn ELSE Less(credit[m], {n})]
    /\ alarmed' = [alarmed EXCEPT ![n] = FALSE]
    /\ shed' = [shed EXCEPT ![n] = {}]
    /\ wire' = {v \in wire : n \notin {v.from, v.to}}
    /\ handed' = {}
    /\ UNCHANGED <<issued, scene, now>>

\* poll_gossip_pruning
Prune(n) ==
    LET old == {e \in Held(n) : issued[e] < now - LogRetention} IN
    /\ old /= {}
    /\ stored' = [stored EXCEPT ![n] = Less(stored[n], old)]
    /\ shed' = [shed EXCEPT ![n] = shed[n] \cup {e \in old : Impostor(n, e)}]
    /\ handed' = {}
    /\ UNCHANGED <<issued, links, connected, served, credit, alarmed, started,
                   wire, missed, scene, now, faults>>

\* Time passes, and every bucket refills.
Tick ==
    /\ now < scene.clock
    /\ now' = now + 1
    /\ credit' = [n \in Nodes |-> [m \in DOMAIN credit[n] |->
                    [credit[n][m] EXCEPT !.tokens = scene.capacity]]]
    /\ handed' = {}
    /\ UNCHANGED <<issued, stored, links, connected, served, alarmed, started,
                   wire, missed, shed, scene, faults>>

GossipNext ==
    \/ \E e \in Events : Originate(e)
    \/ \E msg \in wire : ReceivePush(msg)
    \/ \E msg \in wire : AnswerRecovery(msg)
    \/ \E msg \in wire : ReceiveRecovery(msg)
    \/ \E msg \in wire : Lose(msg)
    \/ \E n, m \in Nodes : Connect(n, m)
    \/ \E n, m \in Nodes : Close(n, m)
    \/ \E n \in Nodes, keepLog \in BOOLEAN : Restart(n, keepLog)
    \/ \E n \in Nodes : Prune(n)
    \/ Tick

GossipSpec == GossipInit /\ [][GossipNext]_gossipVars

-----------------------------------------------------------------------------
(* Properties.                                                             *)

\* Whatever connections, losses, floods and restarts do, the mesh implements
\* the event log: receive_event gives an event to the handlers exactly when
\* it enters the log, and only events their origin signed ever enter.
Log == INSTANCE EventLog WITH
    issued <- {e \in Events : issued[e] >= 0},
    log <- [n \in Nodes |-> Held(n)]
ImplementsEventLog == Log!LogSpec

\* What the spreading of an event may be excused by (EventsSpread).
SpreadOrExcused(n, m, e) ==
    \/ m \notin connected[n]
    \/ e \notin Held(n)
    \/ e \in Held(m)
    \/ n \in missed[m]
    \/ Impostor(m, e)

\* An honest restart never accuses itself: of all the ways a node can meet
\* its own events again (an echo, a peer's log, a lost data directory) only
\* an event that retention took from it since it booted raises the alarm.
AccusesOnlyTheShed ==
    \A n \in Nodes : alarmed'[n] /\ ~alarmed[n] => shed[n] /= {}
RestartNeverAccuses == [][AccusesOnlyTheShed]_gossipVars

=============================================================================
