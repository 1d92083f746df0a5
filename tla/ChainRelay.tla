------------------------------ MODULE ChainRelay ------------------------------
(***************************************************************************)
(* The chain bridge of a mesh of nodes: blockhash announcements and their  *)
(* suppression by content, the queue `sendTransaction` fills, submission   *)
(* to a Solana endpoint, and the poll that turns a confirmed signature     *)
(* into a settlement's release or a dispute's verdict.                     *)
(*                                                                         *)
(* The chain itself and the delivery of an event to a neighbour, at most   *)
(* once per event, are external; a node's tick runs to completion.         *)
(***************************************************************************)
EXTENDS Integers, FiniteSets, SequencesExt

CONSTANTS
  Nodes,
  Validity,        \* BLOCKHASH_VALIDITY in ticks of the clock
  MaxTick,         \* bound on the clock
  None

VARIABLES
  plan,      \* rigid: links, the rpc-connected nodes, the blockhashes the cluster
             \* produces, what clients send where, what peers ask to be relayed,
             \* what settlements are approved, what a dispute's case account says
  bridge,    \* ChainBridge.cache per node
  cache,     \* ChainState.cache per node
  pending,   \* ChainState.pending_relay per node
  awaiting,  \* ChainState.awaiting_confirmation per node
  ledger,    \* external: what the cluster has made of each transaction
  release,   \* escrow_release_signature of each settlement at each node
  verdict,   \* what each node recorded of each dispute's execution
  transit,   \* events on their way to a neighbour
  got,       \* events each node has stored
  todo,      \* calls of clients and peers not made yet
  tick       \* the clock

relayVars == <<plan, bridge, cache, pending, awaiting, ledger, release, verdict,
               transit, got, todo, tick>>

RpcConnected(n) == n \in plan.rpc
Peers(n) == {m \in Nodes : {m, n} \in plan.links}

NoCache == [seen |-> {}, current |-> None]

RelayInit(plans) ==
  /\ plan \in plans
  /\ bridge = [n \in Nodes |-> NoCache]
  /\ cache = [n \in Nodes |-> NoCache]
  /\ pending = [n \in Nodes |-> <<>>]
  /\ awaiting = [n \in Nodes |-> <<>>]
  /\ ledger = [t \in plan.txs |-> "unknown"]
  /\ release = [n \in Nodes |-> [t \in plan.txs |-> None]]
  /\ verdict = [n \in Nodes |-> [t \in plan.txs |-> None]]
  /\ transit = {}
  /\ got = [n \in Nodes |-> {}]
  /\ todo = plan.calls
  /\ tick = 0

-------------------------------------------------------------------------------
(* The blockhash cache. *)

Fresh(at) == tick - at < Validity

Pruned(c) == {o \in c.seen : Fresh(o.at)}

FirstSeen(c, slot) == \A o \in Pruned(c) : o.slot # slot

\* A blockhash stands for its slot: the pair is what is announced.
Observe(c, slot) ==
  [seen |-> {o \in Pruned(c) : o.slot # slot} \cup {[slot |-> slot, at |-> tick]},
   current |-> IF c.current = None THEN [slot |-> slot, at |-> tick]
               ELSE IF slot > c.current.slot THEN [slot |-> slot, at |-> tick]
               ELSE c.current]

Current(c) ==
  IF c.current = None THEN None ELSE IF Fresh(c.current.at) THEN c.current.slot ELSE None

-------------------------------------------------------------------------------
(* Events.  A sender hands one to each neighbour but the one it came from.    *)

Event(kind, origin, body) == [kind |-> kind, origin |-> origin, at |-> tick, body |-> body]

Broadcast(n, e, except) == {[to |-> m, from |-> n, event |-> e] : m \in Peers(n) \ {except}}

\* Mutant: the handler, which runs before the filter, observes the content first.
ForwardsAfterHandler(n, e) ==
  e.kind = "BlockhashAnnounced" => FirstSeen(Observe(bridge[n], e.body), e.body)

\* A blockhash already seen here is not forwarded, whoever announced it.
Forwards(n, e) == e.kind = "BlockhashAnnounced" => FirstSeen(bridge[n], e.body)

Enqueued(n, body) == pending' = [pending EXCEPT ![n] = Append(@, body)]

Receive(msg) ==
  LET n == msg.to
      e == msg.event
      rest == transit \ {msg}
  IN  IF e \in got[n]
      THEN transit' = rest /\ UNCHANGED <<bridge, cache, pending, got>>
      ELSE /\ got' = [got EXCEPT ![n] = @ \cup {e}]
           /\ transit' = rest \cup (IF Forwards(n, e) THEN Broadcast(n, e, msg.from) ELSE {})
           /\ IF e.kind = "BlockhashAnnounced"
              THEN /\ cache' = [cache EXCEPT ![n] = Observe(@, e.body)]
                   /\ bridge' = [bridge EXCEPT ![n] = Observe(@, e.body)]
              ELSE UNCHANGED <<cache, bridge>>
           /\ IF e.kind = "TransactionRelayRequested" /\ RpcConnected(n) /\ e.body.wellFormed
              THEN Enqueued(n, e.body)
              ELSE UNCHANGED pending

\* A neighbour's message is handled: what Gossip models in full is a step here.
Deliver ==
  /\ \E msg \in transit : Receive(msg)
  /\ UNCHANGED <<plan, awaiting, ledger, release, verdict, todo, tick>>

\* The bridge's entry point for a peer without an endpoint; a node itself never calls it.
RequestTransactionRelay(call) ==
  LET e == Event("TransactionRelayRequested", call.node, call.body)
  IN  /\ call \in todo /\ call.kind = "relay"
      /\ todo' = todo \ {call}
      /\ got' = [got EXCEPT ![call.node] = @ \cup {e}]
      /\ transit' = transit \cup Broadcast(call.node, e, call.node)
      /\ UNCHANGED <<plan, bridge, cache, pending, awaiting, ledger, release, verdict, tick>>

SendTransaction(call) ==
  /\ call \in todo /\ call.kind = "send"
  /\ todo' = todo \ {call}
  /\ IF call.body.wellFormed THEN Enqueued(call.node, call.body) ELSE UNCHANGED pending
  /\ UNCHANGED <<plan, bridge, cache, awaiting, ledger, release, verdict, transit, got, tick>>

-------------------------------------------------------------------------------
(* One tick of an rpc-connected node.                                         *)

AnnounceBlockhash(n, slot) ==
  IF slot = None
  THEN UNCHANGED <<bridge, cache>>
  ELSE /\ bridge' = [bridge EXCEPT ![n] = Observe(@, slot)]
       /\ cache' = [cache EXCEPT ![n] = Observe(@, slot)]

\* Two announcements of one thing by one node at one time are one event.
Announced(n, slot, confirmed) ==
  LET said == {Event("TransactionRelayed", n, a.tx) : a \in confirmed}
                \cup {Event("BlockhashAnnounced", n, s) : s \in {slot} \ {None}}
  IN  /\ got' = [got EXCEPT ![n] = @ \cup said]
      /\ transit' = transit \cup UNION {Broadcast(n, e, n) : e \in said \ got[n]}

\* Accepted by any one of the endpoints; what none accepts is dropped, not requeued.
Submitted(n, accepted) ==
  LET taken == SelectSeq(pending[n], LAMBDA p : p.tx \in accepted)
      slot == IF Current(cache'[n]) = None THEN 0 ELSE Current(cache'[n])
  IN  [i \in 1..Len(taken) |->
         [tx |-> taken[i].tx, correlation |-> taken[i].correlation, slot |-> slot]]

\* Mutant: what an endpoint accepted counts as confirmed.
SuccessWhenAccepted(t, read) == t \in read /\ ledger'[t] \in {"accepted", "landed"}

Success(t, read) == t \in read /\ ledger'[t] = "landed"

Failed(t, read) == t \in read /\ ledger'[t] = "failed"

\* A release is recorded for an approved settlement that has none yet.
Released(n, confirmed) ==
  [t \in plan.txs |->
     IF /\ release[n][t] = None /\ t \in plan.approved
        /\ \E a \in confirmed : a.tx = t /\ a.correlation = "settlement"
     THEN t ELSE release[n][t]]

\* An execution is recorded with the outcome only if the case account could be read.
Executed(n, confirmed, read) ==
  [t \in plan.txs |->
     IF (\E a \in confirmed : a.tx = t /\ a.correlation = "dispute")
          /\ verdict[n][t] \in {None, "executed"}
     THEN IF t \in read THEN plan.outcome[t] ELSE "executed"
     ELSE verdict[n][t]]

PollChain(n, slot, accepted, statusRead, accountRead) ==
  /\ AnnounceBlockhash(n, slot)
  /\ ledger' = [t \in plan.txs |->
       IF ledger[t] = "unknown" /\ \E p \in ToSet(pending[n]) : p.tx = t /\ t \in accepted
       THEN "accepted" ELSE ledger[t]]
  /\ pending' = [pending EXCEPT ![n] = <<>>]
  /\ LET tracked == awaiting[n] \o Submitted(n, accepted)
         confirmed == {a \in ToSet(tracked) : Success(a.tx, statusRead)}
     IN  /\ Announced(n, slot, confirmed)
         /\ awaiting' = [awaiting EXCEPT ![n] = SelectSeq(tracked, LAMBDA a :
                           ~Success(a.tx, statusRead) /\ ~Failed(a.tx, statusRead))]
         /\ release' = [release EXCEPT ![n] = Released(n, confirmed)]
         /\ verdict' = [verdict EXCEPT ![n] = Executed(n, confirmed, accountRead)]

Poll(n) ==
  /\ RpcConnected(n)
  /\ \E slot \in plan.slots \cup {None}, accepted \in SUBSET plan.txs,
        statusRead \in SUBSET plan.txs, accountRead \in SUBSET plan.txs :
       PollChain(n, slot, accepted, statusRead, accountRead)
  /\ UNCHANGED <<plan, todo, tick>>

\* External: an accepted transaction lands, fails, or is dropped by never changing.
ClusterDecides ==
  /\ \E t \in plan.txs, s \in {"landed", "failed"} :
       ledger[t] = "accepted" /\ ledger' = [ledger EXCEPT ![t] = s]
  /\ UNCHANGED <<plan, bridge, cache, pending, awaiting, release, verdict, transit, got,
                 todo, tick>>

RelayTick ==
  /\ tick < MaxTick
  /\ tick' = tick + 1
  /\ UNCHANGED <<plan, bridge, cache, pending, awaiting, ledger, release, verdict, transit,
                 got, todo>>

RelayNext ==
  \/ Deliver
  \/ \E call \in todo : SendTransaction(call) \/ RequestTransactionRelay(call)
  \/ \E n \in Nodes : Poll(n)
  \/ ClusterDecides
  \/ RelayTick

-------------------------------------------------------------------------------

(* A node tells its users that escrow was released, or a dispute decided,    *)
(* only when the transaction landed: acceptance by an endpoint is not        *)
(* confirmation, however often it was relayed or polled; and a verdict is    *)
(* never one the case account does not hold (poll_chain).                    *)
RecordsOnlyWhatLanded ==
  \A n \in Nodes, t \in plan.txs :
    /\ release[n][t] # None => ledger[t] = "landed" /\ t \in plan.approved
    /\ verdict[n][t] # None => ledger[t] = "landed"
    /\ verdict[n][t] \notin {None, "executed"} => verdict[n][t] = plan.outcome[t]

Heard(n, slot) == \E e \in got[n] : e.kind = "BlockhashAnnounced" /\ e.body = slot

(* Every neighbour has heard the blockhashes a node has, and what reached an *)
(* rpc-connected node was offered to its endpoint.                           *)
BridgeIsClear ==
  \A n \in Nodes :
    /\ \A e \in got[n], m \in Peers(n) :
         e.kind = "BlockhashAnnounced" => Heard(m, e.body)
    /\ RpcConnected(n) => pending[n] = <<>>

(* A node without an endpoint still relays what its clients send to a peer   *)
(* that has one.                                                             *)
QueuedTransactionsAreOffered ==
  <>[](\A n \in Nodes : pending[n] = <<>>)
===============================================================================
