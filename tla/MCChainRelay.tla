----------------------------- MODULE MCChainRelay -----------------------------
(* Instances of ChainRelay for TLC. *)
EXTENDS ChainRelay

Body(tx, correlation) == [tx |-> tx, correlation |-> correlation, wellFormed |-> TRUE]
Call(kind, node, body) == [kind |-> kind, node |-> node, body |-> body]

\* Two nodes with an endpoint at the ends of a line, one without between them.
Line == {{"a", "b"}, {"b", "c"}}
Quiet == [links |-> Line, rpc |-> {"a", "c"}, slots |-> {}, txs |-> {}, calls |-> {},
          approved |-> {}, outcome |-> <<>>]

Announcements == [Quiet EXCEPT !.slots = {1, 2}, !.rpc = {"a"}]
TwoAnnouncers == [Quiet EXCEPT !.slots = {1}]

\* The same release reaches both nodes with an endpoint, and one of them twice.
Releases == [Quiet EXCEPT !.txs = {"t1"}, !.approved = {"t1"}, !.outcome = [t \in {"t1"} |-> None],
               !.calls = {Call("relay", "b", Body("t1", "settlement")),
                          Call("send", "a", Body("t1", "settlement"))}]

Verdicts == [Quiet EXCEPT !.txs = {"t1", "t2"}, !.rpc = {"a"},
               !.outcome = [t \in {"t1", "t2"} |-> IF t = "t1" THEN "BuyerWins" ELSE None],
               !.calls = {Call("send", "a", Body("t1", "dispute")),
                          Call("send", "a", [Body("t2", "settlement") EXCEPT !.wellFormed = FALSE]),
                          Call("relay", "b", Body("t2", "settlement"))}]

GossipOnlySender == [Quiet EXCEPT !.txs = {"t1"}, !.outcome = [t \in {"t1"} |-> None],
                       !.calls = {Call("send", "b", Body("t1", "settlement"))}]

Plans == {Announcements, TwoAnnouncers, Releases, Verdicts}

\* A client of the node without an endpoint.  Gossip delivers, and every node polls.
SenderSpec ==
  /\ RelayInit({GossipOnlySender}) /\ [][RelayNext]_relayVars
  /\ WF_relayVars(Deliver)
  /\ \A n \in Nodes : WF_relayVars(Poll(n))
===============================================================================
