------------------------------ MODULE EventLog ------------------------------
(***************************************************************************)
(* What the gossip layer promises the registries built on it: every node   *)
(* keeps a log of events; an event enters a log only after its origin      *)
(* issued it, and is handed to the node's handlers exactly when it enters. *)
(* Nothing is promised about order.  A log may forget (retention) or be    *)
(* lost with its data directory, after which an event can be heard again.  *)
(***************************************************************************)
EXTENDS Naturals, FiniteSets

CONSTANTS Nodes, Events

VARIABLES issued,     \* the events some node has originated
          log,        \* log[n]: the events node n holds
          handed      \* the (node, event) pairs just given to handlers

logVars == <<issued, log, handed>>

LogInit ==
    /\ issued = {}
    /\ log = [n \in Nodes |-> {}]
    /\ handed = {}

\* A set of events enters the log of n, each handed to the handlers once.
Enter(n, new) ==
    /\ log' = [log EXCEPT ![n] = log[n] \cup new]
    /\ handed' = {n} \X new

LogOriginate(n, e) ==
    /\ e \notin issued
    /\ issued' = issued \cup {e}
    /\ Enter(n, {e})

LogHear(n, new) ==
    /\ new /= {} /\ new \subseteq issued \ log[n]
    /\ Enter(n, new)
    /\ UNCHANGED issued

LogForget(n, gone) ==
    /\ log' = [log EXCEPT ![n] = log[n] \ gone]
    /\ handed' = {}
    /\ UNCHANGED issued

LogNext ==
    \E n \in Nodes :
        \/ \E e \in Events : LogOriginate(n, e)
        \/ \E new \in SUBSET Events : LogHear(n, new)
        \/ \E gone \in SUBSET Events : LogForget(n, gone)

LogSpec == LogInit /\ [][LogNext]_logVars

=============================================================================
