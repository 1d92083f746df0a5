----------------------------- MODULE MCDisputeCase -----------------------------
(* Instances of DisputeCase for TLC. *)
EXTENDS DisputeCase, TLC

CONSTANTS a1, a2, a3, a4, a5, a6

SixArbitrators == {a1, a2, a3, a4, a5, a6}

\* A trade in a stablecoin, with treasuries that can take its fee.
StablecoinTrade == {[aliased |-> FALSE, treasuries |-> "payable"]}

Symmetry == Permutations(Arbitrators)
===============================================================================
