------------------------------ MODULE Arbitration ------------------------------
(***************************************************************************)
(* What arbitration promises to the custody of a trade, without saying how *)
(* a verdict is reached: a case is opened once and resolved once, its      *)
(* verdict never changes, and money is owed to arbitrators only when the   *)
(* merchant lost, an amount that is fixed with the verdict and only paid   *)
(* down.  DisputeCase (how votes become a verdict) and EscrowCustody (how  *)
(* a verdict moves tokens) both implement it.                              *)
(***************************************************************************)
EXTENDS Integers

VARIABLES
  phase,    \* "none", "open", "resolved"
  verdict,  \* the verdict, or "none"
  owed      \* what the arbitrators who voted for it have yet to be paid

arbitrationVars == <<phase, verdict, owed>>

PossibleVerdicts ==
  {"BuyerWins", "MerchantWins", "MutualSettlement", "InvalidDispute", "TerminalSplit"}

ArbitrationInit == phase = "none" /\ verdict = "none" /\ owed = 0

OpenCase ==
  /\ phase = "none"
  /\ phase' = "open"
  /\ UNCHANGED <<verdict, owed>>

Resolve(v) ==
  /\ phase = "open"
  /\ phase' = "resolved"
  /\ verdict' = v
  /\ owed' \in Nat
  /\ v # "BuyerWins" => owed' = 0

PayArbitrator ==
  /\ phase = "resolved"
  /\ verdict = "BuyerWins"
  /\ owed' \in 0..(owed - 1)
  /\ UNCHANGED <<phase, verdict>>

ArbitrationNext ==
  OpenCase \/ (\E v \in PossibleVerdicts : Resolve(v)) \/ PayArbitrator

\* A step of a system that contains the case.
ArbitrationStep == [ArbitrationNext]_arbitrationVars

ArbitrationSpec == ArbitrationInit /\ [][ArbitrationNext]_arbitrationVars
===============================================================================
