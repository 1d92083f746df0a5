------------------------------- MODULE MCLedgers -------------------------------
(***************************************************************************)
(* Small instances of three ledgers: one case with its seats and rewards,  *)
(* the presale, and the records of a disputed trade at a node.             *)
(*                                                                         *)
(* `focus` picks one of them for a behavior, and the others stay as they   *)
(* were at the start.  They share nothing, so a behavior of one at a time  *)
(* is all a check of each needs.                                           *)
(***************************************************************************)
EXTENDS DisputeCase, Presale, TradePipeline

CONSTANTS a1, a2, a3, b1, m1, r1, s1, d1, d2

VARIABLE focus

\* A trade in a stablecoin, with treasuries that can take its fee.
StablecoinTrade == {[aliased |-> FALSE, treasuries |-> "payable"]}

OneTrade == {[min |-> 1, max |-> 1, methods |-> "selectable"]}

\* Sales of a few tokens at two rates, and parameters the program refuses.
Terms(cap, rate, start, end) ==
  [hard_cap |-> cap, soft_cap |-> 0, min_contribution |-> 1, max_contribution |-> 4,
   max_slippage_bps |-> 5000, open_per_usdc |-> rate, start_time |-> start, end_time |-> end]

SomeSales ==
  {Terms(3, 2, 0, 1), Terms(2, 1, 0, 2), [Terms(4, 1, 1, 2) EXCEPT !.min_contribution = 2],
   [Terms(3, 2, 0, 1) EXCEPT !.soft_cap = 1]}

NoCase == CaseInit /\ power = [a \in Arbitrators |-> 0] /\ aged = Arbitrators

LedgersInit ==
  /\ PresaleInit /\ PipelineInit
  /\ \/ focus = "case" /\ CaseInit
     \/ focus \in {"presale", "records"} /\ NoCase

CaseTurn == focus = "case" /\ CaseNext /\ UNCHANGED <<focus, saleVars, pipelineVars>>

PresaleTurn == focus = "presale" /\ PresaleNext /\ UNCHANGED <<focus, caseVars, pipelineVars>>

RecordsTurn ==
  focus = "records" /\ PipelineNext /\ UNCHANGED <<focus, caseVars, saleVars>>

LedgersNext == CaseTurn \/ PresaleTurn \/ RecordsTurn

ledgersVars == <<focus, caseVars, saleVars, pipelineVars>>

LedgersSpec == LedgersInit /\ [][LedgersNext]_ledgersVars
===============================================================================
