------------------------------ MODULE MCPromises ------------------------------
(***************************************************************************)
(* What the programs promise to the people who put stake, a dispute or a   *)
(* vote into them, on small instances: stake accounts of two wallets with  *)
(* one vault behind them, a case staffed by a draw, and governance with    *)
(* its deposits and its ban list.  `focus` picks one of the three for a    *)
(* behavior, and the others hold nothing.                                  *)
(***************************************************************************)
EXTENDS Staking, Governance, TLC

CONSTANTS w1, w2

NoLegacy == {}
MerchantLegacy == {<<w1, "Merchant">>}

Cfg(min, period, bps) ==
  [layout |-> "new", min |-> [r \in Roles |-> min], period |-> [r \in Roles |-> period],
   slash_bps |-> bps, slash_ok |-> TRUE]

\* A deployment may have its config in the old layout, with a slash destination that never
\* was initialized, until the admin migrates and then updates it.
StakeConfigs == {Cfg(2, 2, 5000), [Cfg(2, 2, 5000) EXCEPT !.layout = "old", !.slash_ok = FALSE]}
ShorterPeriod == {Cfg(1, 3, 5000), Cfg(1, 1, 5000)}

CONSTANTS a1, a2, a3

VARIABLES
  focus,
  status, round, elapsed, window, seat, ticket, barred, seats_taken_total, published,
  custody, power, aged, outcome, terminal_reason, reward, served

caseVars == <<status, round, elapsed, window, seat, ticket, barred, seats_taken_total, published,
              custody, power, aged, outcome, terminal_reason, reward, served>>
promiseVars == <<focus, stakingVars, caseVars, govVars>>

\* A draw that starts at one ticket in ten thousand; windows of eight and nine seconds.
\* The trade is in a stablecoin, under treasuries that are wallets at first and then token
\* accounts of its mint or of another, or in OPEN.
Case == INSTANCE DisputeCase WITH
  Arbitrators <- {a1, a2, a3}, Votes <- {"BuyerWins"}, Restakers <- {}, Powers <- {1}, MinStake <- 1,
  Tickets <- {3, 9999}, SortitionBps <- 1, CommitWindows <- {8, 9}, RevealWindows <- {1},
  Deposits <- {0}, PoolSizes <- {2},
  Custodies <- {[aliased |-> FALSE, treasuries |-> "wallets"],
                [aliased |-> TRUE, treasuries |-> "payable"]},
  StoredTreasuries <- {"payable", "unpayable"}, MIN_ARBITRATORS <- 2, MAX_ARBITRATORS <- 3,
  MAX_DISPUTE_ROUNDS <- 2, MAX_BARRED_ARBITRATORS <- 3

-----------------------------------------------------------------------------
(* Governance: four situations, two wallets and two proposals              *)

Voters == {w1, w2}

Params(lock, quorum, deposit) ==
  [total_open_supply |-> 4, quorum_bps |-> quorum, quorum_upgrade_bps |-> 7500,
   threshold_simple_bps |-> 5000, threshold_treasury_bps |-> 6000,
   threshold_upgrade_bps |-> 6700, deposit_amount |-> deposit, vote_lock_secs |-> lock]

Draft(category, action) == [category |-> category, action |-> action, period |-> 1]
Does(kind, w) == [kind |-> kind, wallet |-> w]
Nothing == Does("None", None)

\* A wallet is listed by one vote and delisted by another, while the admin moves the delay
\* within and beyond what the program accepts.
Exclusion ==
  [drafts |-> <<{Draft("Standards", Does("ListWallet", w1))},
                {Draft("Standards", Does("DelistWallet", w1))}>>,
   proposers |-> {w2}, linkers |-> {}, stored |-> Params(1, 5000, 1),
   params |-> {Params(1, 5000, 1), Params(2, 5000, 1), Params(9, 5000, 1)},
   weights |-> [w \in Voters |-> IF w = w1 THEN {} ELSE {3}]]

\* One proposal of each category, a vote against, a weight of zero, refused parameters.
Categories ==
  [Exclusion EXCEPT
     !.drafts = <<{Draft("Treasury", Nothing), Draft("Parameter", Nothing),
                   Draft("ProtocolUpgrade", Nothing), Draft("Standards", Does("ListWallet", w1)),
                   Draft("Parameter", Does("ListWallet", w1)),
                   [Draft("Standards", Nothing) EXCEPT !.period = 0]}, {}>>,
     !.linkers = {w2},
     !.params = {Params(1, 5000, 1), Params(1, 10001, 1), Params(1, 2500, 2)},
     !.weights = [w \in Voters |-> IF w = w1 THEN {1} ELSE {0, 3}]]

\* Nothing configured yet.
Fresh == [Categories EXCEPT !.stored = None]

\* Two deposits, of amounts that change between them.
TwoDeposits ==
  [Categories EXCEPT
     !.drafts = <<{Draft("Standards", Nothing)}, {Draft("Standards", Nothing)}>>,
     !.proposers = {w1}, !.linkers = {}, !.params = {Params(1, 5000, 1), Params(1, 5000, 2)},
     !.weights = [w \in Voters |-> IF w = w1 THEN {} ELSE {3}]]

Situations == {Exclusion, Categories, Fresh, TwoDeposits}

-----------------------------------------------------------------------------
NoStakes == StakingInit /\ config = Cfg(2, 2, 5000)

NoCase ==
  /\ status = 0 /\ round = 0 /\ elapsed = 0 /\ window = 0 /\ seat = 0 /\ ticket = 0
  /\ barred = 0 /\ seats_taken_total = 0 /\ published = 0 /\ custody = 0 /\ power = 0 /\ aged = 0
  /\ outcome = 0 /\ terminal_reason = 0 /\ reward = 0 /\ served = 0

NoGov == GovernanceInit /\ act = Exclusion

PromisesInit ==
  \/ focus = "stakes" /\ StakingInit /\ NoCase /\ NoGov
  \/ focus = "case" /\ Case!CaseInit /\ NoStakes /\ NoGov
  \/ focus = "governance" /\ GovernanceInit /\ NoStakes /\ NoCase

StakesTurn == focus = "stakes" /\ StakingNext /\ UNCHANGED <<focus, caseVars, govVars>>
CaseTurn == focus = "case" /\ Case!CaseNext /\ UNCHANGED <<focus, stakingVars, govVars>>
GovTurn == focus = "governance" /\ GovernanceNext /\ UNCHANGED <<focus, stakingVars, caseVars>>

PromisesNext == StakesTurn \/ CaseTurn \/ GovTurn

\* Time passes.  An owner withdraws once it stays possible.  Recovery of a debt, execution
\* of a case and execution of a passed ban action are permissionless: whoever waits for
\* one submits it while it stays possible.
PromisesFairness ==
  /\ WF_stakingVars(focus = "stakes" /\ Tick)
  /\ \A w \in Wallets : WF_stakingVars(focus = "stakes" /\ RecoverStakeShortfall(w))
  /\ \A k \in Keys : WF_stakingVars(focus = "stakes" /\ WithdrawUnstaked(k))
  /\ WF_caseVars(focus = "case" /\ Case!Tick)
  /\ WF_caseVars(focus = "case" /\ Case!ExecuteDisputeOutcome)
  /\ WF_govVars(focus = "governance" /\ GovernanceTick)
  /\ \A i \in {1, 2} : WF_govVars(focus = "governance" /\ Execute(i))

PromisesSpec == PromisesInit /\ [][PromisesNext]_promiseVars /\ PromisesFairness

\* The stake accounts alone.
StakesSpec == focus = "stakes" /\ PromisesInit /\ [][PromisesNext]_promiseVars

-----------------------------------------------------------------------------
(* Stakes                                                                  *)

\* "It cannot trap anyone's tokens": whatever is owed, unbonding stake is eventually paid
\* out or taken by the debt.
ExitNeverTrapped ==
  \A k \in Keys :
    (focus = "stakes" /\ account[k].unbonding_amount > 0)
      ~> (focus = "stakes" /\ account[k].unbonding_amount = 0)

-----------------------------------------------------------------------------
(* Cases                                                                   *)

\* Every dispute ends, whatever arbitrators, stakes and the published pool do, unless its
\* accounts keep execute_dispute_outcome from passing: the trade is in OPEN, or the admin
\* leaves the treasuries without accounts that can take its fee.  None ends for want of a
\* draw: each commit window of at least 8 seconds (the program's minimum is 60) has a last
\* moment at which the draw excludes nobody.
CaseResolves ==
  /\ [](focus = "case" => Case!LastSecondOpenToAll)
  /\ []<>(focus = "case" => status # "open" \/ ~Case!Executable)

-----------------------------------------------------------------------------
(* Governance                                                              *)

\* An accepted exclusion or reinstatement cannot be held up for ever: however often the
\* admin moves the delay while the exception lasts, a passed ban action acts or has nothing
\* left to do (MAX_VOTE_LOCK_SECS and the sunset).
BanActionsTakeEffect ==
  \A i \in {1, 2} :
    (focus = "governance" /\ PassedBanAction(i))
      ~> (focus = "governance" /\ TookEffect(i))
===============================================================================
