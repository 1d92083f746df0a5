------------------------------ MODULE DisputeCase ------------------------------
(***************************************************************************)
(* Arbitration of one dispute: seats are taken by commitment, votes are    *)
(* revealed with the voter's stake as weight, and execute_dispute_outcome  *)
(* decides the round, re-opens it for another draw, or splits the escrow   *)
(* evenly when the rounds, or the pool of arbitrators, are exhausted.      *)
(*                                                                         *)
(* Time is measured from round_opened_at and stops mattering at the reveal *)
(* deadline, so the clock is the number of seconds since the round opened, *)
(* capped there.  A commitment is a hash of the vote and binds it.         *)
(***************************************************************************)
EXTENDS Integers, FiniteSets, FiniteSetsExt, Functions

-----------------------------------------------------------------------------
(* The draw for a seat on a dispute case: a stake account may commit when  *)
(* its ticket for the round lies below a threshold that widens while the   *)
(* commit window elapses and lets everyone in during its last slice.       *)

SORTITION_BPS_DENOMINATOR == 10000
SORTITION_WIDENING_STEPS == 8

\* A left shift by 0..7.
Shifted(x, step) == x * <<1, 2, 4, 8, 16, 32, 64, 128>>[step + 1]

\* elapsed is clamped to the window; a window lasts at least one second.
WideningStep(window, elapsed) ==
  LET step == (elapsed * SORTITION_WIDENING_STEPS) \div window IN
  IF step >= SORTITION_WIDENING_STEPS THEN SORTITION_WIDENING_STEPS - 1 ELSE step

\* Mutant: the doubling alone decides, in the last slice too.
ThresholdDoublingOnly(initial, window, elapsed) ==
  IF initial = 0 \/ initial >= SORTITION_BPS_DENOMINATOR THEN SORTITION_BPS_DENOMINATOR
  ELSE Min({Shifted(initial, WideningStep(window, elapsed)), SORTITION_BPS_DENOMINATOR})

SortitionThreshold(initial, window, elapsed) ==
  LET step == WideningStep(window, elapsed) IN
  IF \/ initial = 0
     \/ initial >= SORTITION_BPS_DENOMINATOR
     \/ step = SORTITION_WIDENING_STEPS - 1
  THEN SORTITION_BPS_DENOMINATOR
  ELSE Min({Shifted(initial, step), SORTITION_BPS_DENOMINATOR})

QualifiesForSeat(ticket, initial, window, elapsed) ==
  initial = 0 \/ ticket < SortitionThreshold(initial, window, elapsed)

-----------------------------------------------------------------------------
CONSTANTS
  Arbitrators,      \* wallets with an arbitrator stake account
  Votes,            \* the verdicts arbitrators vote for
  Restakers,        \* wallets whose stake changes while the case is open
  Powers,           \* effective stakes; 0 below the role's minimum
  MinStake,         \* min_stake_for(Arbitrator)
  Tickets,          \* draws, in basis points
  SortitionBps,     \* FeeConfig.arbitrator_sortition_bps
  CommitWindows, RevealWindows,   \* windows the opener may pick
  Deposits,         \* what the case holds as deposit when it is decided
  PoolSizes,        \* pool sizes governance publishes
  Custodies,        \* what the trade and the fee configuration are at first
  StoredTreasuries, \* treasuries an admin stores while the case is open
  MIN_ARBITRATORS, MAX_ARBITRATORS, MAX_DISPUTE_ROUNDS, MAX_BARRED_ARBITRATORS

Outcomes == {"BuyerWins", "MerchantWins", "MutualSettlement", "InvalidDispute"}

\* FeeConfig's four treasuries, as the trade's release finds them: plain wallets, token
\* accounts that cannot take its fee (another mint's), or ones that can.
TokenTreasuries == {"unpayable", "payable"}
CustodyKinds == [aliased : BOOLEAN, treasuries : {"wallets"} \cup TokenTreasuries]

Reasons == {"NoConsensus", "QuorumNotReached", "RoundUnstaffed", "PoolExhausted"}

\* The capacity of `barred` is what every round but the last can add to it.
ASSUME DisputeAssumption ==
  /\ IsFiniteSet(Arbitrators)
  /\ Restakers \subseteq Arbitrators
  /\ Votes \subseteq Outcomes
  /\ MinStake \in Nat
  /\ Powers \subseteq Nat /\ \A p \in Powers : p = 0 \/ p >= MinStake
  /\ Tickets \subseteq 0..(SORTITION_BPS_DENOMINATOR - 1)
  /\ SortitionBps \in 0..SORTITION_BPS_DENOMINATOR
  /\ CommitWindows \subseteq Nat \ {0} /\ RevealWindows \subseteq Nat \ {0}
  /\ Deposits \subseteq Nat
  /\ PoolSizes \subseteq Nat
  /\ Custodies \subseteq CustodyKinds /\ StoredTreasuries \subseteq TokenTreasuries
  /\ MIN_ARBITRATORS \in Nat \ {0} /\ MAX_ARBITRATORS \in Nat
  /\ MIN_ARBITRATORS <= MAX_ARBITRATORS
  /\ MAX_DISPUTE_ROUNDS \in Nat \ {0}
  /\ MAX_BARRED_ARBITRATORS = MAX_ARBITRATORS * (MAX_DISPUTE_ROUNDS - 1)

VARIABLES
  status,           \* "none", "open", "resolved"
  round,            \* DisputeCase.round
  elapsed,          \* seconds since round_opened_at
  window,           \* [commit, reveal]: the two window lengths
  seat,             \* the parallel arrays arbitrators/commitments/..., by wallet
  ticket,           \* each wallet's draw under the round's case_seed
  barred,           \* wallets that went silent in an earlier round
  seats_taken_total,
  published,        \* ArbitrationPolicy.eligible_arbitrators, 0 if unpublished
  custody,          \* aliased: the trade settles in OPEN, so that the deposit vault is
                    \* its liquidity vault; treasuries: FeeConfig's
  power,            \* effective_stake of each wallet (staking program)
  aged,             \* wallets whose stake meets the minimum age
  outcome,          \* the verdict, or "none"
  terminal_reason,  \* why the case was split, or "none"
  reward,           \* [pool, remaining, weight, claimed, paid] of a decided case
  served            \* history: wallets that ever took a seat on the case

roundVars == <<round, elapsed, window, seat, ticket, barred, seats_taken_total,
               served>>
stakeVars == <<power, aged>>
resultVars == <<status, outcome, terminal_reason, reward>>
caseVars == <<roundVars, stakeVars, resultVars, published, custody>>

NoSeat == [taken |-> FALSE, vote |-> "none", revealed |-> FALSE, weight |-> 0]

SeatType == [taken : BOOLEAN, vote : Outcomes \cup {"none"}, revealed : BOOLEAN,
             weight : Nat]

NoReward == [pool |-> 0, remaining |-> 0, weight |-> 0, claimed |-> {},
             paid |-> [a \in Arbitrators |-> 0]]

CaseInit ==
  /\ status = "none" /\ round = 0 /\ elapsed = 0
  /\ window = [commit |-> 0, reveal |-> 0]
  /\ seat = [a \in Arbitrators |-> NoSeat]
  /\ ticket = [a \in Arbitrators |-> 0]
  /\ barred = {} /\ seats_taken_total = 0 /\ served = {}
  /\ published = 0 /\ custody \in Custodies
  /\ power \in [Arbitrators -> Powers]
  /\ aged \in SUBSET Arbitrators /\ Arbitrators \ Restakers \subseteq aged
  /\ outcome = "none" /\ terminal_reason = "none"
  /\ reward = NoReward

Seated == {a \in Arbitrators : seat[a].taken}
Silent == {a \in Seated : ~seat[a].revealed}
Closed == elapsed >= window.commit + window.reveal

-----------------------------------------------------------------------------
(* The case, its seats and its votes                                       *)

\* A fresh draw (latch_case_seed): any ticket for any wallet.
LatchCaseSeed == ticket' \in [Arbitrators -> Tickets]

OpenDisputeCase(cw, rw) ==
  /\ status = "none"
  /\ status' = "open"
  /\ window' = [commit |-> cw, reveal |-> rw]
  /\ LatchCaseSeed
  /\ UNCHANGED <<round, elapsed, seat, barred, seats_taken_total, served, stakeVars,
                 outcome, terminal_reason, reward, published, custody>>

\* Mutant: a wallet that went silent may sit again.
CommitEvenBarred(a, vote) ==
  /\ power[a] >= MinStake /\ a \in aged /\ elapsed < window.commit
  /\ QualifiesForSeat(ticket[a], SortitionBps, window.commit, elapsed)
  /\ ~seat[a].taken /\ Cardinality(Seated) < MAX_ARBITRATORS
  /\ seat' = [seat EXCEPT ![a] = [NoSeat EXCEPT !.taken = TRUE, !.vote = vote]]
  /\ seats_taken_total' = seats_taken_total + 1
  /\ served' = served \cup {a}
  /\ UNCHANGED <<round, elapsed, window, ticket, barred, stakeVars, resultVars, published, custody>>

CommitDisputeVote(a, vote) ==
  /\ power[a] >= MinStake
  /\ a \in aged
  /\ elapsed < window.commit
  /\ a \notin barred
  /\ QualifiesForSeat(ticket[a], SortitionBps, window.commit, elapsed)
  /\ ~seat[a].taken
  /\ Cardinality(Seated) < MAX_ARBITRATORS
  /\ seat' = [seat EXCEPT ![a] = [NoSeat EXCEPT !.taken = TRUE, !.vote = vote]]
  /\ seats_taken_total' = seats_taken_total + 1
  /\ served' = served \cup {a}
  /\ UNCHANGED <<round, elapsed, window, ticket, barred, stakeVars, resultVars, published, custody>>

\* Mutant: a vote may be revealed after the reveal deadline.
RevealLate(a) ==
  /\ elapsed >= window.commit /\ status # "none"
  /\ seat[a].taken /\ ~seat[a].revealed
  /\ seat' = [seat EXCEPT ![a] = [@ EXCEPT !.revealed = TRUE, !.weight = power[a]]]
  /\ UNCHANGED <<round, elapsed, window, ticket, barred, seats_taken_total, served,
                 stakeVars, resultVars, published, custody>>

\* The weight is the stake at the reveal, not at the commitment.
RevealDisputeVote(a) ==
  /\ elapsed >= window.commit
  /\ elapsed < window.commit + window.reveal
  /\ seat[a].taken
  /\ ~seat[a].revealed
  /\ seat' = [seat EXCEPT ![a] = [@ EXCEPT !.revealed = TRUE, !.weight = power[a]]]
  /\ UNCHANGED <<round, elapsed, window, ticket, barred, seats_taken_total, served,
                 stakeVars, resultVars, published, custody>>

-----------------------------------------------------------------------------
(* Closing a round                                                         *)

Counted == {a \in Seated : seat[a].revealed /\ seat[a].weight > 0}
WeightFor(o) ==
  SumFunction([a \in {b \in Counted : seat[b].vote = o} |-> seat[a].weight])
Leading == {o \in Outcomes : \A p \in Outcomes : WeightFor(p) <= WeightFor(o)}

\* Mutant: reveals without weight count towards the quorum.
TallyPadded(o) ==
  /\ Cardinality({a \in Seated : seat[a].revealed}) >= MIN_ARBITRATORS
  /\ Leading = {o}

\* The round decides o: a quorum of weighted reveals and a single leader.
Tally(o) ==
  /\ Cardinality(Counted) >= MIN_ARBITRATORS
  /\ Leading = {o}

\* settle_deposit: only a merchant found at fault forfeits it to the winners.
DecideRound(o, deposit) ==
  LET forfeited == IF o = "BuyerWins" THEN deposit ELSE 0 IN
  /\ status = "open"
  /\ Closed
  /\ Tally(o)
  /\ status' = "resolved"
  /\ outcome' = o
  /\ reward' = [NoReward EXCEPT !.pool = forfeited, !.remaining = forfeited,
                                !.weight = WeightFor(o)]
  /\ UNCHANGED <<roundVars, stakeVars, terminal_reason, published, custody>>

Undecided == \A o \in Outcomes : ~Tally(o)

\* Mutant: the capacity is compared with what is stored, one seat at a time too late.
BarSilentSeatsOneShort(newlyBarred) ==
  /\ newlyBarred \subseteq Silent \ barred
  /\ Cardinality(newlyBarred) =
       Min({Cardinality(Silent \ barred),
            Max({0, MAX_BARRED_ARBITRATORS - 1 - Cardinality(barred)})})

\* Silent seats are barred, in seat order, until the account's capacity is reached.
BarSilentSeats(newlyBarred) ==
  /\ newlyBarred \subseteq Silent \ barred
  /\ Cardinality(newlyBarred) =
       Min({Cardinality(Silent \ barred), MAX_BARRED_ARBITRATORS - Cardinality(barred)})

\* PoolFloor: the figures an undecided round leaves behind.
RequiredForNextRound == MIN_ARBITRATORS + Cardinality(barred')
EvidencedPool(pool) == Max({pool, seats_taken_total})

\* Mutant: what the case has witnessed is ignored.
StaffableByPublished(pool) == pool = 0 \/ pool >= RequiredForNextRound

\* Mutant: a pool of exactly the required size is refused.
StaffableStrictly(pool) == pool = 0 \/ EvidencedPool(pool) > RequiredForNextRound

NextRoundIsStaffable(pool) == pool = 0 \/ EvidencedPool(pool) >= RequiredForNextRound

ExhaustedRoundsReason ==
  IF Cardinality(Seated) < MIN_ARBITRATORS THEN "RoundUnstaffed"
  ELSE IF Cardinality(Counted) < MIN_ARBITRATORS THEN "QuorumNotReached"
  ELSE "NoConsensus"

\* Mutant: the round counter is not advanced.
ReopenUncounted ==
  /\ elapsed' = 0
  /\ seat' = [a \in Arbitrators |-> NoSeat]
  /\ LatchCaseSeed
  /\ UNCHANGED <<round, window, seats_taken_total, served, resultVars>>

ReopenRound ==
  /\ round' = round + 1
  /\ elapsed' = 0
  /\ seat' = [a \in Arbitrators |-> NoSeat]
  /\ LatchCaseSeed
  /\ UNCHANGED <<window, seats_taken_total, served, resultVars>>

TerminalSplit(reason) ==
  /\ status' = "resolved"
  /\ terminal_reason' = reason
  /\ UNCHANGED <<round, elapsed, window, seat, ticket, seats_taken_total, served,
                 outcome, reward>>

\* Mutant: a case that is already resolved can be split.
HandleUndecidedAgain(newlyBarred, pool) ==
  /\ status # "none" /\ Closed /\ Undecided
  /\ BarSilentSeats(newlyBarred)
  /\ barred' = barred \cup newlyBarred
  /\ \/ round + 1 >= MAX_DISPUTE_ROUNDS /\ TerminalSplit(ExhaustedRoundsReason)
     \/ round + 1 < MAX_DISPUTE_ROUNDS /\ NextRoundIsStaffable(pool)
          /\ round' = round + 1 /\ elapsed' = 0 /\ LatchCaseSeed
          /\ seat' = [a \in Arbitrators |-> NoSeat] /\ status' = "open"
          /\ UNCHANGED <<window, seats_taken_total, served, outcome, terminal_reason, reward>>
     \/ round + 1 < MAX_DISPUTE_ROUNDS /\ ~NextRoundIsStaffable(pool)
          /\ TerminalSplit("PoolExhausted")
  /\ UNCHANGED <<stakeVars, published, custody>>

\* Mutant: one more round than the bound is opened.
HandleUndecidedOneMore(newlyBarred, pool) ==
  /\ status = "open" /\ Closed /\ Undecided
  /\ BarSilentSeats(newlyBarred)
  /\ barred' = barred \cup newlyBarred
  /\ \/ round + 1 > MAX_DISPUTE_ROUNDS /\ TerminalSplit(ExhaustedRoundsReason)
     \/ round + 1 <= MAX_DISPUTE_ROUNDS /\ NextRoundIsStaffable(pool) /\ ReopenRound
     \/ round + 1 <= MAX_DISPUTE_ROUNDS /\ ~NextRoundIsStaffable(pool)
          /\ TerminalSplit("PoolExhausted")
  /\ UNCHANGED <<stakeVars, published, custody>>

\* pool is the published size, or 0 when the caller leaves the policy account out.
HandleUndecidedRound(newlyBarred, pool) ==
  /\ status = "open"
  /\ Closed
  /\ Undecided
  /\ BarSilentSeats(newlyBarred)
  /\ barred' = barred \cup newlyBarred
  /\ \/ /\ round + 1 >= MAX_DISPUTE_ROUNDS
        /\ TerminalSplit(ExhaustedRoundsReason)
     \/ /\ round + 1 < MAX_DISPUTE_ROUNDS
        /\ NextRoundIsStaffable(pool)
        /\ ReopenRound
     \/ /\ round + 1 < MAX_DISPUTE_ROUNDS
        /\ ~NextRoundIsStaffable(pool)
        /\ TerminalSplit("PoolExhausted")
  /\ UNCHANGED <<stakeVars, published, custody>>

\* The accounts the instruction insists on, whatever the round has decided: token
\* accounts as treasuries, and a deposit vault that is not the trade's own.
AccountsPass == ~custody.aliased /\ custody.treasuries # "wallets"

\* release_trade_escrow_funds pays the fee to the treasuries.
FeePayable(o) == o = "BuyerWins" => custody.treasuries = "payable"

\* Whatever the round decides, nothing but the clock keeps it from being executed.
Executable == AccountsPass /\ custody.treasuries = "payable"

ExecuteDisputeOutcome ==
  /\ AccountsPass
  /\ \/ \E o \in Outcomes, d \in Deposits : FeePayable(o) /\ DecideRound(o, d)
     \/ \E b \in SUBSET Arbitrators, pool \in {0, published} : HandleUndecidedRound(b, pool)

-----------------------------------------------------------------------------
(* Rewards                                                                 *)

Winners == {a \in Counted : seat[a].vote = outcome}
Outstanding == Winners \ reward.claimed

ProRata(a) == (reward.pool * seat[a].weight) \div Max({reward.weight, 1})

\* Mutant: every claim is pro rata, the last one too.
RewardAmountNoRemainder(a) == Min({ProRata(a), reward.remaining})

\* Whoever claims last takes the remainder.
RewardAmount(a) ==
  IF Cardinality(Outstanding) <= 1 THEN reward.remaining
  ELSE Min({ProRata(a), reward.remaining})

ClaimArbitrationReward(a) ==
  /\ status = "resolved"
  /\ outcome # "none"
  /\ reward.remaining > 0
  /\ a \in Outstanding
  /\ LET amount == RewardAmount(a) IN
     reward' = [reward EXCEPT !.remaining = @ - amount, !.claimed = @ \cup {a},
                              !.paid[a] = amount]
  /\ UNCHANGED <<roundVars, stakeVars, status, outcome, terminal_reason, published, custody>>

-----------------------------------------------------------------------------
(* Governance, the staking program and the clock                           *)

PublishArbitratorPoolSize(n) ==
  /\ published' = n
  /\ UNCHANGED <<roundVars, stakeVars, resultVars, custody>>

\* Treasuries are stored as token accounts, of one mint.
UpdateFeeConfig(t) ==
  /\ custody' = [custody EXCEPT !.treasuries = t]
  /\ UNCHANGED <<roundVars, stakeVars, resultVars, published>>

\* Staking, unstaking and slashing while the case is open.
StakeChanges(a) ==
  /\ status = "open"
  /\ \E p \in Powers : power' = [power EXCEPT ![a] = p]
  /\ aged' \in {aged \cup {a}, aged \ {a}}
  /\ UNCHANGED <<roundVars, resultVars, published, custody>>

Tick ==
  /\ status = "open"
  /\ ~Closed
  /\ elapsed' = elapsed + 1
  /\ UNCHANGED <<round, window, seat, ticket, barred, seats_taken_total, served,
                 stakeVars, resultVars, published, custody>>

CaseNext ==
  \/ \E cw \in CommitWindows, rw \in RevealWindows : OpenDisputeCase(cw, rw)
  \/ \E a \in Arbitrators, vote \in Votes : CommitDisputeVote(a, vote)
  \/ \E a \in Arbitrators : RevealDisputeVote(a)
  \/ ExecuteDisputeOutcome
  \/ \E a \in Arbitrators : ClaimArbitrationReward(a)
  \/ \E n \in PoolSizes : PublishArbitratorPoolSize(n)
  \/ \E t \in StoredTreasuries : UpdateFeeConfig(t)
  \/ \E a \in Restakers : StakeChanges(a)
  \/ Tick

CaseSpec == CaseInit /\ [][CaseNext]_caseVars

-----------------------------------------------------------------------------
(* Safety                                                                  *)

\* The accounts of a case hold values of their types, within the vectors' capacities: a
\* case that outgrew a max_len could not be serialized, and its escrow would stay frozen.
CaseTypeOK ==
  /\ status \in {"none", "open", "resolved"}
  /\ round \in 0..(MAX_DISPUTE_ROUNDS - 1)
  /\ window \in [commit : CommitWindows \cup {0}, reveal : RevealWindows \cup {0}]
  /\ elapsed \in 0..(window.commit + window.reveal)
  /\ seat \in [Arbitrators -> SeatType]
  /\ ticket \in [Arbitrators -> Tickets \cup {0}]
  /\ barred \subseteq Arbitrators /\ served \subseteq Arbitrators
  /\ Cardinality(Seated) <= MAX_ARBITRATORS
  /\ Cardinality(barred) <= MAX_BARRED_ARBITRATORS
  /\ seats_taken_total \in Nat /\ published \in Nat /\ custody \in CustodyKinds
  /\ power \in [Arbitrators -> Powers] /\ aged \subseteq Arbitrators
  /\ outcome \in Outcomes \cup {"none"} /\ terminal_reason \in Reasons \cup {"none"}
  /\ reward \in [pool : Nat, remaining : Nat, weight : Nat,
                 claimed : SUBSET Arbitrators, paid : [Arbitrators -> Nat]]

\* No wallet that took a seat and stayed silent sits again in a later round of the
\* same case, however the draw falls and whatever it stakes in between, and
\* the lists of seats and of barred wallets stay within their account (CaseTypeOK).
BarredNeverSit == CaseTypeOK /\ (status = "open" => Seated \cap barred = {})

EndsEarly == terminal_reason = "none" /\ terminal_reason' = "PoolExhausted"

\* When the published size is not below the truth, a case is ended early only if the
\* wallets left could not have reached a quorum.
EarlyExitJustified ==
  EndsEarly /\ published >= Cardinality(Arbitrators)
    => Cardinality(Arbitrators \ barred') < MIN_ARBITRATORS

\* However low the published size, it never ends a case in which a quorum of wallets
\* that are not barred has already taken seats.
WitnessesOutrankPublished ==
  EndsEarly => Cardinality(served \ barred') < MIN_ARBITRATORS

\* A round that decided nothing either opens another one in which no seat that was silent
\* may sit (the capacity of `barred` never lets one back in), or ends the case, and then
\* because no quorum could be found: neither the published pool size nor the barred list
\* ends a case that could still be staffed.
UndecidedRoundsMoveOn ==
  [][/\ round' # round => Silent \subseteq barred'
     /\ EarlyExitJustified
     /\ WitnessesOutrankPublished]_caseVars

\* A verdict was voted by a quorum of wallets with stake behind them, and outweighs
\* every other one: zero-weight reveals and ties never decide.
VerdictIsQuorate ==
  outcome # "none" =>
    /\ Cardinality(Counted) >= MIN_ARBITRATORS
    /\ \A p \in Outcomes \ {outcome} : WeightFor(p) < WeightFor(outcome)

\* Which arbitrators a node proposes to slash (openfiat-slashing, verdict.rs).
\* compute: the seats that revealed another outcome than the tallied one.  A
\* case without a verdict condemns nobody, and neither does silence.
ComputeSlashed(seats, tallied) ==
    IF tallied = "none" THEN {}
    ELSE {a \in DOMAIN seats : seats[a].taken /\ seats[a].revealed /\ seats[a].vote # tallied}

\* Claims pay out the forfeited deposit exactly, in any order: nothing is left in the pool
\* once the last winner has claimed, nothing is paid beyond it, and each winner was paid,
\* or can still be paid, at least its share by weight.  A seat whose reveal counted is either
\* one of them or one of those the slashing relay names, never both; a silent one is neither.
RewardsAddUp ==
  LET share(a) == (reward.pool * seat[a].weight) \div reward.weight
      slashed == ComputeSlashed(seat, outcome) IN
  /\ reward.pool = reward.remaining + SumFunction(reward.paid)
  /\ status = "resolved" /\ outcome # "none" /\ Outstanding = {} => reward.remaining = 0
  /\ reward.pool > 0 =>
       /\ \A a \in reward.claimed : reward.paid[a] >= share(a)
       /\ \A a \in Outstanding : reward.remaining > 0 /\ reward.remaining >= share(a)
       /\ Counted \subseteq reward.claimed \cup Outstanding \cup slashed
       /\ reward.claimed \cup Outstanding \cup slashed \subseteq Seated \ Silent
       /\ (reward.claimed \cup Outstanding) \cap slashed = {}

\* Every commit window of at least 8 seconds (the program's minimum is 60) ends with
\* a moment at which the draw excludes nobody: a case can always be staffed.
LastSecondOpenToAll ==
  status = "open" /\ window.commit >= SORTITION_WIDENING_STEPS /\ elapsed = window.commit - 1
    => \A a \in Arbitrators :
         QualifiesForSeat(ticket[a], SortitionBps, window.commit, elapsed)

Arbitration == INSTANCE Arbitration WITH
  phase <- status,
  verdict <- IF terminal_reason = "none" THEN outcome ELSE "TerminalSplit",
  owed <- reward.remaining

\* A resolved case is not touched again but for reward claims: commit and reveal check
\* only the deadlines, which is enough to close them.
ResolvedIsFinal ==
  status = "resolved" =>
    UNCHANGED <<status, outcome, terminal_reason, round, seat, barred>>

\* The rounds, votes and claims of a case implement the abstract arbitration service:
\* one verdict, never revised, with a reward only for a verdict against the merchant, and
\* a resolved case takes no vote or round again (open_dispute_case, execute_dispute_outcome,
\* claim_arbitration_reward).
ImplementsArbitration ==
  [][Arbitration!ArbitrationStep /\ ResolvedIsFinal]_caseVars

===============================================================================
