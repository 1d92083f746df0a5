# A TLA+ verification of openfiat-core

OpenFiat is a peer-to-peer exchange of stablecoins for fiat money. Tokens are in the custody of Solana
programs (`src/programs`); advertisements, reservations, settlements, disputes and everything else that
needs no custody live in stores that every node derives from signed gossip events (`src/crates`). This
directory holds the TLA+ modules that model the system, the TLC configurations that check them, and the
theorems TLAPS proves about them.

## 1. The system

### On-chain programs

| Part | State | Operations that change it |
|---|---|---|
| escrow: custody | a liquidity vault per merchant and mint (`total`, `available`, `reserved`, `pending`, `settled`) and its token account; an escrow per reservation; the fee configuration; the arbitration pool; a stake-recovery claim per merchant | create/deposit/reserve/withdraw liquidity, charge the listing fee, create/fund/approve/release/cancel/expire an escrow, open a dispute, top up its deposit, execute its outcome, claim a reward, absorb recovered stake, update the configuration |
| escrow: arbitration | a dispute case: round, window, seats, commitments, reveals, barred wallets, outcome, reward | open, commit, reveal, execute, claim, publish the pool size |
| staking | a stake account per wallet and role, one stake vault, one rewards vault, the configuration, a recovery receipt per merchant | open, migrate, stake, unstake, withdraw, slash, recover a shortfall, distribute/fund/claim rewards, update and migrate the configuration |
| governance | proposals, votes, deposits, the ban list, the configuration | create, vote, tally, execute (ban, unban, parameters, treasury), refund or forfeit |
| presale | the sale, contributions | contribute, deliver, finalize, claim, sweep, update |

A Solana instruction is atomic: it runs to its end or changes nothing. The programs do not call each other
for writes; they read each other's accounts (escrow reads stakes and staking reads the escrow's claims),
which is why debts are kept as two monotone counters, one in each program.

### Off-chain crates

A node composes about thirty registries over one key-value store. Each registry has an `apply_*` function
per signed event, run both for the node's own events and for those gossip delivers, and some have sweeps
that the node runs on a timer. A trade passes through `advertisements` (liquidity on offer),
`reservations` (locks it), `settlement` (payment and approval) and `disputes`, each holding a handle to the
one before. `PROJECT.json` lists every crate with its status.

### What makes it hard

* Permissionless instructions (release, expiry, execution, recovery) race the parties' own.
* Two programs account for one debt; between their transactions the tokens are in neither account's books.
* Stakes, fees and allowed mints change under open trades and cases.
* Arbitrators stay silent, tie, leave, or lose their stake between commitment and reveal.
* Truncating division everywhere money is divided.
* Off-chain, events arrive in any order, twice, or after a timer has already acted.

The hazards are listed in `PROJECT.json`, each at the line where it bites, with the properties that catch it.

## 2. The modules

### Programs

| Module | Models | Kind |
|---|---|---|
| `EscrowCustody` | custody: every token-moving instruction of the escrow program, with the settlement fee and its four-way split (`shared_logic.rs`) | state machine |
| `DisputeCase` | arbitration of one case with the draw for its seats (`shared/sortition.rs`), and the slashing verdict a node computes from it (`slashing`) | state machine |
| `Arbitration` | what arbitration promises to custody | abstract specification |
| `Staking` | the staking program, and the recovery plan a node computes (`settlement`) | state machine |
| `Governance` | the governance program and its ban list | state machine |
| `Presale` | the presale program | state machine |

### Nodes

| Module | Models | Kind |
|---|---|---|
| `EventLog` | what gossip promises the registries | abstract specification |
| `Gossip` | push, duplicates, relay credit, recovery, retention, restarts, identity alarm | state machine |
| `Discovery` | exchange, announcements, dialling, the peer table | state machine |
| `Wire` | the key-value store, the envelope, the two ways a signature is judged | operators |
| `Payloads` | the signed payloads the services build | operators |
| `IdentityIndex`, `SessionIndex`, `ServiceRegistry`, `OracleIndex`, `RiskIndex`, `ReviewIndex`, `PaymentMethods`, `TradeChannels`, `ProposalIndex`, `Notifications` | one registry each: what an event needs and what it leaves | operators |
| `NodeState` | nodes that feed those registries from gossip, with their sweeps and the verification of votes | state machine over `EventLog` |
| `ContentStore`, `ContentMesh` | blocks, attachments, sweeps, bitswap and gateway fetches, challenges, the liveness ledger and the schedule of rewards | state machine |
| `SnapshotMesh` | production, announcement, stake of providers, download, import, checkpoint | state machine |
| `TradePipeline` | one node's advertisement, reservation, settlement and dispute indexes, and its transaction relay | state machine |
| `TradeRecords` | the trade registries with signers and clocks, their payloads and the decoder of a case account; prices and pages | operators |
| `TradeDesk` | several nodes with those registries, their clients, readers and single-use nonces; what is computed from the records | state machine |
| `ChainRelay` | blockhash announcements, the relay queue, the chain poll | state machine |

### Proofs

| Module | Proves |
|---|---|
| `Sums` | how a sum over a finite set changes when its function or its set does |
| `EscrowCustodyProofs` | the arithmetic of the fee, types and accounting of custody, conservation of an escrow, cases and debts, refinement of `Arbitration` |
| `CustodySolvency` | that the tokens behind every vault, the pool and the supply are there |
| `DisputeCaseProofs` | rounds: whom they seat, when they move on, when they end; verdicts, rewards, refinement of `Arbitration` |
| `StakeProofs` | the stake vault, the age clock, recovery; trust in snapshots, which rests on stake |
| `TokenProofs` | the money of the presale; the deposits and the ban list of governance |
| `PipelineProofs` | liquidity across the trade stores of a node, and the settlements its cases govern |
| `MeshProofs` | gossip: refinement of `EventLog`, and the impostor alarm; rewards: what the nodes of a mesh are paid |

`MC*` modules hold instances.

One action is one instruction, one handler of a node, or one timer tick with everything it calls. Its guard is the
conjunction of the account constraints, the `require!`s and the token balances its transfers need; since a failing
instruction or a refused event changes nothing, a failure is a disabled action, except where the failure itself leaves
a trace (a vote put back in the queue, a download that came damaged). Comments marked *Mutant* introduce variants of a
definition with a plausible bug, used to see that a property can fail.

**EscrowCustody.** `vault[<<m, mint>>]` is the `LiquidityVault` account and `vaultTokens` the balance of its
token account, kept apart so that the accounting can be compared with the tokens. `escrow[r]` is the
`TradeEscrowVault` of reservation `r`, `payout[r]` a history variable with what its closing paid to whom.
`dispute[r]` has the money fields of a `DisputeCase`; which verdict is reached is left open
(`DisputeCase` decides it). `claim`, `recovered` and `stake` are the debt as both programs see it.
`outside` holds every token that is in none of the program's accounts, so that the supply can be summed.

**DisputeCase.** One case. `seat` replaces the parallel arrays of the account; `ticket` is each wallet's draw
in the round; `power` and `aged` are what the staking program says of a wallet, and change while the case is
open; a seat needs `MinStake` of it. `custody` is what decides, beside the round, whether `execute_dispute_outcome` can
run at all: the vault of the deposit must not be the trade's own vault (it is, for a trade in OPEN), and the four treasuries
must be token accounts, of the trade's mint when a fee is paid. Time is counted from `round_opened_at` and capped at the reveal deadline, after which nothing depends
on it: no bound on time is needed, and liveness is checked over all of it. `served` is history.

**Arbitration** has three variables (phase, verdict, owed) and is implemented twice: by `DisputeCase`
(`ImplementsArbitration`, with a terminal split mapped to its own verdict) and, for each reservation, by
`EscrowCustody` (`CasesFollowArbitration`). The two detailed models therefore agree on the interface over
which they were split: one verdict, never revised, a reward only for a verdict against the merchant, paid
down and never up.

**Staking.** `account[<<w, role>>]` is a `StakeAccount`; an account or a configuration in its old layout
cannot be read by anything but its migration. `owed` grows by the escrow program's action
(`RecordShortfall`), `recovered` by this one's. `heldSince` is history: when the position last became
non-empty.

**Governance** keeps proposals, one vote account per proposal and wallet, the deposits and the list. What a tally
decides, and what may be executed after the delay, are separate actions, so that a configuration can change between
them. **Presale** keeps several sales over one vault of OPEN; the exchange a swap goes through returns any amount.

**EventLog** is to the nodes what `Arbitration` is to the programs: a log per node, an event in it only after its origin
issued it, handed to the handlers exactly when it enters, in no order. `Gossip` implements it
(`ImplementsEventLog`), and `NodeState` is built over it rather than over gossip. `Gossip` has the connections, the
messages on each, the credit a neighbour has left, and what is in the store; a restart may keep or lose the store. Two
nodes may have several connections (`links`): libp2p reports each one that opens and closes, and the service keeps a set of
peers, so the first one that closes makes it forget a peer it can still hear.

**NodeState.** `node[n]` is the column families and queues of node `n`; an event it hears is put to the registry of its
kind. Registries that read each other (a review needs the trade, a channel the parties, a fee the service) do so inside
one application, on the same node, as the code does. A scene fixes the payloads clients may submit.

**TradePipeline** and **TradeDesk** are two views of the trade crates. The first has one node, no signers and no clock,
and explores every order of the events, repeated or late, over two reservations and settlements: it is where liquidity is
accounted for. The second has signers, prices and clocks (`TradeRecords`) on two nodes that hear events in different
orders, and what clients read from them.

**ContentMesh**, **SnapshotMesh** and **ChainRelay** keep what is on disk apart from what is in memory, because a restart
loses the second only. Bitswap messages are lost at will; downloads fail or are damaged; a node stops while it writes the
restored state, or between it and the checkpoint. Two actions stand for callers outside the node: `Pay`, an operator who pays
an epoch with the library's `compute` and `payable_epochs`, which no code of the node calls, and keeps the record of what
was paid; and `ImportKnown`, an embedder's call of `SnapshotService::import`, the only way to a second import. `ChainRelay`
has gossip (`Gossip` models it in full) as fixed links over which an event arrives in any order and is handled once.

## 3. What is checked

A run often carries several components: an MC module extends one and instantiates the others, a constant `focus` picks one of
them for a behaviour, and what the others declare stays put. Components that really interact are composed in their own
modules (custody with its claims, registries over the log), so nothing is lost by exploring one at a time.

| Run | Instance | What it shows |
|---|---|---|
| `custody_trades` | one merchant, two trades over one vault, timeouts, disputes with deposits partly covered, stake recovered and absorbed, a ban | every vault and the pool exactly backed and no token made or lost; every escrowed token is paid once, and an approved trade goes back to the merchant only by a verdict; cases follow `Arbitration`; a funded trade that stays closable closes |
| `dispute_barring` | six wallets, two seats, three rounds, published sizes from too low to right | silent wallets never sit again; an undecided round re-opens or ends exactly as the pool and the rounds left allow |
| `ledgers` | a case of three arbitrators with ties and changing stakes; the records of a trade with two cases; a sale with two buyers under four terms | verdicts quorate and final, rewards adding up in every order of claims, the case implements `Arbitration`; the chain's verdict governs the records; the money of a sale and the OPEN that left its vault are accounted for |
| `promises` | two wallets' stakes over one vault, under an old and a new configuration; a case drawn from one ticket in 10000 with windows of 8 and 9 seconds; governance with two proposals in four situations | the stake vault and the deposits exactly backed; the age clock is honest; recovery takes only the debt, as planned; an exit is never trapped; every case that can be executed resolves; a ban acts only if voted, once, and cannot be held up |
| `mesh` | a line of three nodes, pairs with scarce and ample credit, a pair that outlives retention, a pair with two connections; three nodes started one after another, and two whose connections fail and multiply | gossip implements `EventLog`; an event reaches every peer that is not forgotten, unless a hand-over failed; a restart is not taken for a second node with the same key; peers find each other again |
| `node` | two nodes with thirteen sets of payloads; six scenes of content; three of snapshots | nodes that heard the same events hold the same records; no record moves back; votes count once, with the weight the chain shows; a quote stands on a node whose clock runs behind; named content stays and wanted content arrives; an epoch pays no more than its bucket; only verified snapshots of staked providers are imported, and the checkpoint follows the state; a joining node gets one |
| `trading` | two reservations and settlements on either; two nodes with fourteen sets of payloads, chain answers and readers; three nodes in a line, endpoints at the ends | liquidity is returned once or sold; a signed price is one the terms produce; pages miss nothing; private answers are proven; records are signed by whom they bind, and a ruling on chain closes the case; views agree; the bridge brings an outcome to every node that follows it |

**Bounds.** Amounts are 1 to 3 and supplies at most 5 tokens, which is enough for partial coverage of a
deposit, for a fee that rounds to zero and one that does not, and for a vault that runs out. Two trades are
what a race over one vault takes. Six wallets, two seats and three rounds are the smallest pool in which
every round but the last can bar a full bench. Two reservations are what it takes to lock liquidity that another
returned; two settlements on one reservation, what it takes for one to let go of what the other holds; two cases, to
dispute a trade again after its verdict. Three nodes in a line are the smallest mesh with a relay; two are enough for two
orders of the same events. A scene has three to eight payloads: those of one registry that conflict (a renewal, a migration
and a revocation of one session, two reviews of one trade) with one from a wallet that may not send it. Bounds on clocks,
counters and faults (`MaxTime`, `LastTimeout`, `LastRelease`, `MaxOwed`, `MaxReward`, the `faults`, `links` and `last` of a scene) are constants
that occur in guards.

**Fairness.** On chain, weak fairness is assumed of the clock and of instructions anyone may submit and somebody has a
reason to: `release_escrow`, `expire_reservation`, `execute_dispute_outcome`, `recover_stake_shortfall`, the execution of a
passed ban; and of an owner's own withdrawal. Off chain it is assumed of time, of the event loop (a message that is in
flight on an open connection is handled), and of the timers the actor runs: the expiry sweep (`SWEEP_INTERVAL`), retention,
redialling, the verification of votes, the pinning tick, the chain poll, and the bootstrap attempt, of which one meets no
fault. Nothing is assumed of merchants, buyers, arbitrators, voters or admins.

**What some of them do not say.** `FundedTradeCloses` and `CaseResolves` have a premise (`Closable`, `Executable`). A release pays its
fee to treasuries that must be token accounts of the trade's mint, and waits for `update_fee_config` until they are; a disputed
trade in OPEN has its own vault as the vault of the deposit, which `execute_dispute_outcome` refuses, and stays frozen.
`EventsSpread` excuses a pair in which something failed to be handed over. `QuotesStand` is about the window of a quote:
the conversion goes through an `f64` whose rounding is an arbitrary constant here (`F64Error`), so nothing is said about its
amount, nor does `ShownPriceBinds` speak of rounding. `NamedContentStays` and `WantedContentArrives` speak of
whole content: no block that a walk of the file meets is missing. A root without readable links, or over the limits with its
repeated chunks repeated, can be held, served and announced and still not be spelled out. `RecordsAreSigned` takes the seller's
key from the event the buyer signed, because that is all the code does: nothing compares it with the advertisement.
`ViewsAgree` counts a trade of a wallet with itself apart, as `counterparty_of` leaves it out. `RecordsMoveForward` holds
events, not the sweep of superseded claims, to the cap. `CasesGovernSettlements` says how a settlement ends only where one
case was opened about it.

**Deadlock** is not checked: all of these systems may legitimately stop (every trade closed, every stake
withdrawn, every event heard).

### Where the code and its comments disagree

Five runs check a sentence of the repository and end in a counterexample; `PROJECT.json` quotes each
sentence.

* `finding_delisting`: reserved liquidity of a de-listed mint is stuck.
* `finding_release_earlier`: a shortened period releases an earlier tranche early.
* `finding_frozen_reservation`: a rejected settlement has let go of its reservation, and a dispute opened
  afterwards does not take it back, so it can be cancelled or swept while the escrow is frozen.
* `finding_split_case`: a case that ended in the terminal split has no outcome in its account, and a node goes on showing it
  as running. (Cases with a ruling are closed by it: `RecordsAreSigned`.)
* `finding_gossip_only`: a node without an endpoint queues a client's transaction and nothing takes it from there.

Seen while modelling, and left as the code has them: several escrows may be created against one reservation
(only the first can be funded); a merchant without a vault in OPEN cannot be disputed; a release needs its
treasuries in the escrow's own mint; recovered stake cannot be credited while a trade is funded; after a slash the
age clock runs below the minimum; unbonding stake cannot be slashed; a settlement that never held a
reservation, when cancelled, lets go of it for the settlement that does; a claim attested after it was superseded is swept
later than the claim that replaced it, and is live again in between, whatever the cap on live claims; nothing ties the cap
and the rate of a sale to the OPEN in the presale vault, so that a claim finds its OPEN there is the operator's doing; and
nothing outside the tests credits a provider's earnings.

## 4. What is proved

For every value of the constants, from the assumptions named in the modules: the sets of merchants, reservations,
stakers, roles, arbitrators, voters, proposals, sales, buyers and events are finite, `OPEN` is among the mints, amounts, bounds and
powers of ten are naturals, configurations have their type (rates of at most 10000 basis points, windows and periods above zero), every
event has an origin among the nodes and a natural for its time, stakes, buckets and emissions are naturals, the floor of a provider's
stake is above zero, `RewardParams` pass `validate`, and `MAX_BARRED_ARBITRATORS` is `MAX_ARBITRATORS` for every round but the last, as `state.rs` defines it.

| Theorem | Module | States |
|---|---|---|
| `SettlementFeeBounded`, `SplitExact` | `EscrowCustodyProofs` | the fee is at most the amount, and its four shares add up to it |
| `CustodyTypeCorrect`, `VaultAccountingHolds` | `EscrowCustodyProofs` | no counter leaves its type; the four counters of a vault partition its total |
| `EscrowConservedHolds` | `EscrowCustodyProofs` | `EscrowConserved` |
| `CasesAndDebtsConsistent` | `EscrowCustodyProofs` | a trade is frozen exactly while its case is open; the two counters of a debt never cross |
| `CasesImplementArbitration`, `EachCaseImplementsArbitration` | `EscrowCustodyProofs` | `CasesFollowArbitration`; the specification of `Arbitration`, for the case of each trade |
| `CustodySolventHolds` | `CustodySolvency` | `CustodySolvent`: all vaults, the pool and the supply |
| `UndecidedRoundsMoveOnHolds` | `DisputeCaseProofs` | `UndecidedRoundsMoveOn` |
| `LastSecondOpenHolds` | `DisputeCaseProofs` | the draw excludes nobody in the last second of a window of eight or more |
| `BarredNeverSitHolds`, `VerdictIsQuorateHolds`, `RewardsAddUpHolds` | `DisputeCaseProofs` | the three invariants of a case |
| `CaseImplementsArbitration` | `DisputeCaseProofs` | `ImplementsArbitration` and the specification of `Arbitration` |
| `StakesAccountedHolds`, `AgeClockHonestHolds`, `RecoveryTakesOnlyDebtHolds` | `StakeProofs` | the three properties of the staking program |
| `ImportsAlwaysTrusted` | `StakeProofs` | `ImportsAreTrusted`, its invariants and its two action properties |
| `SalesAlwaysAccounted` | `TokenProofs` | `SaleAccounted`: the USDC and the OPEN of every sale |
| `DepositsAlwaysBacked`, `BansAlwaysVoted` | `TokenProofs` | `DepositsBacked`; `BansAreVoted`, both its invariant and its action property |
| `LiquidityAlwaysConserved`, `CasesAlwaysGovern` | `PipelineProofs` | `LiquidityConserved`; `CasesGovernSettlements`, both its invariant and its action property |
| `GossipImplementsEventLog` | `MeshProofs` | `ImplementsEventLog`: the whole specification of the event log |
| `HonestRestartsNeverAccuse` | `MeshProofs` | `RestartNeverAccuses` |
| `RewardsAlwaysWithinBucket` | `MeshProofs` | `RewardsWithinBucket`: the bucket, the ledgers, and one payment per stake |

Most of these are not inductive alone; what had to be added is where the argument is.

**Custody: `TypeInv`, `PaidOnce`, `CaseInv`.** `total - a` is a natural only because `available` is a part of `total`, so
types need the accounting as the accounting needs types; and both need that an escrow that was created names a real seller and
buyer: `TypeInv` is `CustodyTypeOK`, `EscrowHasParties` and `Balanced` of every vault. One lemma per movement of the counters
(credit, debit, reserve, unreserve, fund, close) keeps a vault balanced; `ClosesExactly` shows that whatever way an escrow
closes, buyer, treasuries and seller together receive its amount. `PaidOnce` compares that history with the escrow's state and token account. `CaseInv`
ties the state of a case to that of its trade and to its own money fields; with it every step of custody is, for every case,
one of `Arbitration` or a stutter.

**Solvency: `VaultBacked`, `PoolSolvent`, `SupplyConserved`.** These are sums over all trades, cases and accounts, and inductive
only beside `TypeInv`, `EscrowPaidOnce` and `CaseInv`: a closing takes from the vault's `pending` and from the escrow's token
account what the trade holds, and a decided case takes from the pool what it was owed. The proof follows the two sides of
a vault's equation through every instruction, then the pool and the supply; each instruction moves one or two
summands.

**Rounds: `RoundInv`.** Beside types and deadlines it says what has been *witnessed*: no more wallets ever sat than
`seats_taken_total`, which `PoolFloor` compares with the published size; the seats of a running round and the barred wallets
are disjoint; and in round `round` (from 0) at most `MAX_ARBITRATORS * round` are barred. The last is what shows that
`bar_silent_seats` has room for the whole bench of a round that re-opens; without room it stops and leaves the rest unbarred.

**Verdicts: `ResultInv`.** `RewardsAddUp` says that something is left for every winner who has not claimed; claims may come
in any order and every share is rounded down, so that does not follow from itself one claim later. `Covered` is the inductive
form: pool times the weight still to be paid is at most total weight times what remains. A claim takes at most the claimant's
part of the right-hand side (`ShareCovered`), and while weight is left something remains (`SomethingLeft`). `PaidDown` keeps
what was paid and what remains adding up to the deposit.

**Staking: `StakeInv`.** `Ledger` (types, the vault equal to the sum of all balances, OPEN conserved), `AgeInv` (the clock is
honest and no position is held since the future, which a migration needs to start a clock at `now`) and `Unopened` (an account
never initialized is empty). Every instruction writes one account: `WriteKeepsLedger` and `WriteKeepsAge` say what it owes the
three, once, and each instruction has a lemma that shows it pays.

**Presale: `PresaleInv`.** `SaleAccounted` beside types, and what holds before a sale exists: no contributions, nothing in its
vault or treasury. A contribution record sits in a row (its sale) and in a column (its buyer): writing one record moves one sum
of each kind by its difference (`OneRecord`), and every instruction that takes or hands out money is such a write.

**Governance: `GovInv`.** The ban list must lead back to *votes*, but a tally reads the counters of a proposal. `Counts` ties
the two: the counters are the sums of the vote records, and an accepted proposal is still carried by them, because a vote needs
the state `Voting`. Since integer division rounds down, a quotient that reaches the threshold is a product that does
(`QuotientBounds`). `Bans` says which proposal a ban names and that it is spent.

**Trade stores: `PipelineInv`.** Three stores, each written by its own handlers. `Offered` adds to the sum that nothing is reserved
before the advertisement exists. `Holding` adds to the two statements about reservations and their settlements that a frozen
settlement remembers it was disputed: a dispute suspends `SoleSettlementHolds`, for the reason `finding_frozen_reservation`
shows. `Cases` adds that a release is on record only of a settlement that has gone past it, which is why a verdict never
overwrites one.

**Gossip: `GossipInv`.** `EventLog` sees the set of originated events, the set each node holds, and what was handed over in the
step. Gossip takes a response of several envelopes in one step, and drops, refuses or raises the alarm in the middle of it:
`after[i]` is the ledger after `i` envelopes, and the receipt is one `LogHear` of all that entered. `OnlyIssued` (what is stored or in
flight was originated) makes that step legal; `KeepsItsOwn` (of its own events since it booted a node lost only what retention
took) is what an alarm contradicts.

**Snapshots: `SnapshotInv`.** An import trusts a *reading*, the theorem speaks of the *chain*, and between the two lie withdrawals,
unanswered requests and restarts. `ReadingsInv` joins them: every positive reading a node has in memory is of a stake the chain
showed when it was made (`held`, a history variable), judged against the node's floor or governance's figure.
`IndexInv` keeps announcements under their own ids, so that what is downloaded, judged and checkpointed is one
announcement; it also bounds their creation times, which is why a producer has a newest one and a sweep forgets nothing newer than
what it keeps (`ForwardPrune`). `FamiliesInv` survives an import, also one that stops half-way, because every entry is verified before any is written; and that the
checkpoint follows the state needs `IndexInv` once more, for the announcement it names to be the one whose body was written.

**Rewards: `RewardInv`.** An epoch is paid out of what is left, in shares that are each rounded down. A share times the total weight is at most
the emission times the peer's weight; `SharesAddUp` adds that up over the peers, and the total cancels (`ScheduleWithin`): the shares
together are at most the emission, which `compute` caps by the rest of the bucket. `LedgerOK` says that there are finitely many
peers to add up, in slices the epoch has, and every observation, challenge, sweep and restart keeps it.

**Sums.** The library's induction theorems cannot be instantiated with an operator, so `Sums` does the induction on a set
instead: the set of the sizes for which a statement about all sums of that size holds is shown to contain 0 and to be closed
under successor. Models that are proved about write their sums with `SumFunction` for that reason.

The inductive invariants were checked with TLC on the runs' instances before they were proved.

**Only model-checked.** Liveness (`FundedTradeCloses`, `ExitNeverTrapped`, `CaseResolves`, `BanActionsTakeEffect`, delivery and
convergence in the mesh): fairness and `ENABLED` are beyond the prover. And the safety of the modules without a proof: the registries (`NodeState`), the blocks of `ContentMesh`,
the desk and the relay. These are built from operators over sequences and finite maps with folds, where what a
fold computes for every input is again an induction over data.

## 5. What is not modelled

Cryptography is ideal: a signature verifies only for its signer, a commitment binds its vote, a hash its content, and what
is sealed for a wallet only it reads. Encodings are injective. Account addresses, rent, byte layouts and events emitted for
indexers are left out, except where a layout decides whether an instruction can run (the staking migrations) or what a node
reads (the account of a case). Transfers are exact: mints with transfer fees are not modelled. Overflow of `u64` is not
modelled where every operation is checked and amounts are bounded by a mint's supply. `migrate_fee_config` rewrites an
account's bytes once. Writes to the key-value store succeed. The product of a rate and a premium is exact, where the code has
a deterministic `f64`; the conversion of a fee is off by whatever `F64Error` says.

Of the crates: `api`, `cli`, `metrics` and the dispatch, JSON and reference documents of `rpc` hold no protocol state;
`network` is libp2p behaviour, of which connections that open, fail and close are kept; `database`, `serialization`, `types`
and `wallet` are I/O or values; `config` and `swqos` have no code yet; `conformance` and `mock-jupiter` are test harnesses.
Of `content`, the IPFS daemon an operator may pin with is left out; of `notifications`, wording and the HTTP gateway; of
`registry`, the crediting of earnings, which the node never calls; of `taxonomy`, the catalogue, which is data; of
`discovery`, the backoff between two dials, which only delays one.
