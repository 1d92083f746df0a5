-------------------------------- MODULE Presale --------------------------------
(***************************************************************************)
(* The on-chain presale program: sales that share one vault of OPEN,       *)
(* contributions in USDC, through a swap or delivered from another chain,  *)
(* claims while the sale runs, sweeps of the proceeds, and finalization.   *)
(*                                                                         *)
(* One action is one instruction; a failed constraint, `require!` or token *)
(* transfer leaves everything unchanged and is a guard.                    *)
(***************************************************************************)
EXTENDS Integers, FiniteSets, Functions

CONSTANTS
  Sales,          \* sale nonces
  Buyers,
  Banned,         \* wallets with a BanRecord
  SaleParams,     \* parameters an admin may pass
  DecimalsGap,    \* decimals of OPEN minus decimals of USDC
  Bucket,         \* OPEN in the presale vault at the start
  Funds,          \* USDC each buyer may still spend
  Payments,       \* USDC amounts passed by a caller or returned by a swap
  SaleHorizon,    \* bound on the clock
  NoSale

SALE_BPS == 10000
Assets == {"USDC", "wSOL", "listed", "unlisted"}

ParamsType ==
  [hard_cap : Nat, soft_cap : Nat, min_contribution : Nat, max_contribution : Nat,
   max_slippage_bps : Nat, open_per_usdc : Nat, start_time : Nat, end_time : Nat]
SaleType == [params : ParamsType, total_raised : Nat, state : {"Active", "Finalized"}]
ContributionType == [amount_usdc : Nat, open_entitlement : Nat, claimed_open : Nat]

\* The last conjunct is arithmetic: a power of ten is a natural.
ASSUME PresaleAssumption ==
  /\ IsFiniteSet(Sales) /\ IsFiniteSet(Buyers)
  /\ NoSale \notin SaleType
  /\ SaleParams \subseteq ParamsType
  /\ Payments \subseteq Nat /\ Bucket \in Nat /\ Funds \in Nat
  /\ DecimalsGap \in Int
  /\ DecimalsGap >= 0 => 10^DecimalsGap \in Nat

VARIABLES
  sale,          \* SaleConfig per nonce, or NoSale
  contribution,  \* Contribution per sale and buyer
  usdcVault,     \* USDC held by each sale
  treasury,      \* USDC each sale has sent to its treasury
  presaleVault,  \* OPEN left in the shared vault
  openHeld,      \* OPEN delivered to each buyer
  spent,         \* USDC each buyer has put in
  saleClock      \* unix_timestamp

saleVars == <<sale, contribution, usdcVault, treasury, presaleVault, openHeld, spent, saleClock>>

NoContribution == [amount_usdc |-> 0, open_entitlement |-> 0, claimed_open |-> 0]

PresaleInit ==
  /\ sale = [s \in Sales |-> NoSale]
  /\ contribution = [s \in Sales |-> [b \in Buyers |-> NoContribution]]
  /\ usdcVault = [s \in Sales |-> 0]
  /\ treasury = [s \in Sales |-> 0]
  /\ presaleVault = Bucket
  /\ openHeld = [b \in Buyers |-> 0]
  /\ spent = [b \in Buyers |-> 0]
  /\ saleClock = 0

Active(s) == sale[s] # NoSale /\ sale[s].state = "Active"

ValidBounds(p) ==
  /\ p.hard_cap > p.soft_cap
  /\ p.soft_cap = 0
  /\ p.min_contribution > 0 /\ p.min_contribution <= p.max_contribution
  /\ p.max_slippage_bps > 0 /\ p.max_slippage_bps <= SALE_BPS
  /\ p.open_per_usdc > 0

InitializeSale(s, p) ==
  /\ sale[s] = NoSale
  /\ ValidBounds(p)
  /\ p.end_time > p.start_time
  /\ DecimalsGap >= 0
  /\ sale' = [sale EXCEPT ![s] = [params |-> p, total_raised |-> 0, state |-> "Active"]]
  /\ UNCHANGED <<contribution, usdcVault, treasury, presaleVault, openHeld, spent, saleClock>>

\* Mutant: the cap may be lowered below what was already raised.
CapCoversRaisedAlways(s, p) == TRUE

CapCoversRaised(s, p) == p.hard_cap >= sale[s].total_raised

\* The start time stays what it was at initialization.
UpdateSaleParams(s, p) ==
  /\ Active(s)
  /\ ValidBounds(p)
  /\ p.end_time > sale[s].params.start_time
  /\ CapCoversRaised(s, p)
  /\ sale' = [sale EXCEPT
       ![s] = [sale[s] EXCEPT !.params = [p EXCEPT !.start_time = sale[s].params.start_time]]]
  /\ UNCHANGED <<contribution, usdcVault, treasury, presaleVault, openHeld, spent, saleClock>>

OpenEntitlementFor(s, usdc) == usdc * 10^DecimalsGap * sale[s].params.open_per_usdc

Open(s) ==
  /\ Active(s)
  /\ saleClock >= sale[s].params.start_time
  /\ saleClock <= sale[s].params.end_time

\* The bounds every way of contributing applies, to the USDC that arrived.
WithinBounds(s, b, delta) ==
  LET before == contribution[s][b].amount_usdc
      p == sale[s].params
  IN  /\ before = 0 => delta >= p.min_contribution
      /\ before + delta <= p.max_contribution
      /\ sale[s].total_raised + delta <= p.hard_cap

\* USDC arriving in a sale's vault from a buyer's side.
Receive(s, b, delta) ==
  /\ spent[b] + delta <= Funds
  /\ spent' = [spent EXCEPT ![b] = @ + delta]
  /\ usdcVault' = [usdcVault EXCEPT ![s] = @ + delta]
  /\ sale' = [sale EXCEPT ![s] =
       [sale[s] EXCEPT !.total_raised = sale[s].total_raised + delta]]

Credit(s, b, delta, delivered) ==
  LET c == contribution[s][b] IN
  contribution' = [contribution EXCEPT ![s][b] =
    [amount_usdc |-> c.amount_usdc + delta,
     open_entitlement |-> c.open_entitlement + OpenEntitlementFor(s, delta),
     claimed_open |-> c.claimed_open + delivered]]

ContributeUsdc(s, b, amount) ==
  /\ b \notin Banned
  /\ Open(s)
  /\ WithinBounds(s, b, amount)
  /\ Receive(s, b, amount)
  /\ Credit(s, b, amount, 0)
  /\ UNCHANGED <<treasury, presaleVault, openHeld, saleClock>>

MinUsdcOut(s, expected) ==
  (expected * (SALE_BPS - sale[s].params.max_slippage_bps)) \div SALE_BPS

\* The swap program pays out what it pays out; only what arrived is credited.
ContributeWithSwap(s, b, asset, expected, delta) ==
  /\ b \notin Banned
  /\ Open(s)
  /\ asset # "USDC"
  /\ asset \in {"wSOL", "listed"}
  /\ delta >= MinUsdcOut(s, expected)
  /\ WithinBounds(s, b, delta)
  /\ Receive(s, b, delta)
  /\ Credit(s, b, delta, 0)
  /\ UNCHANGED <<treasury, presaleVault, openHeld, saleClock>>

\* Mutant: a delivered contribution is not marked as claimed.
DeliveredUnmarked(s, amount) == 0

Delivered(s, amount) == OpenEntitlementFor(s, amount)

DeliverContribution(s, recipient, amount) ==
  /\ recipient \notin Banned
  /\ Open(s)
  /\ WithinBounds(s, recipient, amount)
  /\ Receive(s, recipient, amount)
  /\ presaleVault >= OpenEntitlementFor(s, amount)
  /\ presaleVault' = presaleVault - OpenEntitlementFor(s, amount)
  /\ openHeld' = [openHeld EXCEPT ![recipient] = @ + OpenEntitlementFor(s, amount)]
  /\ Credit(s, recipient, amount, Delivered(s, amount))
  /\ UNCHANGED <<treasury, saleClock>>

Unclaimed(s, b) == contribution[s][b].open_entitlement - contribution[s][b].claimed_open

\* No finalize gate: OPEN is claimable while the sale is Active or Finalized.
Claim(s, b) ==
  /\ sale[s] # NoSale
  /\ Unclaimed(s, b) > 0
  /\ presaleVault >= Unclaimed(s, b)
  /\ presaleVault' = presaleVault - Unclaimed(s, b)
  /\ openHeld' = [openHeld EXCEPT ![b] = @ + Unclaimed(s, b)]
  /\ contribution' = [contribution EXCEPT ![s][b] =
       [contribution[s][b] EXCEPT !.claimed_open = contribution[s][b].open_entitlement]]
  /\ UNCHANGED <<sale, usdcVault, treasury, spent, saleClock>>

SweepProceeds(s, amount) ==
  /\ Active(s)
  /\ amount > 0 /\ amount <= usdcVault[s]
  /\ usdcVault' = [usdcVault EXCEPT ![s] = @ - amount]
  /\ treasury' = [treasury EXCEPT ![s] = @ + amount]
  /\ UNCHANGED <<sale, contribution, presaleVault, openHeld, spent, saleClock>>

FinalizeSale(s) ==
  /\ Active(s)
  /\ \/ saleClock > sale[s].params.end_time
     \/ sale[s].total_raised >= sale[s].params.hard_cap
  /\ usdcVault' = [usdcVault EXCEPT ![s] = 0]
  /\ treasury' = [treasury EXCEPT ![s] = @ + usdcVault[s]]
  /\ sale' = [sale EXCEPT ![s] = [sale[s] EXCEPT !.state = "Finalized"]]
  /\ UNCHANGED <<contribution, presaleVault, openHeld, spent, saleClock>>

SaleTick ==
  /\ saleClock < SaleHorizon
  /\ saleClock' = saleClock + 1
  /\ UNCHANGED <<sale, contribution, usdcVault, treasury, presaleVault, openHeld, spent>>

PresaleNext ==
  \/ SaleTick
  \/ \E s \in Sales :
       \/ \E p \in SaleParams : InitializeSale(s, p) \/ UpdateSaleParams(s, p)
       \/ \E a \in Payments : SweepProceeds(s, a)
       \/ FinalizeSale(s)
       \/ \E b \in Buyers :
            \/ Claim(s, b)
            \/ \E a \in Payments : ContributeUsdc(s, b, a) \/ DeliverContribution(s, b, a)
            \/ \E asset \in Assets, expected \in Payments, delta \in Payments :
                 ContributeWithSwap(s, b, asset, expected, delta)

PresaleSpec == PresaleInit /\ [][PresaleNext]_saleVars

-------------------------------------------------------------------------------

\* What the buyers put into a sale, and what the claim marks of a buyer add up to.
PutIn(C, s) == SumFunction([b \in Buyers |-> C[s][b].amount_usdc])
Marked(C, b) == SumFunction([s \in Sales |-> C[s][b].claimed_open])

(* Money in a sale is accounted for across contributions, swaps, deliveries, *)
(* sweeps and finalization: what a sale says it raised is what its buyers    *)
(* put in, within its cap, and is in its vault or its treasury; the OPEN     *)
(* that left the shared vault is what the claim marks record, in the hands   *)
(* of the buyers they name, none of whom got more than they were entitled to *)
(* (contribute_usdc, contribute_with_swap, deliver_contribution, claim,      *)
(* sweep_proceeds, finalize_sale).                                           *)
SaleAccounted ==
  /\ \A s \in Sales : sale[s] # NoSale =>
       /\ sale[s].total_raised = PutIn(contribution, s)
       /\ sale[s].total_raised = usdcVault[s] + treasury[s]
       /\ sale[s].total_raised <= sale[s].params.hard_cap
       /\ sale[s].state = "Finalized" => usdcVault[s] = 0
  /\ \A b \in Buyers :
       /\ openHeld[b] = Marked(contribution, b)
       /\ \A s \in Sales : contribution[s][b].claimed_open <= contribution[s][b].open_entitlement
  /\ presaleVault = Bucket - SumFunction(openHeld)
===============================================================================
