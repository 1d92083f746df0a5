----------------------------- MODULE TokenProofs -----------------------------
(*****************************************************************************)
(* Proofs about the OPEN token, for any number of wallets, sales and         *)
(* proposals and any configuration: the money of a sale is accounted for,    *)
(* deposits of proposals are backed, and bans lead back to votes.            *)
(*****************************************************************************)
EXTENDS Presale, Governance, Sums

-----------------------------------------------------------------------------
(* One contribution record                                                 *)

Contributions == [Sales -> [Buyers -> ContributionType]]
Written(C, s, b, c) == [C EXCEPT ![s][b] = c]

\* D is C with one record c in it, and so are its sums.
Moved(C, D, s, b, c) ==
  /\ D \in Contributions
  /\ \A t \in Sales, a \in Buyers : D[t][a] = IF t = s /\ a = b THEN c ELSE C[t][a]
  /\ \A t \in Sales : t # s => PutIn(D, t) = PutIn(C, t)
  /\ PutIn(D, s) = PutIn(C, s) + (c.amount_usdc - C[s][b].amount_usdc)
  /\ \A a \in Buyers : a # b => Marked(D, a) = Marked(C, a)
  /\ Marked(D, b) = Marked(C, b) + (c.claimed_open - C[s][b].claimed_open)

\* Writing one record moves one row sum and one column sum, each by its difference.
LEMMA OneRecord ==
  ASSUME NEW C \in Contributions, NEW s \in Sales, NEW b \in Buyers, NEW c \in ContributionType,
         NEW D, D = Written(C, s, b, c)
  PROVE  Moved(C, D, s, b, c)
<1>1. D \in Contributions
  BY DEF Contributions, Written
<1>2. \A t \in Sales, a \in Buyers : D[t][a] = IF t = s /\ a = b THEN c ELSE C[t][a]
  BY DEF Contributions, Written
<1>3. ASSUME NEW E \in Contributions, NEW t \in Sales, NEW a \in Buyers
      PROVE  E[t][a].amount_usdc \in Int /\ E[t][a].claimed_open \in Int
  <2>1. E[t][a] \in ContributionType
    BY ZenonT(60) DEF Contributions
  <2> QED BY <2>1 DEF ContributionType
<1>4. ASSUME NEW t \in Sales, t # s
      PROVE  PutIn(D, t) = PutIn(C, t)
  <2>1. [a \in Buyers |-> D[t][a].amount_usdc] = [a \in Buyers |-> C[t][a].amount_usdc]
    BY <1>2, <1>4
  <2> QED BY <2>1 DEF PutIn
<1>5. ASSUME NEW a \in Buyers, a # b
      PROVE  Marked(D, a) = Marked(C, a)
  <2>1. [t \in Sales |-> D[t][a].claimed_open] = [t \in Sales |-> C[t][a].claimed_open]
    BY <1>2, <1>5
  <2> QED BY <2>1 DEF Marked
<1>6. PutIn(D, s) = PutIn(C, s) + (c.amount_usdc - C[s][b].amount_usdc)
  <2> DEFINE f == [a \in Buyers |-> C[s][a].amount_usdc]
             g == [a \in Buyers |-> D[s][a].amount_usdc]
  <2>1. f \in [Buyers -> Int] /\ g \in [Buyers -> Int]
    BY <1>1, <1>3, ZenonT(60)
  <2>2. \A a \in Buyers : a # b => g[a] = f[a]
    BY <1>2
  <2>3. f[b] = C[s][b].amount_usdc /\ g[b] = c.amount_usdc
    BY <1>2
  <2>4. PutIn(D, s) = SumFunction(g) /\ PutIn(C, s) = SumFunction(f)
    BY DEF PutIn
  <2>5. IsFiniteSet(Buyers)
    BY PresaleAssumption
  <2> HIDE DEF f, g
  <2>6. SumFunction(g) = SumFunction(f) + (g[b] - f[b])
    BY <2>1, <2>2, <2>5, SumFunctionChange, ZenonT(60)
  <2> QED BY <2>3, <2>4, <2>6
<1>7. Marked(D, b) = Marked(C, b) + (c.claimed_open - C[s][b].claimed_open)
  <2> DEFINE f == [t \in Sales |-> C[t][b].claimed_open]
             g == [t \in Sales |-> D[t][b].claimed_open]
  <2>1. f \in [Sales -> Int] /\ g \in [Sales -> Int]
    BY <1>1, <1>3, ZenonT(60)
  <2>2. \A t \in Sales : t # s => g[t] = f[t]
    BY <1>2
  <2>3. f[s] = C[s][b].claimed_open /\ g[s] = c.claimed_open
    BY <1>2
  <2>4. Marked(D, b) = SumFunction(g) /\ Marked(C, b) = SumFunction(f)
    BY DEF Marked
  <2>5. IsFiniteSet(Sales)
    BY PresaleAssumption
  <2> HIDE DEF f, g
  <2>6. SumFunction(g) = SumFunction(f) + (g[s] - f[s])
    BY <2>1, <2>2, <2>5, SumFunctionChange, ZenonT(60)
  <2> QED BY <2>3, <2>4, <2>6
<1> QED BY <1>1, <1>2, <1>4, <1>5, <1>6, <1>7, ZenonT(60) DEF Moved

\* The two sums of naturals are naturals.
LEMMA RowsAndColumns ==
  ASSUME NEW C \in Contributions
  PROVE  /\ \A s \in Sales : PutIn(C, s) \in Nat
         /\ \A b \in Buyers : Marked(C, b) \in Nat
<1>1. \A s \in Sales, b \in Buyers : C[s][b] \in ContributionType
  BY DEF Contributions
<1>2. ASSUME NEW s \in Sales PROVE PutIn(C, s) \in Nat
  <2>1. [b \in Buyers |-> C[s][b].amount_usdc] \in [Buyers -> Nat]
    BY <1>1 DEF ContributionType
  <2> QED BY <2>1, PresaleAssumption, SumFunctionType DEF PutIn
<1>3. ASSUME NEW b \in Buyers PROVE Marked(C, b) \in Nat
  <2>1. [s \in Sales |-> C[s][b].claimed_open] \in [Sales -> Nat]
    BY <1>1 DEF ContributionType
  <2> QED BY <2>1, PresaleAssumption, SumFunctionType DEF Marked
<1> QED BY <1>2, <1>3

-----------------------------------------------------------------------------
(* The inductive invariant                                                 *)

SaleTypes ==
  /\ sale \in [Sales -> SaleType \cup {NoSale}]
  /\ contribution \in Contributions
  /\ usdcVault \in [Sales -> Nat] /\ treasury \in [Sales -> Nat]
  /\ openHeld \in [Buyers -> Nat] /\ presaleVault \in Nat

\* The books of one sale x with contributions that add up to p, v in its vault and t in its
\* treasury.  A sale not yet initialized has none of them, and one exists only with a mint of
\* at least as many decimals as USDC.
BooksOf(x, p, v, t) ==
  IF x = NoSale THEN p = 0 /\ v = 0 /\ t = 0
  ELSE /\ x.total_raised = p /\ x.total_raised = v + t
       /\ x.total_raised <= x.params.hard_cap
       /\ x.state = "Finalized" => v = 0
       /\ DecimalsGap >= 0

Books == \A s \in Sales : BooksOf(sale[s], PutIn(contribution, s), usdcVault[s], treasury[s])

Marks ==
  \A b \in Buyers :
    /\ openHeld[b] = Marked(contribution, b)
    /\ \A s \in Sales : contribution[s][b].claimed_open <= contribution[s][b].open_entitlement

PresaleInv == SaleTypes /\ Books /\ Marks /\ presaleVault = Bucket - SumFunction(openHeld)

\* What the invariant is for.
LEMMA InvAccounts == PresaleInv => SaleAccounted
  BY DEF PresaleInv, Books, BooksOf, Marks, SaleAccounted

\* No sale, no money.
LEMMA InitPresale == PresaleInit => PresaleInv
<1> SUFFICES ASSUME PresaleInit PROVE PresaleInv
  OBVIOUS
<1>1. SaleTypes
  BY PresaleAssumption DEF PresaleInit, SaleTypes, Contributions, ContributionType, NoContribution
<1>2. \A s \in Sales, b \in Buyers : contribution[s][b] = NoContribution
  BY DEF PresaleInit
<1>3. ASSUME NEW s \in Sales PROVE PutIn(contribution, s) = 0
  <2> DEFINE f == [b \in Buyers |-> contribution[s][b].amount_usdc]
  <2>1. f \in [Buyers -> Int] /\ \A b \in Buyers : f[b] = 0
    BY <1>2 DEF NoContribution
  <2>2. PutIn(contribution, s) = SumFunction(f)
    BY DEF PutIn
  <2> HIDE DEF f
  <2> QED BY <2>1, <2>2, PresaleAssumption, SumFunctionZero
<1>4. ASSUME NEW b \in Buyers PROVE Marked(contribution, b) = 0
  <2> DEFINE f == [s \in Sales |-> contribution[s][b].claimed_open]
  <2>1. f \in [Sales -> Int] /\ \A s \in Sales : f[s] = 0
    BY <1>2 DEF NoContribution
  <2>2. Marked(contribution, b) = SumFunction(f)
    BY DEF Marked
  <2> HIDE DEF f
  <2> QED BY <2>1, <2>2, PresaleAssumption, SumFunctionZero
<1>5. SumFunction(openHeld) = 0
  <2>1. openHeld \in [Buyers -> Int] /\ \A b \in Buyers : openHeld[b] = 0
    BY DEF PresaleInit
  <2> QED BY <2>1, PresaleAssumption, SumFunctionZero
<1>6. Books
  BY <1>3 DEF Books, BooksOf, PresaleInit
<1>7. Marks
  BY <1>2, <1>4 DEF Marks, PresaleInit, NoContribution
<1>8. presaleVault = Bucket - SumFunction(openHeld)
  BY <1>5, PresaleAssumption DEF PresaleInit
<1> QED BY <1>1, <1>6, <1>7, <1>8 DEF PresaleInv

-----------------------------------------------------------------------------
(* Every instruction keeps the books                                       *)

\* A sale whose record, contributions and money stay keeps its books.
LEMMA BooksElsewhere ==
  ASSUME Books, NEW s \in Sales,
         \A t \in Sales : t # s =>
           /\ sale'[t] = sale[t] /\ PutIn(contribution, t)' = PutIn(contribution, t)
           /\ usdcVault'[t] = usdcVault[t] /\ treasury'[t] = treasury[t],
         BooksOf(sale'[s], PutIn(contribution, s)', usdcVault'[s], treasury'[s])
  PROVE  Books'
<1> SUFFICES ASSUME NEW t \in Sales
             PROVE  BooksOf(sale'[t], PutIn(contribution, t)', usdcVault'[t], treasury'[t])
  BY DEF Books, BooksOf
<1>1. CASE t = s
  BY <1>1
<1>2. CASE t # s
  <2>1. BooksOf(sale[t], PutIn(contribution, t), usdcVault[t], treasury[t])
    BY DEF Books
  <2> QED BY <1>2, <2>1
<1> QED BY <1>1, <1>2

\* OPEN handed to a buyer leaves the vault.
LEMMA HandOut ==
  ASSUME PresaleInv, NEW b \in Buyers, NEW d \in Nat, d <= presaleVault,
         openHeld' = [openHeld EXCEPT ![b] = openHeld[b] + d],
         presaleVault' = presaleVault - d
  PROVE  /\ openHeld' \in [Buyers -> Nat] /\ presaleVault' \in Nat
         /\ presaleVault' = Bucket - SumFunction(openHeld')
         /\ openHeld'[b] = openHeld[b] + d
         /\ \A a \in Buyers : a # b => openHeld'[a] = openHeld[a]
<1>1. /\ openHeld \in [Buyers -> Nat] /\ presaleVault \in Nat
      /\ presaleVault = Bucket - SumFunction(openHeld)
  BY DEF PresaleInv, SaleTypes
<1>2. openHeld' \in [Buyers -> Nat]
  BY <1>1
<1>3. openHeld'[b] = openHeld[b] + d /\ \A a \in Buyers : a # b => openHeld'[a] = openHeld[a]
  BY <1>1
<1>4. openHeld \in [Buyers -> Int] /\ openHeld' \in [Buyers -> Int]
  BY <1>1, <1>2
<1>5. SumFunction(openHeld') = SumFunction(openHeld) + (openHeld'[b] - openHeld[b])
  <2>1. IsFiniteSet(Buyers)
    BY PresaleAssumption
  <2> DEFINE f == openHeld
             g == openHeld'
  <2>2. f \in [Buyers -> Int] /\ g \in [Buyers -> Int] /\ \A a \in Buyers : a # b => g[a] = f[a]
    BY <1>3, <1>4
  <2> HIDE DEF f, g
  <2>3. SumFunction(g) = SumFunction(f) + (g[b] - f[b])
    BY <2>1, <2>2, SumFunctionChange, ZenonT(60)
  <2> QED BY <2>3 DEF f, g
<1>6. SumFunction(openHeld) \in Int /\ openHeld[b] \in Int
  BY <1>4, PresaleAssumption, SumFunctionType
<1>7. presaleVault' = Bucket - SumFunction(openHeld') /\ presaleVault' \in Nat
  BY <1>1, <1>3, <1>5, <1>6, PresaleAssumption
<1> QED BY <1>2, <1>3, <1>7

\* Fields of a sale and of a contribution.
LEMMA Fields ==
  ASSUME SaleTypes, NEW s \in Sales, NEW b \in Buyers
  PROVE  /\ contribution[s][b] \in ContributionType
         /\ contribution[s][b].amount_usdc \in Nat /\ contribution[s][b].open_entitlement \in Nat
         /\ contribution[s][b].claimed_open \in Nat
         /\ usdcVault[s] \in Nat /\ treasury[s] \in Nat /\ openHeld[b] \in Nat
         /\ sale[s] # NoSale =>
              /\ sale[s] \in SaleType /\ sale[s].total_raised \in Nat
              /\ sale[s].params \in ParamsType /\ sale[s].params.hard_cap \in Nat
              /\ sale[s].params.open_per_usdc \in Nat
<1>1. contribution[s][b] \in ContributionType
  BY DEF SaleTypes, Contributions
<1>2. /\ contribution[s][b].amount_usdc \in Nat /\ contribution[s][b].open_entitlement \in Nat
      /\ contribution[s][b].claimed_open \in Nat
  BY <1>1 DEF ContributionType
<1>3. usdcVault[s] \in Nat /\ treasury[s] \in Nat /\ openHeld[b] \in Nat
  BY DEF SaleTypes
<1>4. ASSUME sale[s] # NoSale
      PROVE  /\ sale[s] \in SaleType /\ sale[s].total_raised \in Nat
             /\ sale[s].params \in ParamsType /\ sale[s].params.hard_cap \in Nat
             /\ sale[s].params.open_per_usdc \in Nat
  <2>1. sale[s] \in SaleType
    BY <1>4 DEF SaleTypes
  <2>2. sale[s].total_raised \in Nat /\ sale[s].params \in ParamsType
    BY <2>1 DEF SaleType
  <2> QED BY <2>1, <2>2 DEF ParamsType
<1> QED BY <1>1, <1>2, <1>3, <1>4

\* A product of naturals is one.
LEMMA Products == \A x, y \in Nat : x * y \in Nat
  OBVIOUS

\* What the three ways of contributing share: the USDC is booked, the entitlement grows by
\* what it buys, and d of it is handed out at once.
LEMMA ContributionKeeps ==
  ASSUME PresaleInv, NEW s \in Sales, NEW b \in Buyers, NEW delta \in Nat, NEW d,
         d \in {0, OpenEntitlementFor(s, delta)}, d <= presaleVault,
         Open(s), WithinBounds(s, b, delta), Receive(s, b, delta), Credit(s, b, delta, d),
         openHeld' = [openHeld EXCEPT ![b] = openHeld[b] + d],
         presaleVault' = presaleVault - d, treasury' = treasury
  PROVE  PresaleInv'
<1> DEFINE c == contribution[s][b]
           e == OpenEntitlementFor(s, delta)
           n == [amount_usdc |-> c.amount_usdc + delta,
                 open_entitlement |-> c.open_entitlement + e,
                 claimed_open |-> c.claimed_open + d]
           y == [sale[s] EXCEPT !.total_raised = sale[s].total_raised + delta]
<1>1. SaleTypes /\ Books /\ Marks /\ sale[s] # NoSale
  BY DEF PresaleInv, Open, Active
<1>2. /\ c \in ContributionType /\ c.amount_usdc \in Nat /\ c.open_entitlement \in Nat
      /\ c.claimed_open \in Nat
      /\ usdcVault[s] \in Nat /\ treasury[s] \in Nat /\ openHeld[b] \in Nat
      /\ sale[s] \in SaleType /\ sale[s].total_raised \in Nat
      /\ sale[s].params \in ParamsType /\ sale[s].params.hard_cap \in Nat
      /\ sale[s].params.open_per_usdc \in Nat
  BY <1>1, Fields
<1>3. e \in Nat
  <2>1. DecimalsGap >= 0
    BY <1>1 DEF Books, BooksOf
  <2>2. 10^DecimalsGap \in Nat
    BY <2>1, PresaleAssumption
  <2>3. delta * 10^DecimalsGap \in Nat
    BY <2>2, Products
  <2>4. (delta * 10^DecimalsGap) * sale[s].params.open_per_usdc \in Nat
    BY <1>2, <2>3, Products
  <2> QED BY <2>4 DEF OpenEntitlementFor
<1>4. d \in Nat /\ d <= e
  BY <1>3
<1>5. contribution' = [contribution EXCEPT ![s][b] = n]
  BY DEF Credit
<1>6. n \in ContributionType
  BY <1>2, <1>3, <1>4 DEF ContributionType
<1>7. n.amount_usdc = c.amount_usdc + delta /\ n.claimed_open = c.claimed_open + d
      /\ n.open_entitlement = c.open_entitlement + e
  OBVIOUS
<1>8. contribution \in Contributions
  BY <1>1 DEF SaleTypes
<1> HIDE DEF n
<1>9. /\ contribution' \in Contributions
      /\ \A t \in Sales, a \in Buyers :
           contribution'[t][a] = IF t = s /\ a = b THEN n ELSE contribution[t][a]
      /\ \A t \in Sales : t # s => PutIn(contribution', t) = PutIn(contribution, t)
      /\ PutIn(contribution', s) = PutIn(contribution, s) + (n.amount_usdc - c.amount_usdc)
      /\ \A a \in Buyers : a # b => Marked(contribution', a) = Marked(contribution, a)
      /\ Marked(contribution', b) = Marked(contribution, b) + (n.claimed_open - c.claimed_open)
  <2> DEFINE C == contribution
             D == contribution'
  <2>1. C \in Contributions /\ D = Written(C, s, b, n)
    BY <1>5, <1>8 DEF Written
  <2> HIDE DEF C, D
  <2>2. Moved(C, D, s, b, n)
    BY <1>6, <2>1, OneRecord, ZenonT(60)
  <2> QED BY <2>2 DEF Moved, C, D
<1>10. \A t \in Sales : PutIn(contribution, t)' = PutIn(contribution', t)
  BY DEF PutIn
<1>11. \A a \in Buyers : Marked(contribution, a)' = Marked(contribution', a)
  BY DEF Marked
<1>12. /\ sale' = [sale EXCEPT ![s] = y]
       /\ usdcVault' = [usdcVault EXCEPT ![s] = usdcVault[s] + delta]
  BY DEF Receive
<1>13. y \in SaleType /\ y.params = sale[s].params /\ y.state = sale[s].state
       /\ y.total_raised = sale[s].total_raised + delta
  BY <1>2 DEF SaleType
<1>14. y # NoSale
  BY <1>13, PresaleAssumption
<1>15. sale[s].state = "Active" /\ sale[s].total_raised + delta <= sale[s].params.hard_cap
  BY DEF Open, Active, WithinBounds
<1> HIDE DEF y
<1>16. /\ openHeld' \in [Buyers -> Nat] /\ presaleVault' \in Nat
       /\ presaleVault' = Bucket - SumFunction(openHeld')
       /\ openHeld'[b] = openHeld[b] + d
       /\ \A a \in Buyers : a # b => openHeld'[a] = openHeld[a]
  BY <1>4, HandOut, ZenonT(60)
<1>17. SaleTypes'
  BY <1>1, <1>2, <1>9, <1>12, <1>13, <1>16 DEF SaleTypes
<1>18. Books'
  <2>1. sale'[s] = y /\ usdcVault'[s] = usdcVault[s] + delta /\ treasury'[s] = treasury[s]
    BY <1>1, <1>12 DEF SaleTypes
  <2>2. \A t \in Sales : t # s => sale'[t] = sale[t] /\ usdcVault'[t] = usdcVault[t]
    BY <1>1, <1>12 DEF SaleTypes
  <2>3. /\ sale[s].total_raised = PutIn(contribution, s)
        /\ sale[s].total_raised = usdcVault[s] + treasury[s] /\ DecimalsGap >= 0
    BY <1>1 DEF Books, BooksOf
  <2>4. PutIn(contribution, s) \in Nat
    BY <1>8, RowsAndColumns
  <2>5. /\ y.total_raised = PutIn(contribution, s)'
        /\ y.total_raised = usdcVault'[s] + treasury'[s]
        /\ y.total_raised <= y.params.hard_cap
    BY <1>2, <1>7, <1>9, <1>10, <1>13, <1>15, <2>1, <2>3, <2>4
  <2>6. BooksOf(sale'[s], PutIn(contribution, s)', usdcVault'[s], treasury'[s])
    BY <1>13, <1>14, <1>15, <2>1, <2>3, <2>5 DEF BooksOf
  <2>7. \A t \in Sales : t # s =>
          /\ sale'[t] = sale[t] /\ PutIn(contribution, t)' = PutIn(contribution, t)
          /\ usdcVault'[t] = usdcVault[t] /\ treasury'[t] = treasury[t]
    BY <1>9, <1>10, <2>2
  <2> QED BY <1>1, <2>6, <2>7, BooksElsewhere
<1>19. Marks'
  <2>1. \A a \in Buyers : Marked(contribution, a) \in Nat
    BY <1>8, RowsAndColumns
  <2>2. \A a \in Buyers : openHeld'[a] = Marked(contribution, a)'
    BY <1>1, <1>2, <1>4, <1>7, <1>9, <1>11, <1>16, <2>1 DEF Marks
  <2>3. n.claimed_open <= n.open_entitlement
    BY <1>1, <1>2, <1>3, <1>4, <1>7 DEF Marks
  <2>4. \A a \in Buyers, t \in Sales :
          contribution'[t][a].claimed_open <= contribution'[t][a].open_entitlement
    BY <1>1, <1>9, <2>3 DEF Marks
  <2> QED BY <2>2, <2>4 DEF Marks
<1>20. (presaleVault = Bucket - SumFunction(openHeld))'
  BY <1>16
<1> QED BY <1>17, <1>18, <1>19, <1>20 DEF PresaleInv

\* A contribution whose OPEN stays to be claimed hands out nothing.
LEMMA UnclaimedContribution ==
  ASSUME PresaleInv, NEW s \in Sales, NEW b \in Buyers, NEW delta \in Nat,
         Open(s), WithinBounds(s, b, delta), Receive(s, b, delta), Credit(s, b, delta, 0),
         UNCHANGED <<treasury, presaleVault, openHeld, saleClock>>
  PROVE  PresaleInv'
<1>1. openHeld \in [Buyers -> Nat] /\ presaleVault \in Nat
  BY DEF PresaleInv, SaleTypes
<1>2. openHeld' = [openHeld EXCEPT ![b] = openHeld[b] + 0]
  BY <1>1
<1>3. presaleVault' = presaleVault - 0 /\ 0 <= presaleVault
  BY <1>1
<1> DEFINE d == 0
<1>4. /\ d \in {0, OpenEntitlementFor(s, delta)} /\ d <= presaleVault
      /\ openHeld' = [openHeld EXCEPT ![b] = openHeld[b] + d]
      /\ presaleVault' = presaleVault - d /\ treasury' = treasury /\ Credit(s, b, delta, d)
  BY <1>2, <1>3, ZenonT(60)
<1> HIDE DEF d
<1> QED BY <1>4, ContributionKeeps, ZenonT(60)

\* OPEN is delivered for USDC that came in.
LEMMA DeliverKeeps ==
  ASSUME PresaleInv, NEW s \in Sales, NEW b \in Buyers, NEW amount \in Nat,
         DeliverContribution(s, b, amount)
  PROVE  PresaleInv'
<1> DEFINE d == OpenEntitlementFor(s, amount)
<1>1. /\ d \in {0, OpenEntitlementFor(s, amount)}
      /\ Open(s) /\ WithinBounds(s, b, amount) /\ Receive(s, b, amount)
      /\ Credit(s, b, amount, d)
      /\ openHeld' = [openHeld EXCEPT ![b] = openHeld[b] + d]
      /\ presaleVault' = presaleVault - d /\ treasury' = treasury
  BY DEF DeliverContribution, Delivered
<1>2. presaleVault >= d
  BY DEF DeliverContribution
<1> HIDE DEF d
<1>3. d <= presaleVault
  BY <1>2
<1> QED BY <1>1, <1>3, ContributionKeeps, ZenonT(60)

\* A claim pays out what the contribution still entitles to, and marks it.
LEMMA ClaimKeeps ==
  ASSUME PresaleInv, NEW s \in Sales, NEW b \in Buyers, Claim(s, b)
  PROVE  PresaleInv'
<1> DEFINE c == contribution[s][b]
           d == Unclaimed(s, b)
           n == [c EXCEPT !.claimed_open = c.open_entitlement]
<1>1. SaleTypes /\ Books /\ Marks /\ contribution \in Contributions
  BY DEF PresaleInv, SaleTypes
<1>2. /\ c \in ContributionType /\ c.amount_usdc \in Nat /\ c.open_entitlement \in Nat
      /\ c.claimed_open \in Nat /\ openHeld[b] \in Nat
  BY <1>1, Fields
<1>3. d = c.open_entitlement - c.claimed_open /\ d \in Nat
  BY <1>2 DEF Claim, Unclaimed
<1>4. /\ openHeld' = [openHeld EXCEPT ![b] = openHeld[b] + d]
      /\ presaleVault' = presaleVault - d
      /\ UNCHANGED <<sale, usdcVault, treasury>>
  BY DEF Claim
<1>5. presaleVault >= d /\ presaleVault \in Nat
  BY <1>1 DEF Claim, SaleTypes
<1>6. /\ n \in ContributionType /\ n.amount_usdc = c.amount_usdc
      /\ n.claimed_open = c.open_entitlement /\ n.open_entitlement = c.open_entitlement
  BY <1>2 DEF ContributionType
<1>7. contribution' = Written(contribution, s, b, n)
  BY DEF Claim, Written
<1> HIDE DEF n, d
<1>8. /\ openHeld' \in [Buyers -> Nat] /\ presaleVault' \in Nat
      /\ presaleVault' = Bucket - SumFunction(openHeld')
      /\ openHeld'[b] = openHeld[b] + d
      /\ \A a \in Buyers : a # b => openHeld'[a] = openHeld[a]
  <2>1. d <= presaleVault
    BY <1>3, <1>5
  <2> QED BY <1>3, <1>4, <2>1, HandOut, ZenonT(60)
<1>9. Moved(contribution, contribution', s, b, n)
  <2> DEFINE C == contribution
             D == contribution'
  <2>1. C \in Contributions /\ D = Written(C, s, b, n)
    BY <1>1, <1>7
  <2> HIDE DEF C, D
  <2>2. Moved(C, D, s, b, n)
    BY <1>6, <2>1, OneRecord, ZenonT(60)
  <2> QED BY <2>2 DEF C, D
<1>10. \A t \in Sales : PutIn(contribution, t)' = PutIn(contribution', t)
  BY DEF PutIn
<1>11. \A a \in Buyers : Marked(contribution, a)' = Marked(contribution', a)
  BY DEF Marked
<1>12. /\ \A t \in Sales : PutIn(contribution, t) \in Nat
       /\ \A a \in Buyers : Marked(contribution, a) \in Nat
  BY <1>1, RowsAndColumns
<1>13. SaleTypes'
  BY <1>1, <1>4, <1>8, <1>9 DEF SaleTypes, Moved
<1>14. Books'
  <2>1. PutIn(contribution', s) = PutIn(contribution, s) + (n.amount_usdc - c.amount_usdc)
    BY <1>9 DEF Moved
  <2>2. PutIn(contribution', s) = PutIn(contribution, s)
    BY <1>2, <1>6, <1>12, <2>1
  <2>3. \A t \in Sales : PutIn(contribution, t)' = PutIn(contribution, t)
    BY <1>9, <1>10, <2>2 DEF Moved
  <2>4. sale' = sale /\ usdcVault' = usdcVault /\ treasury' = treasury
    BY <1>4
  <2> QED BY <1>1, <2>3, <2>4 DEF Books, BooksOf
<1>15. Marks'
  <2>1. /\ Marked(contribution', b) = Marked(contribution, b) + (n.claimed_open - c.claimed_open)
        /\ \A a \in Buyers : a # b => Marked(contribution', a) = Marked(contribution, a)
        /\ \A t \in Sales, a \in Buyers :
             contribution'[t][a] = IF t = s /\ a = b THEN n ELSE contribution[t][a]
    BY <1>9 DEF Moved
  <2>2. openHeld[b] = Marked(contribution, b)
    BY <1>1 DEF Marks
  <2>3. openHeld'[b] = Marked(contribution', b)
    BY <1>2, <1>3, <1>6, <1>8, <1>12, <2>1, <2>2
  <2>4. \A a \in Buyers : openHeld'[a] = Marked(contribution, a)'
    BY <1>1, <1>8, <1>11, <2>1, <2>3 DEF Marks
  <2>5. n.claimed_open <= n.open_entitlement
    BY <1>2, <1>6
  <2>6. \A a \in Buyers, t \in Sales :
          contribution'[t][a].claimed_open <= contribution'[t][a].open_entitlement
    BY <1>1, <2>1, <2>5 DEF Marks
  <2> QED BY <2>4, <2>6 DEF Marks
<1> QED BY <1>8, <1>13, <1>14, <1>15 DEF PresaleInv

\* Instructions that touch neither contributions nor OPEN only have the books of their sale
\* to keep.
LEMMA OneSale ==
  ASSUME PresaleInv, NEW s \in Sales, NEW x \in SaleType, NEW v \in Nat, NEW t \in Nat,
         sale' = [sale EXCEPT ![s] = x], usdcVault' = [usdcVault EXCEPT ![s] = v],
         treasury' = [treasury EXCEPT ![s] = t],
         BooksOf(x, PutIn(contribution, s), v, t),
         UNCHANGED <<contribution, presaleVault, openHeld>>
  PROVE  PresaleInv'
<1>1. SaleTypes /\ Books /\ Marks
  BY DEF PresaleInv
<1>2. SaleTypes'
  BY <1>1 DEF SaleTypes
<1>3. \A u \in Sales : PutIn(contribution, u)' = PutIn(contribution, u)
  BY DEF PutIn
<1>4. sale'[s] = x /\ usdcVault'[s] = v /\ treasury'[s] = t
  BY <1>1 DEF SaleTypes
<1>5. \A u \in Sales : u # s => sale'[u] = sale[u] /\ usdcVault'[u] = usdcVault[u]
                                /\ treasury'[u] = treasury[u]
  BY <1>1 DEF SaleTypes
<1>6. BooksOf(sale'[s], PutIn(contribution, s)', usdcVault'[s], treasury'[s])
  BY <1>3, <1>4
<1>7. Books'
  BY <1>1, <1>3, <1>5, <1>6, BooksElsewhere
<1>8. Marks'
  BY <1>1 DEF Marks, Marked
<1>9. (presaleVault = Bucket - SumFunction(openHeld))'
  BY DEF PresaleInv
<1> QED BY <1>2, <1>7, <1>8, <1>9 DEF PresaleInv

\* A sale is created.
LEMMA InitializeKeeps ==
  ASSUME PresaleInv, NEW s \in Sales, NEW p \in ParamsType, InitializeSale(s, p)
  PROVE  PresaleInv'
<1> DEFINE x == [params |-> p, total_raised |-> 0, state |-> "Active"]
<1>1. x \in SaleType /\ x.total_raised = 0 /\ x.params = p /\ x.state = "Active"
  BY DEF SaleType
<1>2. x # NoSale
  BY <1>1, PresaleAssumption
<1>3. sale' = [sale EXCEPT ![s] = x] /\ UNCHANGED <<contribution, presaleVault, openHeld>>
  BY DEF InitializeSale
<1>4. usdcVault' = [usdcVault EXCEPT ![s] = usdcVault[s]]
      /\ treasury' = [treasury EXCEPT ![s] = treasury[s]]
  BY DEF InitializeSale, PresaleInv, SaleTypes
<1>5. usdcVault[s] \in Nat /\ treasury[s] \in Nat
  BY DEF PresaleInv, SaleTypes
<1>6. PutIn(contribution, s) = 0 /\ usdcVault[s] = 0 /\ treasury[s] = 0 /\ DecimalsGap >= 0
  BY DEF PresaleInv, Books, BooksOf, InitializeSale
<1>7. 0 <= p.hard_cap
  BY DEF ParamsType
<1> HIDE DEF x
<1>8. BooksOf(x, PutIn(contribution, s), usdcVault[s], treasury[s])
  BY <1>1, <1>2, <1>6, <1>7 DEF BooksOf
<1> QED BY <1>1, <1>3, <1>4, <1>5, <1>8, OneSale, ZenonT(60)

\* The cap may not be lowered below what was raised.
LEMMA UpdateKeeps ==
  ASSUME PresaleInv, NEW s \in Sales, NEW p \in ParamsType, UpdateSaleParams(s, p)
  PROVE  PresaleInv'
<1> DEFINE q == [p EXCEPT !.start_time = sale[s].params.start_time]
           x == [sale[s] EXCEPT !.params = q]
<1>1. sale[s] # NoSale /\ sale[s] \in SaleType
  BY DEF UpdateSaleParams, Active, PresaleInv, SaleTypes
<1>2. q \in ParamsType /\ q.hard_cap = p.hard_cap
  <2>1. sale[s].params.start_time \in Nat
    BY <1>1 DEF SaleType, ParamsType
  <2> QED BY <2>1 DEF ParamsType
<1>3. sale' = [sale EXCEPT ![s] = x] /\ UNCHANGED <<contribution, presaleVault, openHeld>>
  BY DEF UpdateSaleParams
<1> HIDE DEF q
<1>4. /\ x \in SaleType /\ x.params = q /\ x.total_raised = sale[s].total_raised
      /\ x.state = sale[s].state
  BY <1>1, <1>2 DEF SaleType
<1>5. x # NoSale
  BY <1>4, PresaleAssumption
<1>6. usdcVault' = [usdcVault EXCEPT ![s] = usdcVault[s]]
      /\ treasury' = [treasury EXCEPT ![s] = treasury[s]]
  BY DEF UpdateSaleParams, PresaleInv, SaleTypes
<1>7. usdcVault[s] \in Nat /\ treasury[s] \in Nat
  BY DEF PresaleInv, SaleTypes
<1>8. BooksOf(sale[s], PutIn(contribution, s), usdcVault[s], treasury[s])
  BY DEF PresaleInv, Books
<1>9. p.hard_cap >= sale[s].total_raised /\ p.hard_cap \in Nat /\ sale[s].total_raised \in Nat
  BY <1>1 DEF UpdateSaleParams, CapCoversRaised, ParamsType, SaleType
<1>10. sale[s].total_raised <= q.hard_cap
  BY <1>2, <1>9
<1> HIDE DEF x
<1>11. BooksOf(x, PutIn(contribution, s), usdcVault[s], treasury[s])
  BY <1>1, <1>4, <1>5, <1>8, <1>10 DEF BooksOf
<1> QED BY <1>3, <1>4, <1>6, <1>7, <1>11, OneSale, ZenonT(60)

\* Proceeds go to the treasury.
LEMMA SweepKeeps ==
  ASSUME PresaleInv, NEW s \in Sales, NEW amount \in Nat, SweepProceeds(s, amount)
  PROVE  PresaleInv'
<1>1. sale[s] # NoSale /\ sale[s] \in SaleType /\ sale[s].state = "Active"
  BY DEF SweepProceeds, Active, PresaleInv, SaleTypes
<1>2. sale' = [sale EXCEPT ![s] = sale[s]] /\ UNCHANGED <<contribution, presaleVault, openHeld>>
  BY DEF SweepProceeds, PresaleInv, SaleTypes
<1>3. usdcVault' = [usdcVault EXCEPT ![s] = usdcVault[s] - amount]
      /\ treasury' = [treasury EXCEPT ![s] = treasury[s] + amount]
  BY DEF SweepProceeds
<1>4. usdcVault[s] \in Nat /\ treasury[s] \in Nat /\ amount <= usdcVault[s]
  BY DEF PresaleInv, SaleTypes, SweepProceeds
<1>5. BooksOf(sale[s], PutIn(contribution, s), usdcVault[s], treasury[s])
  BY DEF PresaleInv, Books
<1>6. /\ usdcVault[s] - amount \in Nat /\ treasury[s] + amount \in Nat
      /\ (usdcVault[s] - amount) + (treasury[s] + amount) = usdcVault[s] + treasury[s]
  BY <1>4
<1>7. BooksOf(sale[s], PutIn(contribution, s), usdcVault[s] - amount, treasury[s] + amount)
  BY <1>1, <1>5, <1>6 DEF BooksOf
<1> QED BY <1>1, <1>2, <1>3, <1>6, <1>7, OneSale, ZenonT(60)

\* A sale is finalized.
LEMMA FinalizeKeeps ==
  ASSUME PresaleInv, NEW s \in Sales, FinalizeSale(s)
  PROVE  PresaleInv'
<1> DEFINE x == [sale[s] EXCEPT !.state = "Finalized"]
<1>1. sale[s] # NoSale /\ sale[s] \in SaleType
  BY DEF FinalizeSale, Active, PresaleInv, SaleTypes
<1>2. /\ x \in SaleType /\ x.params = sale[s].params /\ x.total_raised = sale[s].total_raised
  BY <1>1 DEF SaleType
<1>3. x # NoSale
  BY <1>2, PresaleAssumption
<1>4. /\ sale' = [sale EXCEPT ![s] = x] /\ UNCHANGED <<contribution, presaleVault, openHeld>>
      /\ usdcVault' = [usdcVault EXCEPT ![s] = 0]
      /\ treasury' = [treasury EXCEPT ![s] = treasury[s] + usdcVault[s]]
  BY DEF FinalizeSale
<1>5. usdcVault[s] \in Nat /\ treasury[s] \in Nat
  BY DEF PresaleInv, SaleTypes
<1>6. BooksOf(sale[s], PutIn(contribution, s), usdcVault[s], treasury[s])
  BY DEF PresaleInv, Books
<1>7. treasury[s] + usdcVault[s] \in Nat
      /\ 0 + (treasury[s] + usdcVault[s]) = usdcVault[s] + treasury[s]
  BY <1>5
<1> HIDE DEF x
<1>8. BooksOf(x, PutIn(contribution, s), 0, treasury[s] + usdcVault[s])
  BY <1>1, <1>2, <1>3, <1>6, <1>7 DEF BooksOf
<1> QED BY <1>2, <1>4, <1>7, <1>8, OneSale, ZenonT(60)

-----------------------------------------------------------------------------
(* The theorem                                                             *)

\* The clock and the wallets' other USDC are no part of the books.
LEMMA SaleStutter ==
  ASSUME PresaleInv,
         UNCHANGED <<sale, contribution, usdcVault, treasury, presaleVault, openHeld>>
  PROVE  PresaleInv'
<1>1. SaleTypes' /\ Books' /\ Marks'
  BY DEF PresaleInv, SaleTypes, Books, BooksOf, Marks, PutIn, Marked
<1> QED BY <1>1 DEF PresaleInv

\* Every instruction keeps the invariant.
LEMMA PresaleStep == PresaleInv /\ [PresaleNext]_saleVars => PresaleInv'
<1> SUFFICES ASSUME PresaleInv, [PresaleNext]_saleVars PROVE PresaleInv'
  OBVIOUS
<1>0. SaleParams \subseteq ParamsType /\ Payments \subseteq Nat
  BY PresaleAssumption
<1>1. CASE UNCHANGED saleVars
  BY <1>1, SaleStutter DEF saleVars
<1>2. CASE SaleTick
  BY <1>2, SaleStutter DEF SaleTick
<1>3. ASSUME NEW s \in Sales, NEW p \in SaleParams, InitializeSale(s, p) \/ UpdateSaleParams(s, p)
      PROVE  PresaleInv'
  BY <1>0, <1>3, InitializeKeeps, UpdateKeeps
<1>4. ASSUME NEW s \in Sales, NEW a \in Payments, SweepProceeds(s, a) PROVE PresaleInv'
  BY <1>0, <1>4, SweepKeeps
<1>5. ASSUME NEW s \in Sales, FinalizeSale(s) PROVE PresaleInv'
  BY <1>5, FinalizeKeeps
<1>6. ASSUME NEW s \in Sales, NEW b \in Buyers, Claim(s, b) PROVE PresaleInv'
  BY <1>6, ClaimKeeps
<1>7. ASSUME NEW s \in Sales, NEW b \in Buyers, NEW a \in Payments, ContributeUsdc(s, b, a)
      PROVE  PresaleInv'
  BY <1>0, <1>7, UnclaimedContribution DEF ContributeUsdc
<1>8. ASSUME NEW s \in Sales, NEW b \in Buyers, NEW a \in Payments, DeliverContribution(s, b, a)
      PROVE  PresaleInv'
  BY <1>0, <1>8, DeliverKeeps
<1>9. ASSUME NEW s \in Sales, NEW b \in Buyers, NEW asset, NEW expected, NEW delta \in Payments,
             ContributeWithSwap(s, b, asset, expected, delta)
      PROVE  PresaleInv'
  BY <1>0, <1>9, UnclaimedContribution DEF ContributeWithSwap
<1> QED BY <1>1, <1>2, <1>3, <1>4, <1>5, <1>6, <1>7, <1>8, <1>9, ZenonT(60) DEF PresaleNext

\* Whatever sales, buyers, parameters and amounts there are, what a sale says it raised is
\* what its buyers put in, within its cap, and lies in its vault or its treasury; and the OPEN
\* that left the shared vault is what the claim marks record, nobody's above what they were
\* entitled to (contribute_usdc, contribute_with_swap, deliver_contribution, claim,
\* update_sale_params, sweep_proceeds, finalize_sale).
THEOREM SalesAlwaysAccounted == PresaleSpec => []SaleAccounted
<1>1. PresaleSpec => []PresaleInv
  BY InitPresale, PresaleStep, PTL DEF PresaleSpec
<1> QED BY <1>1, InvAccounts, PTL

-----------------------------------------------------------------------------
(* Arithmetic                                                              *)

\* A product of naturals is one.
LEMMA NatProducts == \A x, y \in Nat : x * y \in Nat
  OBVIOUS

\* Integer division rounds down, so a quotient of at least t is a product of at least t * c.
LEMMA QuotientBounds ==
  ASSUME NEW a \in Nat, NEW c \in Nat, c # 0, NEW t \in Nat, a \div c >= t
  PROVE  a >= t * c
<1> DEFINE q == a \div c
<1>1. q \in Nat /\ q * c <= a /\ q >= t
  OBVIOUS
<1> HIDE DEF q
<1>2. (q - t) * c >= 0
  BY <1>1
<1>3. (q - t) * c = q * c - t * c
  BY <1>1
<1>4. q * c \in Int /\ t * c \in Int
  BY <1>1
<1> QED BY <1>1, <1>2, <1>3, <1>4

-----------------------------------------------------------------------------
(* The inductive invariant                                                 *)

GovTypes ==
  /\ act \in GovernanceScenes
  /\ gconfig # None => gconfig \in GovParamsType /\ ValidVoteLock(gconfig.vote_lock_secs)
  /\ proposal \in [Ids -> ProposalType \cup {None}]
  /\ actionOf \in [Ids -> ActionType]
  /\ voteRecord \in [Ids -> [GovWallets -> VoteType \cup {None}]]
  /\ depositVault \in Nat /\ forfeited \in Nat /\ purse \in [GovWallets -> Nat]
  /\ clock \in Nat

\* The totals of a proposal p are what its vote records R add up to, and an accepted one is
\* still carried by them: no vote is cast after the tally.
CountOf(p, R) ==
  IF p = None THEN VotesCast(R, TRUE) = 0 /\ VotesCast(R, FALSE) = 0
  ELSE /\ p.votes_for = VotesCast(R, TRUE) /\ p.votes_against = VotesCast(R, FALSE)
       /\ p.state = "Accepted" => Accepted(p)
       /\ p.executed => p.state = "Accepted"

Counts == \A i \in Ids : CountOf(proposal[i], voteRecord[i])

\* A ban b of a wallet w names the proposal p with action a that listed it.
BanOf(b, w, p, a) ==
  /\ p # None /\ p.category = "Standards" /\ p.state = "Accepted" /\ p.executed
  /\ a = Listing(w)
  /\ b.listed_at > p.voting_ends_at

Bans ==
  /\ ban \in [GovWallets -> BanType \cup {None}]
  /\ \A w \in GovWallets : ban[w] # None =>
       BanOf(ban[w], w, proposal[ban[w].authorizing_proposal],
             actionOf[ban[w].authorizing_proposal])

GovInv == GovTypes /\ Counts /\ Bans /\ DepositsBacked

-----------------------------------------------------------------------------
(* Sums over votes and deposits                                            *)

Replaced(f, x, v) == [f EXCEPT ![x] = v]

\* Every weight counted is a natural.
LEMMA WeightType ==
  ASSUME NEW v \in VoteType \cup {None}, NEW side PROVE WeightOf(v, side) \in Nat
  BY DEF WeightOf, VoteType

\* What one side got is a natural.
LEMMA VotesType ==
  ASSUME NEW R \in [GovWallets -> VoteType \cup {None}], NEW side
  PROVE  VotesCast(R, side) \in Nat
<1>1. [w \in GovWallets |-> WeightOf(R[w], side)] \in [GovWallets -> Nat]
  BY WeightType
<1> QED BY <1>1, SumFunctionType, GovernanceAssumption DEF VotesCast

\* One vote record changing moves what a side got by its weight on that side.
LEMMA OneVote ==
  ASSUME NEW R \in [GovWallets -> VoteType \cup {None}], NEW w \in GovWallets,
         NEW v \in VoteType \cup {None}, NEW S, S = Replaced(R, w, v), NEW side
  PROVE  /\ S \in [GovWallets -> VoteType \cup {None}]
         /\ VotesCast(S, side)
              = VotesCast(R, side) + (WeightOf(v, side) - WeightOf(R[w], side))
<1> DEFINE f == [u \in GovWallets |-> WeightOf(R[u], side)]
           g == [u \in GovWallets |-> WeightOf(S[u], side)]
<1>1. S \in [GovWallets -> VoteType \cup {None}]
  BY DEF Replaced
<1>2. f \in [GovWallets -> Int] /\ g \in [GovWallets -> Int]
  BY <1>1, WeightType
<1>3. \A u \in GovWallets : u # w => g[u] = f[u]
  BY DEF Replaced
<1>4. f[w] = WeightOf(R[w], side) /\ g[w] = WeightOf(v, side)
  BY DEF Replaced
<1>5. VotesCast(S, side) = SumFunction(g) /\ VotesCast(R, side) = SumFunction(f)
  BY DEF VotesCast
<1>6. IsFiniteSet(GovWallets)
  BY GovernanceAssumption
<1> HIDE DEF f, g
<1>7. SumFunction(g) = SumFunction(f) + (g[w] - f[w])
  BY <1>2, <1>3, <1>6, SumFunctionChange, ZenonT(60)
<1> QED BY <1>1, <1>4, <1>5, <1>7

\* The deposits in the vault.
Deposits(P) == SumFunction([i \in Ids |-> DepositOf(P[i])])

\* One proposal changing moves the deposits by its own.
LEMMA OneDeposit ==
  ASSUME NEW P \in [Ids -> ProposalType \cup {None}], NEW i \in Ids,
         NEW p \in ProposalType \cup {None}, NEW Q, Q = Replaced(P, i, p)
  PROVE  /\ Q \in [Ids -> ProposalType \cup {None}]
         /\ Deposits(Q) = Deposits(P) + (DepositOf(p) - DepositOf(P[i]))
<1> DEFINE f == [j \in Ids |-> DepositOf(P[j])]
           g == [j \in Ids |-> DepositOf(Q[j])]
<1>1. Q \in [Ids -> ProposalType \cup {None}]
  BY DEF Replaced
<1>2. \A x \in ProposalType \cup {None} : DepositOf(x) \in Int
  BY DEF DepositOf, ProposalType
<1>3. f \in [Ids -> Int] /\ g \in [Ids -> Int]
  BY <1>1, <1>2
<1>4. \A j \in Ids : j # i => g[j] = f[j]
  BY DEF Replaced
<1>5. f[i] = DepositOf(P[i]) /\ g[i] = DepositOf(p)
  BY DEF Replaced
<1>6. Deposits(Q) = SumFunction(g) /\ Deposits(P) = SumFunction(f)
  BY DEF Deposits
<1>7. IsFiniteSet(Ids)
  BY GovernanceAssumption
<1> HIDE DEF f, g
<1>8. SumFunction(g) = SumFunction(f) + (g[i] - f[i])
  BY <1>3, <1>4, <1>7, SumFunctionChange, ZenonT(60)
<1> QED BY <1>1, <1>5, <1>6, <1>8

\* One purse changing moves what the wallets hold by its difference.
LEMMA OnePurse ==
  ASSUME NEW f \in [GovWallets -> Nat], NEW w \in GovWallets, NEW n \in Nat,
         NEW g, g = Replaced(f, w, n)
  PROVE  g \in [GovWallets -> Nat] /\ SumFunction(g) = SumFunction(f) + (n - f[w])
<1>1. g \in [GovWallets -> Nat] /\ g[w] = n /\ \A u \in GovWallets : u # w => g[u] = f[u]
  BY DEF Replaced
<1>2. f \in [GovWallets -> Int] /\ g \in [GovWallets -> Int]
  BY <1>1
<1>3. IsFiniteSet(GovWallets)
  BY GovernanceAssumption
<1>4. SumFunction(g) = SumFunction(f) + (g[w] - f[w])
  BY <1>1, <1>2, <1>3, SumFunctionChange, ZenonT(60)
<1> QED BY <1>1, <1>4

-----------------------------------------------------------------------------
(* What the invariant is for, and where it starts                          *)

\* A ban that names its proposal names one the vote records carry.
LEMMA InvLeadsToVotes == GovInv => BansLeadToVotes
<1> SUFFICES ASSUME GovInv, NEW w \in GovWallets, ban[w] # None
             PROVE  LET i == ban[w].authorizing_proposal
                        p == proposal[i]
                        for == VotesCast(voteRecord[i], TRUE)
                        against == VotesCast(voteRecord[i], FALSE)
                    IN  /\ p # None /\ p.category = "Standards" /\ p.state = "Accepted"
                        /\ p.executed /\ actionOf[i] = Listing(w)
                        /\ for + against >= p.quorum_snapshot
                        /\ for * GOVERNANCE_BPS >= p.threshold_snapshot * (for + against)
                        /\ ban[w].listed_at > p.voting_ends_at
  BY ZenonT(60) DEF BansLeadToVotes
<1> DEFINE i == ban[w].authorizing_proposal
           p == proposal[i]
<1>1. i \in Ids
  BY DEF GovInv, Bans, BanType
<1>2. BanOf(ban[w], w, p, actionOf[i]) /\ CountOf(p, voteRecord[i])
  BY <1>1 DEF GovInv, Bans, Counts
<1>3. p \in ProposalType
  BY <1>1, <1>2 DEF GovInv, GovTypes, BanOf
<1>4. /\ p.votes_for = VotesCast(voteRecord[i], TRUE)
      /\ p.votes_against = VotesCast(voteRecord[i], FALSE) /\ Accepted(p)
  BY <1>2, ZenonT(60) DEF BanOf, CountOf
<1>5. /\ p.votes_for \in Nat /\ p.votes_against \in Nat /\ p.threshold_snapshot \in Nat
      /\ p.quorum_snapshot \in Nat
  BY <1>3 DEF ProposalType
<1> HIDE DEF p, i
<1>6. /\ p.votes_for + p.votes_against >= p.quorum_snapshot
      /\ p.votes_for + p.votes_against # 0
      /\ (p.votes_for * GOVERNANCE_BPS) \div (p.votes_for + p.votes_against)
           >= p.threshold_snapshot
  BY <1>4, ZenonT(60) DEF Accepted, QuorumMet
<1>7. p.votes_for * GOVERNANCE_BPS >= p.threshold_snapshot * (p.votes_for + p.votes_against)
  <2> DEFINE a == p.votes_for * GOVERNANCE_BPS
             c == p.votes_for + p.votes_against
             t == p.threshold_snapshot
  <2>1. a \in Nat /\ c \in Nat /\ t \in Nat /\ c # 0 /\ a \div c >= t
    BY <1>5, <1>6 DEF GOVERNANCE_BPS
  <2> HIDE DEF a, c, t
  <2>2. a >= t * c
    BY <2>1, QuotientBounds
  <2> QED BY <2>2 DEF a, c, t
<1>8. /\ p # None /\ p.category = "Standards" /\ p.state = "Accepted"
      /\ p.executed /\ actionOf[i] = Listing(w) /\ ban[w].listed_at > p.voting_ends_at
  BY <1>2 DEF BanOf
<1> QED BY <1>4, <1>6, <1>7, <1>8, ZenonT(60) DEF p, i

\* Nothing proposed, voted or listed yet.
LEMMA InitGovernance == GovernanceInit => GovInv
<1> SUFFICES ASSUME GovernanceInit PROVE GovInv
  OBVIOUS
<1>1. SceneOK(act)
  BY GovernanceAssumption DEF GovernanceInit
<1>2. NoAction \in ActionType
  BY DEF NoAction, ActionType
<1>3. GovTypes
  BY <1>1, <1>2, GovernanceAssumption DEF GovTypes, GovernanceInit, SceneOK
<1>4. ASSUME NEW i \in Ids, NEW side PROVE VotesCast(voteRecord[i], side) = 0
  <2> DEFINE f == [w \in GovWallets |-> WeightOf(voteRecord[i][w], side)]
  <2>1. f \in [GovWallets -> Int] /\ \A w \in GovWallets : f[w] = 0
    BY DEF GovernanceInit, WeightOf
  <2>2. VotesCast(voteRecord[i], side) = SumFunction(f)
    BY DEF VotesCast
  <2> HIDE DEF f
  <2> QED BY <2>1, <2>2, GovernanceAssumption, SumFunctionZero
<1>5. Counts
  BY <1>4, ZenonT(60) DEF Counts, CountOf, GovernanceInit
<1>6. Bans
  BY DEF Bans, GovernanceInit
<1>7. DepositsBacked
  <2> DEFINE f == [i \in Ids |-> DepositOf(proposal[i])]
  <2>1. f \in [Ids -> Int] /\ \A i \in Ids : f[i] = 0
    BY DEF GovernanceInit, DepositOf
  <2>2. SumFunction(f) = 0
    <3> HIDE DEF f
    <3> QED BY <2>1, GovernanceAssumption, SumFunctionZero
  <2>3. SumFunction(purse) = SumFunction([w \in GovWallets |-> Holdings])
    BY DEF GovernanceInit
  <2>4. SumFunction(purse) \in Int
    <3>1. purse \in [GovWallets -> Int]
      BY GovernanceAssumption DEF GovernanceInit
    <3> QED BY <3>1, GovernanceAssumption, SumFunctionType
  <2> QED BY <2>2, <2>3, <2>4 DEF DepositsBacked, GovernanceInit
<1> QED BY <1>3, <1>5, <1>6, <1>7 DEF GovInv

-----------------------------------------------------------------------------
(* What a step may do to a proposal                                        *)

\* A proposal keeps its category and its deadline, and stays accepted and spent once it is.
Carries(p, q) ==
  /\ q # None /\ q.category = p.category /\ q.voting_ends_at = p.voting_ends_at
  /\ p.state = "Accepted" => q.state = "Accepted"
  /\ p.executed => q.executed

\* Of the proposals only i changes, to p, and its votes become R.
Becomes(i, p, R) ==
  /\ proposal' = Replaced(proposal, i, p)
  /\ voteRecord' = Replaced(voteRecord, i, R)
  /\ proposal[i] # None => Carries(proposal[i], p)

\* OPEN moved between a wallet, the vault and the forfeit destination as the deposit did.
Paid(i, p) ==
  /\ depositVault' \in Nat /\ forfeited' \in Nat /\ purse' \in [GovWallets -> Nat]
  /\ depositVault' = depositVault + (DepositOf(p) - DepositOf(proposal[i]))
  /\ depositVault' + forfeited' + SumFunction(purse')
       = depositVault + forfeited + SumFunction(purse)

\* One proposal changing keeps types, counts and deposits.
LEMMA OneProposal ==
  ASSUME GovInv, NEW i \in Ids, NEW p \in ProposalType,
         NEW R \in [GovWallets -> VoteType \cup {None}],
         Becomes(i, p, R), CountOf(p, R), Paid(i, p),
         actionOf' \in [Ids -> ActionType], UNCHANGED settingVars, UNCHANGED clock
  PROVE  GovTypes' /\ Counts' /\ DepositsBacked'
<1>1. /\ proposal \in [Ids -> ProposalType \cup {None}]
      /\ voteRecord \in [Ids -> [GovWallets -> VoteType \cup {None}]]
  BY DEF GovInv, GovTypes
<1>2. /\ proposal' \in [Ids -> ProposalType \cup {None}]
      /\ Deposits(proposal') = Deposits(proposal) + (DepositOf(p) - DepositOf(proposal[i]))
  <2> DEFINE P == proposal
             Q == proposal'
  <2>1. P \in [Ids -> ProposalType \cup {None}] /\ Q = Replaced(P, i, p)
    BY <1>1 DEF Becomes
  <2> HIDE DEF P, Q
  <2>2. /\ Q \in [Ids -> ProposalType \cup {None}]
        /\ Deposits(Q) = Deposits(P) + (DepositOf(p) - DepositOf(P[i]))
    BY <2>1, OneDeposit
  <2> QED BY <2>2 DEF P, Q
<1>3. voteRecord' \in [Ids -> [GovWallets -> VoteType \cup {None}]]
  BY <1>1 DEF Becomes, Replaced
<1>4. GovTypes'
  BY <1>2, <1>3 DEF GovInv, GovTypes, Paid, settingVars
<1>5. Counts'
  <2> SUFFICES ASSUME NEW j \in Ids PROVE CountOf(proposal'[j], voteRecord'[j])
    BY ZenonT(60) DEF Counts, CountOf, Accepted, QuorumMet, VotesCast, WeightOf
  <2>1. CASE j = i
    BY <1>1, <2>1 DEF Becomes, Replaced
  <2>2. CASE j # i
    <3>1. proposal'[j] = proposal[j] /\ voteRecord'[j] = voteRecord[j]
      BY <1>1, <2>2 DEF Becomes, Replaced
    <3>2. CountOf(proposal[j], voteRecord[j])
      BY DEF GovInv, Counts
    <3> QED BY <3>1, <3>2
  <2> QED BY <2>1, <2>2
<1>6. DepositsBacked'
  <2>1. depositVault = Deposits(proposal)
    BY DEF GovInv, DepositsBacked, Deposits
  <2>2. depositVault' = Deposits(proposal')
    BY <1>2, <2>1 DEF Paid
  <2>3. depositVault' + forfeited' + SumFunction(purse') = SumFunction([w \in GovWallets |-> Holdings])
    BY DEF Paid, GovInv, DepositsBacked
  <2> QED BY <2>2, <2>3 DEF Deposits, DepositsBacked
<1> QED BY <1>4, <1>5, <1>6

\* A ban stays good when no proposal it may name is undone.
LEMMA BansKept ==
  ASSUME GovInv, ban' = ban,
         \A j \in Ids : proposal[j] # None =>
           Carries(proposal[j], proposal'[j]) /\ actionOf'[j] = actionOf[j]
  PROVE  Bans'
<1>1. Bans
  BY DEF GovInv
<1> SUFFICES ASSUME NEW w \in GovWallets, ban[w] # None
             PROVE  BanOf(ban[w], w, proposal'[ban[w].authorizing_proposal],
                          actionOf'[ban[w].authorizing_proposal])
  BY <1>1 DEF Bans, BanOf, Listing
<1> DEFINE i == ban[w].authorizing_proposal
<1>2. i \in Ids
  BY <1>1 DEF Bans, BanType
<1>3. BanOf(ban[w], w, proposal[i], actionOf[i])
  BY <1>1 DEF Bans
<1>4. proposal[i] # None
  BY <1>3 DEF BanOf
<1>5. Carries(proposal[i], proposal'[i]) /\ actionOf'[i] = actionOf[i]
  BY <1>2, <1>4
<1> QED BY <1>3, <1>5 DEF BanOf, Carries

\* The other proposals stay as they are, and so carry over.
LEMMA OthersCarry ==
  ASSUME GovInv, NEW i \in Ids, NEW p \in ProposalType, NEW R, Becomes(i, p, R)
  PROVE  /\ proposal'[i] = p /\ \A j \in Ids \ {i} : proposal'[j] = proposal[j]
         /\ \A j \in Ids : proposal[j] # None => Carries(proposal[j], proposal'[j])
<1>1. proposal'[i] = p /\ \A j \in Ids \ {i} : proposal'[j] = proposal[j]
  BY DEF GovInv, GovTypes, Becomes, Replaced
<1> QED BY <1>1 DEF Becomes, Carries

\* With the ban list untouched, that is all a step has to show.
LEMMA QuietStep ==
  ASSUME GovInv, GovTypes', Counts', DepositsBacked', ban' = ban,
         \A j \in Ids : proposal[j] # None =>
           Carries(proposal[j], proposal'[j]) /\ actionOf'[j] = actionOf[j]
  PROVE  GovInv' /\ AuthorizationsSpentOnce
<1>1. Bans'
  BY BansKept
<1>2. AuthorizationsSpentOnce
  BY DEF AuthorizationsSpentOnce, Carries
<1> QED BY <1>1, <1>2 DEF GovInv

\* An instruction that writes one existing proposal and moves no OPEN.
Rewrites(i, p) ==
  /\ proposal' = [proposal EXCEPT ![i] = p]
  /\ UNCHANGED <<settingVars, actionOf, voteRecord, tokenVars, clock>>

\* A proposal rewritten without touching its deposit keeps types, counts and the backing of deposits.
LEMMA MarkingStep ==
  ASSUME GovInv, NEW i \in Ids, NEW p \in ProposalType, proposal[i] # None, Rewrites(i, p),
         Carries(proposal[i], p), CountOf(p, voteRecord[i]),
         p.stake_deposit = proposal[i].stake_deposit,
         p.deposit_settled = proposal[i].deposit_settled
  PROVE  /\ GovTypes' /\ Counts' /\ DepositsBacked'
         /\ proposal'[i] = p /\ \A j \in Ids \ {i} : proposal'[j] = proposal[j]
         /\ \A j \in Ids : proposal[j] # None =>
              Carries(proposal[j], proposal'[j]) /\ actionOf'[j] = actionOf[j]
<1> DEFINE R == voteRecord[i]
<1>1. R \in [GovWallets -> VoteType \cup {None}]
  BY DEF GovInv, GovTypes
<1>2. Becomes(i, p, R)
  <2>1. voteRecord = Replaced(voteRecord, i, R)
    BY DEF Replaced, GovInv, GovTypes
  <2> QED BY <2>1 DEF Becomes, Replaced, Rewrites
<1>3. Paid(i, p)
  <2>1. p # None
    BY DEF Carries
  <2>2. DepositOf(p) = DepositOf(proposal[i])
    BY <2>1 DEF DepositOf
  <2>3. DepositOf(p) \in Int
    BY DEF DepositOf, ProposalType
  <2>4. depositVault = depositVault + (DepositOf(p) - DepositOf(p))
    BY <2>3 DEF GovInv, GovTypes
  <2>5. depositVault' = depositVault /\ forfeited' = forfeited /\ purse' = purse
    BY DEF Rewrites, tokenVars
  <2> QED BY <2>2, <2>4, <2>5 DEF Paid, GovInv, GovTypes
<1>4. actionOf' \in [Ids -> ActionType]
  BY DEF Rewrites, GovInv, GovTypes
<1>5. UNCHANGED settingVars /\ UNCHANGED clock
  BY DEF Rewrites
<1> HIDE DEF R
<1>6. CountOf(p, R)
  BY DEF R
<1>7. GovTypes' /\ Counts' /\ DepositsBacked'
  BY <1>1, <1>2, <1>3, <1>4, <1>5, <1>6, OneProposal
<1>8. /\ proposal'[i] = p /\ \A j \in Ids \ {i} : proposal'[j] = proposal[j]
      /\ \A j \in Ids : proposal[j] # None => Carries(proposal[j], proposal'[j])
  BY <1>2, OthersCarry
<1>9. actionOf' = actionOf
  BY DEF Rewrites
<1> QED BY <1>7, <1>8, <1>9, ZenonT(60)

\* A proposal that exists, with its fields.
LEMMA ProposalFields ==
  ASSUME GovInv, NEW i \in Ids, proposal[i] # None
  PROVE  /\ proposal[i] \in ProposalType /\ CountOf(proposal[i], voteRecord[i])
         /\ proposal[i].stake_deposit \in Nat /\ proposal[i].proposer \in GovWallets
         /\ proposal[i].votes_for \in Nat /\ proposal[i].votes_against \in Nat
         /\ proposal[i].voting_ends_at \in Nat /\ proposal[i].executed \in BOOLEAN
<1>1. proposal[i] \in ProposalType
  BY DEF GovInv, GovTypes
<1> QED BY <1>1 DEF GovInv, Counts, ProposalType

\* The off-chain proposal is linked.
LEMMA LinkKeeps ==
  ASSUME GovInv, NEW w, NEW i \in Ids, LinkOffchainProposal(w, i)
  PROVE  GovInv' /\ AuthorizationsSpentOnce
<1> DEFINE x == proposal[i]
           p == [x EXCEPT !.offchain_link = TRUE]
<1>1. x # None /\ Rewrites(i, p) /\ ban' = ban
  BY DEF LinkOffchainProposal, Rewrites
<1>2. x \in ProposalType /\ CountOf(x, voteRecord[i])
  BY <1>1, ProposalFields
<1>3. /\ p \in ProposalType /\ p.category = x.category /\ p.voting_ends_at = x.voting_ends_at
      /\ p.state = x.state /\ p.executed = x.executed /\ p.votes_for = x.votes_for
      /\ p.votes_against = x.votes_against /\ p.stake_deposit = x.stake_deposit
      /\ p.deposit_settled = x.deposit_settled /\ p.quorum_snapshot = x.quorum_snapshot
      /\ p.threshold_snapshot = x.threshold_snapshot
  BY <1>2, ZenonT(60) DEF ProposalType
<1>4. p # None
  BY <1>3, GovernanceAssumption, ZenonT(60)
<1> HIDE DEF p
<1>5. Carries(x, p)
  BY <1>3, <1>4 DEF Carries
<1>6. CountOf(p, voteRecord[i])
  BY <1>1, <1>2, <1>3, <1>4, ZenonT(60) DEF CountOf, Accepted, QuorumMet
<1>7. /\ GovTypes' /\ Counts' /\ DepositsBacked'
      /\ \A j \in Ids : proposal[j] # None =>
           Carries(proposal[j], proposal'[j]) /\ actionOf'[j] = actionOf[j]
  BY <1>1, <1>3, <1>5, <1>6, MarkingStep
<1> QED BY <1>1, <1>7, QuietStep

\* The tally sets the state to what the votes say.
LEMMA TallyKeeps ==
  ASSUME GovInv, NEW i \in Ids, TallyAndFinalize(i)
  PROVE  GovInv' /\ AuthorizationsSpentOnce
<1> DEFINE x == proposal[i]
           p == Tallied(x)
<1>1. x # None /\ Rewrites(i, p) /\ ban' = ban /\ x.state = "Voting"
  BY DEF TallyAndFinalize, Rewrites
<1>2. x \in ProposalType /\ CountOf(x, voteRecord[i])
  BY <1>1, ProposalFields
<1>3. QuorumMet(x) \in BOOLEAN
  BY DEF QuorumMet
<1>4. /\ p \in ProposalType /\ p.category = x.category /\ p.voting_ends_at = x.voting_ends_at
      /\ p.state = (IF Accepted(x) THEN "Accepted" ELSE "Rejected")
      /\ p.executed = x.executed /\ p.votes_for = x.votes_for
      /\ p.votes_against = x.votes_against /\ p.stake_deposit = x.stake_deposit
      /\ p.deposit_settled = x.deposit_settled /\ p.quorum_snapshot = x.quorum_snapshot
      /\ p.threshold_snapshot = x.threshold_snapshot
  BY <1>2, <1>3, ZenonT(60) DEF ProposalType, Tallied
<1>5. p # None
  BY <1>4, GovernanceAssumption
<1>6. ~x.executed
  BY <1>1, <1>2 DEF CountOf
<1> HIDE DEF p
<1>7. Carries(x, p)
  BY <1>1, <1>4, <1>5 DEF Carries
<1>8. CountOf(p, voteRecord[i])
  <2>1. Accepted(p) <=> Accepted(x)
    BY <1>4 DEF Accepted, QuorumMet
  <2> QED BY <1>1, <1>2, <1>4, <1>5, <1>6, <2>1, ZenonT(60) DEF CountOf
<1>9. /\ GovTypes' /\ Counts' /\ DepositsBacked'
      /\ \A j \in Ids : proposal[j] # None =>
           Carries(proposal[j], proposal'[j]) /\ actionOf'[j] = actionOf[j]
  BY <1>1, <1>4, <1>7, <1>8, MarkingStep
<1> QED BY <1>1, <1>9, QuietStep

\* Spending an accepted proposal.
LEMMA SpendingStep ==
  ASSUME GovInv, NEW i \in Ids, proposal[i] # None, proposal[i].state = "Accepted",
         Rewrites(i, Spent(proposal[i]))
  PROVE  /\ GovTypes' /\ Counts' /\ DepositsBacked'
         /\ proposal'[i] = Spent(proposal[i])
         /\ \A j \in Ids \ {i} : proposal'[j] = proposal[j]
         /\ \A j \in Ids : proposal[j] # None =>
              Carries(proposal[j], proposal'[j]) /\ actionOf'[j] = actionOf[j]
<1> DEFINE x == proposal[i]
           p == Spent(x)
<1>1. x \in ProposalType /\ CountOf(x, voteRecord[i])
  BY ProposalFields
<1>2. /\ p \in ProposalType /\ p.category = x.category /\ p.voting_ends_at = x.voting_ends_at
      /\ p.state = x.state /\ p.executed = TRUE /\ p.votes_for = x.votes_for
      /\ p.votes_against = x.votes_against /\ p.stake_deposit = x.stake_deposit
      /\ p.deposit_settled = x.deposit_settled /\ p.quorum_snapshot = x.quorum_snapshot
      /\ p.threshold_snapshot = x.threshold_snapshot
  BY <1>1, ZenonT(60) DEF ProposalType, Spent
<1>3. p # None
  BY <1>2, GovernanceAssumption
<1> HIDE DEF p
<1>4. Carries(x, p)
  BY <1>2, <1>3 DEF Carries
<1>5. CountOf(p, voteRecord[i])
  BY <1>1, <1>2, <1>3, ZenonT(60) DEF CountOf, Accepted, QuorumMet
<1>6. Rewrites(i, p)
  BY DEF p
<1> QED BY <1>2, <1>4, <1>5, <1>6, MarkingStep DEF p

\* An accepted proposal is spent as an authorization.
LEMMA AuthorizeKeeps ==
  ASSUME GovInv, NEW i \in Ids, NEW category, Authorize(i, category)
  PROVE  GovInv' /\ AuthorizationsSpentOnce
<1>1. /\ proposal[i] # None /\ proposal[i].state = "Accepted" /\ ban' = ban
      /\ Rewrites(i, Spent(proposal[i]))
  BY DEF Authorize, Rewrites
<1>2. /\ GovTypes' /\ Counts' /\ DepositsBacked'
      /\ \A j \in Ids : proposal[j] # None =>
           Carries(proposal[j], proposal'[j]) /\ actionOf'[j] = actionOf[j]
  BY <1>1, SpendingStep
<1> QED BY <1>1, <1>2, QuietStep

\* What list_wallet and delist_wallet share: they spend one proposal that was not spent.
LEMMA ExecutionSpends ==
  ASSUME GovInv, NEW i \in Ids, RequireExecutable(i), Rewrites(i, Spent(proposal[i]))
  PROVE  /\ GovTypes' /\ Counts' /\ DepositsBacked' /\ AuthorizationsSpentOnce
         /\ proposal'[i] = Spent(proposal[i]) /\ Spent(proposal[i]).executed
         /\ \A j \in Ids : proposal[j] # None =>
              Carries(proposal[j], proposal'[j]) /\ actionOf'[j] = actionOf[j]
<1>1. proposal[i] # None /\ proposal[i].state = "Accepted" /\ ~proposal[i].executed
  BY DEF RequireExecutable
<1>2. /\ GovTypes' /\ Counts' /\ DepositsBacked'
      /\ proposal'[i] = Spent(proposal[i])
      /\ \A j \in Ids \ {i} : proposal'[j] = proposal[j]
      /\ \A j \in Ids : proposal[j] # None =>
           Carries(proposal[j], proposal'[j]) /\ actionOf'[j] = actionOf[j]
  BY <1>1, SpendingStep
<1>3. proposal[i] \in ProposalType
  BY <1>1, ProposalFields
<1>4. Spent(proposal[i]).executed = TRUE
  BY <1>3 DEF Spent, ProposalType
<1>5. AuthorizationsSpentOnce
  <2>1. \A j \in Ids : proposal[j] # None => (proposal[j].executed => proposal'[j].executed)
    BY <1>2 DEF Carries
  <2>2. proposal'[i].executed
    BY <1>2, <1>4
  <2> QED BY <1>1, <1>2, <2>1, <2>2 DEF AuthorizationsSpentOnce
<1> QED BY <1>2, <1>4, <1>5

\* A listing is at least one second later than the end of the vote it executes.
LEMMA ListKeeps ==
  ASSUME GovInv, NEW i \in Ids, NEW w \in GovWallets, ListWallet(i, w)
  PROVE  GovInv' /\ AuthorizationsSpentOnce
<1>1. RequireExecutable(i) /\ Rewrites(i, Spent(proposal[i]))
  BY DEF ListWallet, Rewrites
<1>2. /\ GovTypes' /\ Counts' /\ DepositsBacked' /\ AuthorizationsSpentOnce
      /\ proposal'[i] = Spent(proposal[i]) /\ Spent(proposal[i]).executed
      /\ \A j \in Ids : proposal[j] # None =>
           Carries(proposal[j], proposal'[j]) /\ actionOf'[j] = actionOf[j]
  BY <1>1, ExecutionSpends
<1>3. /\ proposal[i] # None /\ proposal[i].state = "Accepted" /\ gconfig # None
      /\ clock >= proposal[i].voting_ends_at + gconfig.vote_lock_secs
  BY <1>1 DEF RequireExecutable
<1>4. proposal[i].voting_ends_at \in Nat /\ clock \in Nat
  BY <1>3, ProposalFields DEF GovInv, GovTypes
<1>5. gconfig.vote_lock_secs \in Int /\ gconfig.vote_lock_secs > 0
  BY <1>3 DEF GovInv, GovTypes, GovParamsType, ValidVoteLock
<1>6. clock > proposal[i].voting_ends_at
  BY <1>3, <1>4, <1>5
<1> DEFINE n == NewBan(i)
<1>7. n \in BanType /\ n.listed_at = clock /\ n.authorizing_proposal = i
  BY <1>4 DEF NewBan, BanType
<1> HIDE DEF n
<1>8. ban' = [ban EXCEPT ![w] = n] /\ ban \in [GovWallets -> BanType \cup {None}]
  BY DEF ListWallet, GovInv, Bans, n
<1>9. BanOf(n, w, proposal'[i], actionOf'[i])
  <2>1. Carries(proposal[i], proposal'[i]) /\ actionOf'[i] = actionOf[i]
    BY <1>2, <1>3
  <2>2. proposal[i].category = "Standards" /\ actionOf[i] = Listing(w)
    BY DEF ListWallet
  <2>3. proposal'[i].executed
    BY <1>2
  <2> QED BY <1>3, <1>6, <1>7, <2>1, <2>2, <2>3 DEF BanOf, Carries
<1>10. \A u \in GovWallets : u # w /\ ban[u] # None =>
         /\ ban[u].authorizing_proposal \in Ids
         /\ BanOf(ban[u], u, proposal'[ban[u].authorizing_proposal],
                  actionOf'[ban[u].authorizing_proposal])
  <2> SUFFICES ASSUME NEW u \in GovWallets, ban[u] # None
               PROVE  /\ ban[u].authorizing_proposal \in Ids
                      /\ BanOf(ban[u], u, proposal'[ban[u].authorizing_proposal],
                               actionOf'[ban[u].authorizing_proposal])
    BY ZenonT(60)
  <2> DEFINE j == ban[u].authorizing_proposal
  <2>1. j \in Ids
    BY <1>8 DEF BanType
  <2>2. BanOf(ban[u], u, proposal[j], actionOf[j])
    BY DEF GovInv, Bans
  <2>3. Carries(proposal[j], proposal'[j]) /\ actionOf'[j] = actionOf[j]
    BY <1>2, <2>1, <2>2 DEF BanOf
  <2> QED BY <2>1, <2>2, <2>3 DEF BanOf, Carries
<1>11. Bans'
  <2>1. ban' \in [GovWallets -> BanType \cup {None}]
    BY <1>7, <1>8
  <2> SUFFICES ASSUME NEW u \in GovWallets, ban'[u] # None
               PROVE  BanOf(ban'[u], u, proposal'[ban'[u].authorizing_proposal],
                            actionOf'[ban'[u].authorizing_proposal])
    BY <2>1 DEF Bans, BanOf, Listing
  <2>2. CASE u = w
    BY <1>7, <1>8, <1>9, <2>2
  <2>3. CASE u # w
    BY <1>8, <1>10, <2>3
  <2> QED BY <2>2, <2>3
<1> QED BY <1>2, <1>11 DEF GovInv

\* A wallet is delisted under an accepted proposal.
LEMMA DelistKeeps ==
  ASSUME GovInv, NEW i \in Ids, NEW w \in GovWallets, DelistWallet(i, w)
  PROVE  GovInv' /\ AuthorizationsSpentOnce
<1>1. RequireExecutable(i) /\ Rewrites(i, Spent(proposal[i]))
  BY DEF DelistWallet, Rewrites
<1>2. /\ GovTypes' /\ Counts' /\ DepositsBacked' /\ AuthorizationsSpentOnce
      /\ \A j \in Ids : proposal[j] # None =>
           Carries(proposal[j], proposal'[j]) /\ actionOf'[j] = actionOf[j]
  BY <1>1, ExecutionSpends
<1>3. ban' = [ban EXCEPT ![w] = None] /\ ban \in [GovWallets -> BanType \cup {None}]
  BY DEF DelistWallet, GovInv, Bans
<1>4. ban' \in [GovWallets -> BanType \cup {None}]
  BY <1>3
<1>5. ASSUME NEW u \in GovWallets, ban'[u] # None
      PROVE  BanOf(ban'[u], u, proposal'[ban'[u].authorizing_proposal],
                   actionOf'[ban'[u].authorizing_proposal])
  <2>1. ban'[u] = ban[u] /\ ban[u] # None
    BY <1>3, <1>5
  <2> DEFINE j == ban[u].authorizing_proposal
  <2>2. j \in Ids
    BY <1>3, <2>1 DEF BanType
  <2>3. BanOf(ban[u], u, proposal[j], actionOf[j])
    BY <2>1 DEF GovInv, Bans
  <2>4. Carries(proposal[j], proposal'[j]) /\ actionOf'[j] = actionOf[j]
    BY <1>2, <2>2, <2>3 DEF BanOf
  <2> QED BY <2>1, <2>3, <2>4, ZenonT(60) DEF BanOf, Carries
<1>6. Bans'
  BY <1>4, <1>5 DEF Bans, BanOf, Listing
<1> QED BY <1>2, <1>6 DEF GovInv

-----------------------------------------------------------------------------
(* Votes and deposits                                                      *)

\* One record per wallet: the vote that is counted is the vote that is recorded.
LEMMA VoteKeeps ==
  ASSUME GovInv, NEW w \in GovWallets, NEW i \in Ids, NEW inFavor \in BOOLEAN, NEW weight \in Nat,
         CastVote(w, i, inFavor, weight)
  PROVE  GovInv' /\ AuthorizationsSpentOnce
<1> DEFINE x == proposal[i]
           p == Counted(x, inFavor, weight)
           v == NewVoteRecord(inFavor, weight)
           R == Replaced(voteRecord[i], w, v)
<1>1. /\ x # None /\ x.state = "Voting" /\ gconfig # None /\ voteRecord[i][w] = None
      /\ ban' = ban /\ actionOf' = actionOf /\ UNCHANGED settingVars /\ UNCHANGED clock
      /\ UNCHANGED tokenVars
      /\ proposal' = Replaced(proposal, i, p)
  BY DEF CastVote, NotYetVoted, Replaced
<1>2. /\ x \in ProposalType /\ CountOf(x, voteRecord[i]) /\ x.votes_for \in Nat
      /\ x.votes_against \in Nat
  BY <1>1, ProposalFields, ZenonT(60)
<1>3. v \in VoteType /\ v.weight = weight /\ v.in_favor = inFavor
  <2>1. clock \in Nat /\ gconfig.vote_lock_secs \in Int /\ gconfig.vote_lock_secs > 0
    BY <1>1 DEF GovInv, GovTypes, GovParamsType, ValidVoteLock
  <2>2. clock + gconfig.vote_lock_secs \in Nat
    BY <2>1
  <2> QED BY <2>2 DEF NewVoteRecord, VoteType
<1>4. voteRecord \in [Ids -> [GovWallets -> VoteType \cup {None}]]
  BY DEF GovInv, GovTypes
<1>5. voteRecord' = Replaced(voteRecord, i, R)
  BY <1>4 DEF CastVote, Replaced
<1>6. v # None
  BY <1>3, GovernanceAssumption
<1>7. /\ p \in ProposalType /\ p.category = x.category /\ p.voting_ends_at = x.voting_ends_at
      /\ p.state = x.state /\ p.executed = x.executed
      /\ p.votes_for = x.votes_for + (IF inFavor THEN weight ELSE 0)
      /\ p.votes_against = x.votes_against + (IF inFavor THEN 0 ELSE weight)
      /\ p.stake_deposit = x.stake_deposit /\ p.deposit_settled = x.deposit_settled
  <2>1. CASE inFavor
    BY <1>2, <2>1 DEF Counted, ProposalType
  <2>2. CASE ~inFavor
    BY <1>2, <2>2 DEF Counted, ProposalType
  <2> QED BY <2>1, <2>2, ZenonT(60)
<1>8. p # None
  BY <1>7, GovernanceAssumption, ZenonT(60)
<1> HIDE DEF p, v
<1>9. /\ R \in [GovWallets -> VoteType \cup {None}]
      /\ VotesCast(R, TRUE) = VotesCast(voteRecord[i], TRUE)
           + (WeightOf(v, TRUE) - WeightOf(voteRecord[i][w], TRUE))
      /\ VotesCast(R, FALSE) = VotesCast(voteRecord[i], FALSE)
           + (WeightOf(v, FALSE) - WeightOf(voteRecord[i][w], FALSE))
  <2> DEFINE Q == voteRecord[i]
  <2>1. Q \in [GovWallets -> VoteType \cup {None}] /\ v \in VoteType \cup {None}
        /\ R = Replaced(Q, w, v)
    BY <1>3, <1>4
  <2> HIDE DEF Q, R
  <2>2. /\ R \in [GovWallets -> VoteType \cup {None}]
        /\ \A s : VotesCast(R, s) = VotesCast(Q, s) + (WeightOf(v, s) - WeightOf(Q[w], s))
    BY <2>1, OneVote
  <2> QED BY <2>2, ZenonT(60) DEF Q
<1> HIDE DEF R
<1>10. /\ WeightOf(voteRecord[i][w], TRUE) = 0 /\ WeightOf(voteRecord[i][w], FALSE) = 0
       /\ WeightOf(v, TRUE) = (IF inFavor THEN weight ELSE 0)
       /\ WeightOf(v, FALSE) = (IF inFavor THEN 0 ELSE weight)
  BY <1>1, <1>3, <1>6 DEF WeightOf
<1>11. x.votes_for = VotesCast(voteRecord[i], TRUE)
       /\ x.votes_against = VotesCast(voteRecord[i], FALSE) /\ ~x.executed
  BY <1>1, <1>2, ZenonT(60) DEF CountOf
<1>12. p.votes_for = VotesCast(R, TRUE) /\ p.votes_against = VotesCast(R, FALSE)
  <2> DEFINE y == IF inFavor THEN weight ELSE 0
             n == IF inFavor THEN 0 ELSE weight
  <2>1. y \in Nat /\ n \in Nat
    OBVIOUS
  <2>2. p.votes_for = x.votes_for + y /\ p.votes_against = x.votes_against + n
    BY <1>7, ZenonT(60)
  <2>3. WeightOf(v, TRUE) = y /\ WeightOf(v, FALSE) = n
    BY <1>10, ZenonT(60)
  <2> HIDE DEF y, n
  <2>4. /\ VotesCast(R, TRUE) = x.votes_for + (y - 0)
        /\ VotesCast(R, FALSE) = x.votes_against + (n - 0)
    BY <1>9, <1>10, <1>11, <2>3, ZenonT(60)
  <2>5. y - 0 = y /\ n - 0 = n
    BY <2>1
  <2> QED BY <2>2, <2>4, <2>5, ZenonT(60)
<1>13. CountOf(p, R)
  BY <1>1, <1>7, <1>8, <1>11, <1>12, ZenonT(60) DEF CountOf
<1>14. Becomes(i, p, R)
  BY <1>1, <1>5, <1>7, <1>8 DEF Becomes, Carries
<1>15. Paid(i, p)
  <2>1. DepositOf(p) = DepositOf(x) /\ DepositOf(x) \in Int
    BY <1>1, <1>2, <1>7, <1>8 DEF DepositOf, ProposalType
  <2>2. depositVault = depositVault + (DepositOf(p) - DepositOf(x))
    BY <2>1 DEF GovInv, GovTypes
  <2> QED BY <1>1, <2>2 DEF Paid, GovInv, GovTypes, tokenVars
<1>16. actionOf' \in [Ids -> ActionType]
  BY <1>1 DEF GovInv, GovTypes
<1>17. GovTypes' /\ Counts' /\ DepositsBacked'
  BY <1>1, <1>7, <1>9, <1>13, <1>14, <1>15, <1>16, OneProposal, ZenonT(60)
<1>18. \A j \in Ids : proposal[j] # None => Carries(proposal[j], proposal'[j])
  BY <1>7, <1>14, OthersCarry, ZenonT(60)
<1> QED BY <1>1, <1>17, <1>18, QuietStep, ZenonT(60)

\* A new proposal starts with no votes, and its deposit goes into the vault.
LEMMA CreateKeeps ==
  ASSUME GovInv, NEW w \in GovWallets, NEW i \in Ids, NEW draft \in DraftType,
         CreateProposal(w, i, draft)
  PROVE  GovInv' /\ AuthorizationsSpentOnce
<1> DEFINE p == NewProposal(w, draft)
           R == voteRecord[i]
           d == gconfig.deposit_amount
<1>1. /\ gconfig # None /\ proposal[i] = None /\ purse[w] >= d
      /\ proposal' = Replaced(proposal, i, p)
      /\ purse' = Replaced(purse, w, purse[w] - d) /\ depositVault' = depositVault + d
      /\ actionOf' = Replaced(actionOf, i, draft.action)
      /\ UNCHANGED settingVars /\ voteRecord' = voteRecord /\ ban' = ban /\ forfeited' = forfeited
      /\ UNCHANGED clock
  BY ZenonT(60) DEF CreateProposal, Replaced
<1>2. gconfig \in GovParamsType
  BY <1>1, ZenonT(60) DEF GovInv, GovTypes
<1>3. /\ d \in Nat /\ gconfig.total_open_supply \in Nat
      /\ QuorumBpsFor(draft.category) \in Nat /\ ThresholdBpsFor(draft.category) \in Nat
  BY <1>2 DEF GovParamsType, QuorumBpsFor, ThresholdBpsFor
<1>4. (gconfig.total_open_supply * QuorumBpsFor(draft.category)) \div GOVERNANCE_BPS \in Nat
  <2> DEFINE m == gconfig.total_open_supply * QuorumBpsFor(draft.category)
  <2>1. m \in Nat
    BY <1>3, NatProducts
  <2> HIDE DEF m
  <2>2. m \div 10000 \in Nat
    BY <2>1
  <2> QED BY <2>2 DEF m, GOVERNANCE_BPS
<1>5. /\ p \in ProposalType /\ p.votes_for = 0 /\ p.votes_against = 0 /\ p.state = "Voting"
      /\ p.executed = FALSE /\ p.deposit_settled = FALSE /\ p.stake_deposit = d
  <2>1. draft.category \in ProposalCategories /\ draft.period \in Nat /\ clock \in Nat
    BY DEF DraftType, GovInv, GovTypes
  <2>2. clock + draft.period \in Nat
    BY <2>1
  <2> QED BY <1>3, <1>4, <2>1, <2>2, ZenonT(60) DEF NewProposal, ProposalType
<1>6. p # None
  BY <1>5, GovernanceAssumption
<1> HIDE DEF p
<1>7. R \in [GovWallets -> VoteType \cup {None}] /\ voteRecord = Replaced(voteRecord, i, R)
  BY DEF GovInv, GovTypes, Replaced
<1>8. VotesCast(R, TRUE) = 0 /\ VotesCast(R, FALSE) = 0
  BY <1>1, ZenonT(60) DEF GovInv, Counts, CountOf
<1> HIDE DEF R
<1>9. CountOf(p, R)
  BY <1>5, <1>6, <1>8, ZenonT(60) DEF CountOf
<1>10. Becomes(i, p, R)
  BY <1>1, <1>7 DEF Becomes
<1>11. purse \in [GovWallets -> Nat] /\ depositVault \in Nat /\ forfeited \in Nat
  BY DEF GovInv, GovTypes
<1>12. purse[w] \in Nat /\ purse[w] - d \in Nat
  BY <1>1, <1>3, <1>11
<1>13. /\ purse' \in [GovWallets -> Nat]
       /\ SumFunction(purse') = SumFunction(purse) + ((purse[w] - d) - purse[w])
  <2> DEFINE f == purse
             g == purse'
             n == purse[w] - d
  <2>1. f \in [GovWallets -> Nat] /\ n \in Nat /\ g = Replaced(f, w, n)
    BY <1>1, <1>11, <1>12
  <2> HIDE DEF f, g, n
  <2>2. g \in [GovWallets -> Nat] /\ SumFunction(g) = SumFunction(f) + (n - f[w])
    BY <2>1, OnePurse
  <2> QED BY <2>2 DEF f, g, n
<1>14. SumFunction(purse) \in Int
  BY <1>11, SumFunctionType, GovernanceAssumption
<1>15. Paid(i, p)
  <2>1. DepositOf(p) = d /\ DepositOf(proposal[i]) = 0
    BY <1>1, <1>5, <1>6 DEF DepositOf
  <2> HIDE DEF d
  <2>2. /\ depositVault' \in Nat /\ depositVault' = depositVault + (d - 0)
        /\ depositVault' + forfeited' + SumFunction(purse')
             = depositVault + forfeited + SumFunction(purse)
    BY <1>1, <1>3, <1>11, <1>12, <1>13, <1>14
  <2> QED BY <1>1, <1>11, <1>13, <2>1, <2>2 DEF Paid
<1>16. actionOf' \in [Ids -> ActionType] /\ \A j \in Ids : proposal[j] # None => actionOf'[j] = actionOf[j]
  <2>1. draft.action \in ActionType
    BY DEF DraftType
  <2> QED BY <1>1, <2>1 DEF GovInv, GovTypes, Replaced
<1>17. GovTypes' /\ Counts' /\ DepositsBacked'
  BY <1>1, <1>5, <1>7, <1>9, <1>10, <1>15, <1>16, OneProposal
<1>18. \A j \in Ids : proposal[j] # None => Carries(proposal[j], proposal'[j])
  BY <1>5, <1>10, OthersCarry, ZenonT(60)
<1> QED BY <1>1, <1>16, <1>17, <1>18, QuietStep, ZenonT(60)

\* A settled deposit goes back to its proposer or to the forfeit destination, once.
LEMMA RefundKeeps ==
  ASSUME GovInv, NEW i \in Ids, RefundOrForfeitDeposit(i)
  PROVE  GovInv' /\ AuthorizationsSpentOnce
<1> DEFINE x == proposal[i]
           p == [x EXCEPT !.deposit_settled = TRUE]
           R == voteRecord[i]
           d == x.stake_deposit
           w == x.proposer
<1>1. /\ x # None /\ ~x.deposit_settled /\ depositVault >= d /\ depositVault' = depositVault - d
      /\ proposal' = Replaced(proposal, i, p)
      /\ UNCHANGED settingVars /\ actionOf' = actionOf /\ voteRecord' = voteRecord /\ ban' = ban
      /\ UNCHANGED clock
  BY DEF RefundOrForfeitDeposit, Unsettled, Settled, Replaced
<1>2. x \in ProposalType /\ CountOf(x, R) /\ d \in Nat /\ w \in GovWallets
  BY <1>1, ProposalFields
<1>3. /\ p \in ProposalType /\ p.category = x.category /\ p.voting_ends_at = x.voting_ends_at
      /\ p.state = x.state /\ p.executed = x.executed /\ p.votes_for = x.votes_for
      /\ p.votes_against = x.votes_against /\ p.deposit_settled = TRUE
      /\ p.quorum_snapshot = x.quorum_snapshot /\ p.threshold_snapshot = x.threshold_snapshot
  BY <1>2, ZenonT(60) DEF ProposalType
<1>4. p # None
  BY <1>3, GovernanceAssumption, ZenonT(60)
<1> HIDE DEF p
<1>5. CountOf(p, R)
  BY <1>1, <1>2, <1>3, <1>4, ZenonT(60) DEF CountOf, Accepted, QuorumMet
<1>6. R \in [GovWallets -> VoteType \cup {None}] /\ voteRecord = Replaced(voteRecord, i, R)
  BY DEF GovInv, GovTypes, Replaced
<1> HIDE DEF R
<1>7. Becomes(i, p, R)
  BY <1>1, <1>3, <1>4, <1>6 DEF Becomes, Carries
<1>8. purse \in [GovWallets -> Nat] /\ depositVault \in Nat /\ forfeited \in Nat
  BY DEF GovInv, GovTypes
<1>9. SumFunction(purse) \in Int
  BY <1>8, SumFunctionType, GovernanceAssumption
<1>10. /\ purse' \in [GovWallets -> Nat] /\ forfeited' \in Nat /\ SumFunction(purse') \in Int
       /\ forfeited' + SumFunction(purse') = forfeited + SumFunction(purse) + d
  <2>1. CASE x.quorum_met
    <3>1. purse' = Replaced(purse, w, purse[w] + d) /\ forfeited' = forfeited
      BY <2>1 DEF RefundOrForfeitDeposit, Replaced
    <3>2. purse[w] \in Nat /\ purse[w] + d \in Nat
      BY <1>2, <1>8
    <3> DEFINE f == purse
               g == purse'
               n == purse[w] + d
    <3>3. f \in [GovWallets -> Nat] /\ n \in Nat /\ g = Replaced(f, w, n)
      BY <1>8, <3>1, <3>2
    <3> HIDE DEF f, g, n, w
    <3>4. g \in [GovWallets -> Nat] /\ SumFunction(g) = SumFunction(f) + (n - f[w])
      BY <1>2, <3>3, OnePurse
    <3>5. SumFunction(purse') = SumFunction(purse) + ((purse[w] + d) - purse[w])
      BY <3>4 DEF f, g, n
    <3>6. purse' \in [GovWallets -> Nat]
      BY <3>4 DEF g
    <3> QED BY <1>2, <1>8, <1>9, <3>1, <3>2, <3>5, <3>6
  <2>2. CASE ~x.quorum_met
    <3>1. purse' = purse /\ forfeited' = forfeited + d
      BY <2>2 DEF RefundOrForfeitDeposit
    <3> QED BY <1>2, <1>8, <1>9, <3>1
  <2> QED BY <2>1, <2>2
<1>11. Paid(i, p)
  <2>1. DepositOf(p) = 0 /\ DepositOf(proposal[i]) = d
    BY <1>1, <1>3, <1>4 DEF DepositOf
  <2> HIDE DEF d
  <2>2. depositVault' \in Nat /\ depositVault' = depositVault + (0 - d)
    BY <1>1, <1>2, <1>8
  <2>3. depositVault' + forfeited' + SumFunction(purse')
          = depositVault + forfeited + SumFunction(purse)
    BY <1>1, <1>2, <1>8, <1>9, <1>10
  <2> QED BY <1>10, <2>1, <2>2, <2>3 DEF Paid
<1>12. actionOf' \in [Ids -> ActionType]
  BY <1>1 DEF GovInv, GovTypes
<1>13. GovTypes' /\ Counts' /\ DepositsBacked'
  BY <1>1, <1>3, <1>5, <1>6, <1>7, <1>11, <1>12, OneProposal
<1>14. \A j \in Ids : proposal[j] # None => Carries(proposal[j], proposal'[j])
  BY <1>3, <1>7, OthersCarry
<1> QED BY <1>1, <1>13, <1>14, QuietStep, ZenonT(60)

-----------------------------------------------------------------------------
(* The theorems                                                            *)

\* The admin's instructions and the clock write no proposal.
LEMMA SettingKeeps ==
  ASSUME GovInv, GovTypes',
         UNCHANGED <<proposal, actionOf, voteRecord, ban, depositVault, purse, forfeited>>
  PROVE  GovInv' /\ AuthorizationsSpentOnce
<1>1. Counts'
  BY DEF GovInv, Counts, CountOf, Accepted, QuorumMet, VotesCast, WeightOf
<1>2. DepositsBacked'
  BY DEF GovInv, DepositsBacked, DepositOf
<1>3. Bans'
  BY DEF GovInv, Bans, BanOf, Listing
<1>4. AuthorizationsSpentOnce
  BY DEF AuthorizationsSpentOnce
<1> QED BY <1>1, <1>2, <1>3, <1>4 DEF GovInv

\* Every instruction keeps the invariant, and spends what it acts on.
LEMMA GovernanceStep ==
  GovInv /\ [GovernanceNext]_govVars => GovInv' /\ [AuthorizationsSpentOnce]_govVars
<1> SUFFICES ASSUME GovInv, [GovernanceNext]_govVars
             PROVE  GovInv' /\ AuthorizationsSpentOnce
  OBVIOUS
<1>0. SceneOK(act)
  BY GovernanceAssumption DEF GovInv, GovTypes
<1>1. CASE UNCHANGED govVars
  <2>1. GovTypes'
    BY <1>1 DEF govVars, GovInv, GovTypes
  <2> QED BY <1>1, <2>1, SettingKeeps DEF govVars
<1>2. CASE GovernanceTick
  <2>1. GovTypes'
    BY <1>2 DEF GovernanceTick, GovInv, GovTypes, settingVars, tokenVars
  <2> QED BY <1>2, <2>1, SettingKeeps DEF GovernanceTick, tokenVars
<1>3. CASE InitializeEmergencyAuthority
  <2>1. GovTypes'
    BY <1>3 DEF InitializeEmergencyAuthority, GovInv, GovTypes, tokenVars
  <2> QED BY <1>3, <2>1, SettingKeeps DEF InitializeEmergencyAuthority, tokenVars
<1>4. ASSUME NEW p \in act.params, InitializeGovernanceConfig(p) \/ UpdateGovernanceConfig(p)
      PROVE  GovInv' /\ AuthorizationsSpentOnce
  <2>1. p \in GovParamsType /\ ValidVoteLock(p.vote_lock_secs) /\ gconfig' = p
    BY <1>0, <1>4 DEF SceneOK, InitializeGovernanceConfig, UpdateGovernanceConfig
  <2>2. GovTypes'
    BY <1>4, <2>1 DEF InitializeGovernanceConfig, UpdateGovernanceConfig, GovInv, GovTypes,
                      tokenVars
  <2> QED BY <1>4, <2>2, SettingKeeps DEF InitializeGovernanceConfig, UpdateGovernanceConfig,
                                          tokenVars
<1>5. ASSUME NEW i \in Ids, NEW w \in act.proposers, NEW draft \in act.drafts[i],
             CreateProposal(w, i, draft)
      PROVE  GovInv' /\ AuthorizationsSpentOnce
  <2>1. w \in GovWallets /\ draft \in DraftType
    BY <1>0 DEF SceneOK
  <2> QED BY <1>5, <2>1, CreateKeeps
<1>6. ASSUME NEW i \in Ids, NEW w, LinkOffchainProposal(w, i)
      PROVE  GovInv' /\ AuthorizationsSpentOnce
  BY <1>6, LinkKeeps
<1>7. ASSUME NEW i \in Ids, NEW w \in GovWallets, NEW inFavor \in BOOLEAN,
             NEW weight \in act.weights[w], CastVote(w, i, inFavor, weight)
      PROVE  GovInv' /\ AuthorizationsSpentOnce
  <2>1. weight \in Nat
    BY <1>0 DEF SceneOK
  <2> QED BY <1>7, <2>1, VoteKeeps
<1>8. ASSUME NEW i \in Ids, TallyAndFinalize(i) PROVE GovInv' /\ AuthorizationsSpentOnce
  BY <1>8, TallyKeeps
<1>9. ASSUME NEW i \in Ids, RefundOrForfeitDeposit(i) PROVE GovInv' /\ AuthorizationsSpentOnce
  BY <1>9, RefundKeeps
<1>10. ASSUME NEW i \in Ids, UpdateConfigParameter(i) \/ AuthorizeTreasurySpend(i)
       PROVE  GovInv' /\ AuthorizationsSpentOnce
  BY <1>10, AuthorizeKeeps DEF UpdateConfigParameter, AuthorizeTreasurySpend
<1>11. ASSUME NEW i \in Ids, Execute(i) PROVE GovInv' /\ AuthorizationsSpentOnce
  BY <1>11, ListKeeps, DelistKeeps DEF Execute
<1> QED BY <1>1, <1>2, <1>3, <1>4, <1>5, <1>6, <1>7, <1>8, <1>9, <1>10, <1>11, ZenonT(60)
        DEF GovernanceNext

\* Whatever the admin makes of the configured amount, the deposit vault holds exactly the
\* deposits not yet settled, and no OPEN appears or vanishes (create_proposal,
\* refund_or_forfeit_deposit).
THEOREM DepositsAlwaysBacked == GovernanceSpec => []DepositsBacked
<1>1. GovInv => DepositsBacked
  BY DEF GovInv
<1> QED BY <1>1, InitGovernance, GovernanceStep, PTL DEF GovernanceSpec

\* Every ban leads back to a Standards proposal that its own vote records carry and whose
\* delay had passed, and every change of the ban list spends one proposal that was not spent
\* (cast_vote, tally_and_finalize, require_executable, list_wallet, delist_wallet).
THEOREM BansAlwaysVoted == GovernanceSpec => BansAreVoted
<1>1. GovernanceSpec => []BansLeadToVotes
  BY InitGovernance, GovernanceStep, InvLeadsToVotes, PTL DEF GovernanceSpec
<1>2. GovernanceSpec => [][AuthorizationsSpentOnce]_govVars
  BY InitGovernance, GovernanceStep, PTL DEF GovernanceSpec
<1> QED BY <1>1, <1>2 DEF BansAreVoted
==============================================================================
