------------------------------ MODULE MCTrading -------------------------------
(***************************************************************************)
(* How a trade is made between nodes, on small instances: the records of   *)
(* one advertisement and its reservations (TradePipeline), what the        *)
(* desks of two nodes show and answer (MCTradeDesk), and the relay of      *)
(* transactions to the chain (MCChainRelay).  `focus` picks one of them    *)
(* for a behavior; the others hold nothing.                                *)
(***************************************************************************)
EXTENDS TradePipeline, TLC

CONSTANTS r1, r2, s1, s2, d1, d2, a1, a2

\* Usable terms, a floor above the ceiling, and another merchant's payment method.
SomeTerms ==
  {[min |-> 1, max |-> 2, methods |-> "selectable"],
   [min |-> 2, max |-> 1, methods |-> "selectable"],
   [min |-> 1, max |-> 2, methods |-> "foreign"]}

\* A second choice of usable terms, so that an edit changes which requests are taken.
ChangingTerms == SomeTerms \cup {[min |-> 2, max |-> 2, methods |-> "selectable"]}


CONSTANTS m, b, x, None

VARIABLES
  focus, ledger,
  desk, heard, now, mids, shown, paging, issuedTo, answers, scene,
  plan, bridge, cache, pending, awaiting, release, verdict, transit, got, todo, tick

deskOnly == <<desk, heard, now, mids, shown, paging, issuedTo, answers, scene>>
relayOnly ==
  <<plan, bridge, cache, pending, awaiting, release, verdict, transit, got, todo, tick>>
tradingVars == <<focus, ledger, deskOnly, relayOnly, pipelineVars>>

Traders == {m, b, x, a1, a2}
UsdcMint == [usdc |-> "USDC"]

Desk == INSTANCE MCTradeDesk WITH
  Nodes <- {"a", "b"}, Wallets <- Traders, Symbols <- UsdcMint, RateScale <- 100,
  AmountLimit <- 1000, MaxPage <- 2, DefaultPage <- 1, ValidationWindow <- 1,
  MaxClockSkew <- 0, RequiredArbitrators <- 2, ChallengeTtl <- 0, MaxOutstanding <- 1,
  SessionLifetime <- 1

RelayNodes == {"a", "b", "c"}
Relay == INSTANCE MCChainRelay WITH Nodes <- RelayNodes, Validity <- 1, MaxTick <- 2

-----------------------------------------------------------------------------
NoDesk ==
  /\ desk = 0 /\ heard = 0 /\ now = 0 /\ mids = 0 /\ shown = 0 /\ paging = 0
  /\ issuedTo = 0 /\ answers = 0 /\ scene = 0

NoRelay ==
  /\ plan = 0 /\ bridge = 0 /\ cache = 0 /\ pending = 0 /\ awaiting = 0 /\ release = 0
  /\ verdict = 0 /\ transit = 0 /\ got = 0 /\ todo = 0 /\ tick = 0

NoPipeline ==
  /\ PipelineInit
  /\ \A s \in Settlements : settlement[s].reservation = r1
  /\ \A d \in Disputes : dispute[d].settlement = s1

TradingInit ==
  \/ focus = "pipeline" /\ PipelineInit /\ NoDesk /\ NoRelay /\ ledger = 0
  \/ focus = "desk" /\ Desk!DeskInit(Desk!Scenes) /\ NoPipeline /\ NoRelay
  \/ focus = "relay" /\ Relay!RelayInit(Relay!Plans) /\ NoPipeline /\ NoDesk

PipelineTurn ==
  focus = "pipeline" /\ PipelineNext /\ UNCHANGED <<focus, ledger, deskOnly, relayOnly>>

DeskTurn ==
  focus = "desk" /\ Desk!DeskNext /\ UNCHANGED <<focus, pipelineVars, relayOnly>>

RelayTurn ==
  focus = "relay" /\ Relay!RelayNext /\ UNCHANGED <<focus, pipelineVars, deskOnly>>

TradingNext == PipelineTurn \/ DeskTurn \/ RelayTurn

Selling == focus = "pipeline"
Showing == focus = "desk"
Relaying == focus = "relay"

relayingVars == <<ledger, relayOnly>>

\* Time passes and the actor's sweep and chain timers fire; gossip is delivered
\* (EventsSpread of MCMesh).
TradingFairness ==
  /\ WF_pipelineVars(Selling /\ ExpireStale)
  /\ \A r \in Reservations : WF_pipelineVars(Selling /\ WindowPasses(r))
  /\ WF_relayingVars(Relaying /\ Relay!Deliver)
  /\ \A n \in RelayNodes : WF_relayingVars(Relaying /\ Relay!Poll(n))

TradingSpec == TradingInit /\ [][TradingNext]_tradingVars /\ TradingFairness

\* The records of one trade alone.
SellingSpec == Selling /\ TradingInit /\ [][TradingNext]_tradingVars

-----------------------------------------------------------------------------
(* Properties.                                                             *)

\* A lock nobody uses is given up, whatever became of the advertisement
\* (expire_stale).
LocksAreGivenUp ==
  \A r \in Reservations : []<>(Selling => reservation[r].state # "EscrowLocked")

\* "Recomputed through the same path `quote` uses, so the check and the
\* display can never disagree": a price some node showed for the terms of an
\* advertisement is accepted by every node that holds those terms, however
\* the rate has moved since (agrees_with).
ShownPriceBinds == Showing => Desk!ShownPriceBinds

\* A client that pages to the end of the book is shown every advertisement
\* that matched all along, and none twice, whatever is published, changed or
\* deleted between two pages (the order book's page).
PagesMissNothing == Showing => Desk!PagesMissNothing

\* A read that names a wallet was answered to a party of what it names, who
\* signed a nonce handed to that wallet, or to its service, for that surface,
\* before it lapsed and for this answer alone; what anyone may read names
\* nobody (the challenge ledger's consume, the public views).
AnswersAreProven == Showing => Desk!AnswersAreProven

\* What a node has on record about a trade was signed: its parties and the
\* seller's key by the buyer who started it, a payment by the same buyer, an
\* answer by that key (whose it is, nothing checks), a vote by the arbitrator
\* who had committed to it, an outcome by the chain; and a case the chain has
\* ruled on is closed by that ruling (the decoder skips everything that lies
\* before the outcome: "decode the wrong bytes on any case").
RecordsAreSigned ==
  /\ [](Showing => Desk!RecordsAreSigned)
  /\ [][Showing => Desk!RulingsClose]_tradingVars

\* The views a wallet is judged by are readings of one history and agree: its
\* counterparties' buckets and its trades with itself add up to its profile
\* (counterparty_of leaves those out), both sides of a pair see the same, no
\* completed trade is missing from the volume; and a node that sees a release
\* on chain changes no count ("Counting `Completed` alone would make the answer
\* depend on which node you happened to ask").
ViewsAgree ==
  /\ [](Showing => Desk!ViewsAgree)
  /\ [][Showing => Desk!CountsIgnoreObservation]_tradingVars

\* A node tells its users that escrow was released, or a dispute decided, only
\* when the transaction landed and as the case account has it; suppressing a
\* blockhash by content never keeps it from anyone; and a transaction that
\* reached an rpc-connected node, from a client or by relay, is offered to its
\* endpoint (poll_chain, ChainBridge::install, drain_pending_relay).
BridgeDelivers ==
  /\ [](Relaying => Relay!RecordsOnlyWhatLanded)
  /\ <>[](Relaying => Relay!BridgeIsClear)
===============================================================================
