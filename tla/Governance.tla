------------------------------ MODULE Governance ------------------------------
(***************************************************************************)
(* The on-chain governance program: proposals with a deposit, stake-       *)
(* weighted votes, the tally, and what an accepted proposal may then do    *)
(* once, after a delay: list or delist a wallet, or record an             *)
(* authorization.  The admin may rewrite the configuration, and the delay  *)
(* with it while the first-year exception lasts.                           *)
(*                                                                         *)
(* One action is one instruction; a failed constraint, `require!` or token *)
(* transfer leaves everything unchanged and is a guard.                    *)
(***************************************************************************)
EXTENDS Integers, FiniteSets, Functions

CONSTANTS
  GovWallets,      \* wallets that propose, vote and may be listed
  Ids,             \* proposal ids
  GovernanceScenes,\* who does what in an instance: see `act` below
  Holdings,        \* OPEN each wallet holds at the start
  LastCreation,    \* bound on when a proposal is created
  HorizonTime,     \* bound on the clock
  MIN_VOTING_PERIOD_SECS,
  MAX_VOTE_LOCK_SECS,
  FIRST_YEAR_SECS,
  None

GOVERNANCE_BPS == 10000

\* Mutant: the delay has no upper bound.
ValidVoteLockUnbounded(secs) == secs > 0

ValidVoteLock(secs) == secs > 0 /\ secs <= MAX_VOTE_LOCK_SECS

GovParamsType ==
  [total_open_supply : Nat, quorum_bps : Nat, quorum_upgrade_bps : Nat,
   threshold_simple_bps : Nat, threshold_treasury_bps : Nat, threshold_upgrade_bps : Nat,
   deposit_amount : Nat, vote_lock_secs : Int]
ProposalCategories ==
  {"Standards", "Parameter", "Treasury", "ProtocolUpgrade", "Constitutional"}
ActionType ==
  [kind : {"None", "ListWallet", "DelistWallet"}, wallet : GovWallets \cup {None}]
DraftType == [category : ProposalCategories, action : ActionType, period : Nat]
ProposalType ==
  [category : ProposalCategories, proposer : GovWallets, stake_deposit : Nat,
   votes_for : Nat, votes_against : Nat, quorum_snapshot : Nat, threshold_snapshot : Nat,
   voting_ends_at : Nat, state : {"Voting", "Accepted", "Rejected"}, quorum_met : BOOLEAN,
   deposit_settled : BOOLEAN, executed : BOOLEAN, offchain_link : BOOLEAN]
VoteType == [weight : Nat, in_favor : BOOLEAN, locked_until : Nat]
BanType == [listed_at : Nat, authorizing_proposal : Ids]

\* A configuration already stored passed the checks of initialize_governance_config.
SceneOK(a) ==
  /\ a.stored # None => a.stored \in GovParamsType /\ ValidVoteLock(a.stored.vote_lock_secs)
  /\ a.params \subseteq GovParamsType
  /\ a.proposers \subseteq GovWallets /\ a.linkers \subseteq GovWallets
  /\ \A i \in Ids : a.drafts[i] \subseteq DraftType
  /\ \A w \in GovWallets : a.weights[w] \subseteq Nat

ASSUME GovernanceAssumption ==
  /\ IsFiniteSet(GovWallets) /\ IsFiniteSet(Ids)
  /\ Holdings \in Nat
  /\ None \notin GovParamsType \cup ProposalType \cup VoteType \cup BanType \cup GovWallets
  /\ \A a \in GovernanceScenes : SceneOK(a)

VARIABLES
  act,          \* rigid: the drafts of each id, the proposers, the parameters an admin
                \* may pass, the configuration stored before the exception existed, the
                \* effective stakes a wallet may hold when it votes, who links proposals
  gconfig,      \* the GovernanceConfig singleton, or None
  authority,    \* EmergencyAuthority.expires_at, or None before it is created
  proposal,     \* Proposal account per id, or None
  actionOf,     \* ProposalAction account per id
  voteRecord,   \* VoteRecord account per id and voter, or None
  ban,          \* BanRecord account per wallet, or None
  depositVault, \* balance of the deposit token account
  purse,        \* OPEN per wallet
  forfeited,    \* OPEN received by the forfeit destination
  clock         \* unix_timestamp

govVars == <<act, gconfig, authority, proposal, actionOf, voteRecord, ban, depositVault,
             purse, forfeited, clock>>
settingVars == <<act, gconfig, authority>>
tokenVars == <<depositVault, purse, forfeited>>

NoAction == [kind |-> "None", wallet |-> None]
Listing(w) == [kind |-> "ListWallet", wallet |-> w]
Delisting(w) == [kind |-> "DelistWallet", wallet |-> w]

GovernanceInit ==
  /\ act \in GovernanceScenes
  /\ gconfig = act.stored
  /\ authority = None
  /\ proposal = [i \in Ids |-> None]
  /\ actionOf = [i \in Ids |-> NoAction]
  /\ voteRecord = [i \in Ids |-> [w \in GovWallets |-> None]]
  /\ ban = [w \in GovWallets |-> None]
  /\ depositVault = 0
  /\ purse = [w \in GovWallets |-> Holdings]
  /\ forfeited = 0
  /\ clock = 0

Upgrading(category) == category \in {"ProtocolUpgrade", "Constitutional"}

QuorumBpsFor(category) ==
  IF Upgrading(category) THEN gconfig.quorum_upgrade_bps ELSE gconfig.quorum_bps

ThresholdBpsFor(category) ==
  CASE category = "Treasury" -> gconfig.threshold_treasury_bps
    [] Upgrading(category) -> gconfig.threshold_upgrade_bps
    [] OTHER -> gconfig.threshold_simple_bps

ValidParams(p) ==
  \A bps \in {p.quorum_bps, p.quorum_upgrade_bps, p.threshold_simple_bps,
              p.threshold_treasury_bps, p.threshold_upgrade_bps} : bps <= GOVERNANCE_BPS

\* Half-open: the power is already gone at the instant of expiry.
EmergencyPowersAvailable == clock < authority

VoteLockChangeAllowed(requested) ==
  EmergencyPowersAvailable \/ requested = gconfig.vote_lock_secs

Expiry == clock + FIRST_YEAR_SECS

InitializeGovernanceConfig(p) ==
  /\ gconfig = None
  /\ authority = None
  /\ ValidParams(p) /\ ValidVoteLock(p.vote_lock_secs)
  /\ gconfig' = p
  /\ authority' = Expiry
  /\ UNCHANGED <<act, proposal, actionOf, voteRecord, ban, tokenVars, clock>>

InitializeEmergencyAuthority ==
  /\ authority = None
  /\ authority' = Expiry
  /\ UNCHANGED <<act, gconfig, proposal, actionOf, voteRecord, ban, tokenVars, clock>>

UpdateGovernanceConfig(p) ==
  /\ gconfig # None /\ authority # None
  /\ ValidParams(p) /\ ValidVoteLock(p.vote_lock_secs)
  /\ VoteLockChangeAllowed(p.vote_lock_secs)
  /\ gconfig' = p
  /\ UNCHANGED <<act, authority, proposal, actionOf, voteRecord, ban, tokenVars, clock>>

CategoryAllows(draft) == draft.action.kind # "None" => draft.category = "Standards"

\* Quorum and threshold are those of the configuration at creation.
NewProposal(w, draft) ==
  [category |-> draft.category, proposer |-> w,
   stake_deposit |-> gconfig.deposit_amount, votes_for |-> 0, votes_against |-> 0,
   quorum_snapshot |->
     (gconfig.total_open_supply * QuorumBpsFor(draft.category)) \div GOVERNANCE_BPS,
   threshold_snapshot |-> ThresholdBpsFor(draft.category),
   voting_ends_at |-> clock + draft.period, state |-> "Voting", quorum_met |-> FALSE,
   deposit_settled |-> FALSE, executed |-> FALSE, offchain_link |-> FALSE]

CreateProposal(w, i, draft) ==
  /\ gconfig # None
  /\ clock <= LastCreation
  /\ proposal[i] = None
  /\ ban[w] = None
  /\ draft.period >= MIN_VOTING_PERIOD_SECS
  /\ CategoryAllows(draft)
  /\ purse[w] >= gconfig.deposit_amount
  /\ purse' = [purse EXCEPT ![w] = @ - gconfig.deposit_amount]
  /\ depositVault' = depositVault + gconfig.deposit_amount
  /\ proposal' = [proposal EXCEPT ![i] = NewProposal(w, draft)]
  /\ actionOf' = [actionOf EXCEPT ![i] = draft.action]
  /\ UNCHANGED <<settingVars, voteRecord, ban, forfeited, clock>>

LinkOffchainProposal(w, i) ==
  /\ proposal[i] # None
  /\ proposal[i].proposer = w
  /\ proposal[i].state = "Voting"
  /\ ~proposal[i].offchain_link
  /\ proposal' = [proposal EXCEPT ![i] = [proposal[i] EXCEPT !.offchain_link = TRUE]]
  /\ UNCHANGED <<settingVars, actionOf, voteRecord, ban, tokenVars, clock>>

\* Mutant: the vote record of a wallet is no longer one account per proposal.
NotYetVotedAlways(i, w) == TRUE

NotYetVoted(i, w) == voteRecord[i][w] = None

NewVoteRecord(inFavor, weight) ==
  [weight |-> weight, in_favor |-> inFavor, locked_until |-> clock + gconfig.vote_lock_secs]

Counted(p, inFavor, weight) ==
  IF inFavor THEN [p EXCEPT !.votes_for = p.votes_for + weight]
  ELSE [p EXCEPT !.votes_against = p.votes_against + weight]

CastVote(w, i, inFavor, weight) ==
  /\ gconfig # None
  /\ proposal[i] # None
  /\ proposal[i].state = "Voting"
  /\ clock < proposal[i].voting_ends_at
  /\ NotYetVoted(i, w)
  /\ proposal' = [proposal EXCEPT ![i] = Counted(proposal[i], inFavor, weight)]
  /\ voteRecord' = [voteRecord EXCEPT ![i][w] = NewVoteRecord(inFavor, weight)]
  /\ UNCHANGED <<settingVars, actionOf, ban, tokenVars, clock>>

QuorumMet(p) == p.votes_for + p.votes_against >= p.quorum_snapshot

Accepted(p) ==
  LET cast == p.votes_for + p.votes_against
  IN  /\ QuorumMet(p)
      /\ cast # 0
      /\ (p.votes_for * GOVERNANCE_BPS) \div cast >= p.threshold_snapshot

Tallied(p) ==
  [p EXCEPT !.quorum_met = QuorumMet(p), !.state = IF Accepted(p) THEN "Accepted" ELSE "Rejected"]

TallyAndFinalize(i) ==
  /\ proposal[i] # None
  /\ proposal[i].state = "Voting"
  /\ clock >= proposal[i].voting_ends_at
  /\ proposal' = [proposal EXCEPT ![i] = Tallied(proposal[i])]
  /\ UNCHANGED <<settingVars, actionOf, voteRecord, ban, tokenVars, clock>>

Unsettled(i) == proposal[i] # None /\ ~proposal[i].deposit_settled

\* Mutant: the settled flag is forgotten.
SettledForgotten(i) == proposal

Settled(i) == [proposal EXCEPT ![i] = [proposal[i] EXCEPT !.deposit_settled = TRUE]]

RefundOrForfeitDeposit(i) ==
  /\ gconfig # None
  /\ Unsettled(i)
  /\ proposal[i].state # "Voting"
  /\ depositVault >= proposal[i].stake_deposit
  /\ depositVault' = depositVault - proposal[i].stake_deposit
  /\ IF proposal[i].quorum_met
     THEN /\ purse' = [purse EXCEPT ![proposal[i].proposer] = @ + proposal[i].stake_deposit]
          /\ UNCHANGED forfeited
     ELSE /\ forfeited' = forfeited + proposal[i].stake_deposit
          /\ UNCHANGED purse
  /\ proposal' = Settled(i)
  /\ UNCHANGED <<settingVars, actionOf, voteRecord, ban, clock>>

Spent(p) == [p EXCEPT !.executed = TRUE]

\* The two authorizations that only record that they were given.
Authorize(i, category) ==
  /\ proposal[i] # None
  /\ proposal[i].state = "Accepted"
  /\ proposal[i].category = category
  /\ ~proposal[i].executed
  /\ proposal' = [proposal EXCEPT ![i] = Spent(proposal[i])]
  /\ UNCHANGED <<settingVars, actionOf, voteRecord, ban, tokenVars, clock>>

UpdateConfigParameter(i) == Authorize(i, "Parameter")
AuthorizeTreasurySpend(i) == Authorize(i, "Treasury")

\* Mutant: an executed proposal may act again.
ExecutableAgain(i) ==
  /\ gconfig # None
  /\ proposal[i] # None
  /\ proposal[i].state = "Accepted" /\ proposal[i].quorum_met
  /\ clock >= proposal[i].voting_ends_at + gconfig.vote_lock_secs

RequireExecutable(i) ==
  /\ gconfig # None
  /\ proposal[i] # None
  /\ proposal[i].state = "Accepted" /\ proposal[i].quorum_met
  /\ ~proposal[i].executed
  /\ clock >= proposal[i].voting_ends_at + gconfig.vote_lock_secs

\* The reason and the evidence hash of a listing are only displayed.
NewBan(i) == [listed_at |-> clock, authorizing_proposal |-> i]

ListWallet(i, w) ==
  /\ RequireExecutable(i)
  /\ proposal[i].category = "Standards"
  /\ actionOf[i] = Listing(w)
  /\ ban[w] = None
  /\ ban' = [ban EXCEPT ![w] = NewBan(i)]
  /\ proposal' = [proposal EXCEPT ![i] = Spent(proposal[i])]
  /\ UNCHANGED <<settingVars, actionOf, voteRecord, tokenVars, clock>>

DelistWallet(i, w) ==
  /\ RequireExecutable(i)
  /\ proposal[i].category = "Standards"
  /\ actionOf[i] = Delisting(w)
  /\ ban[w] # None
  /\ ban' = [ban EXCEPT ![w] = None]
  /\ proposal' = [proposal EXCEPT ![i] = Spent(proposal[i])]
  /\ UNCHANGED <<settingVars, actionOf, voteRecord, tokenVars, clock>>

GovernanceTick ==
  /\ clock < HorizonTime
  /\ clock' = clock + 1
  /\ UNCHANGED <<settingVars, proposal, actionOf, voteRecord, ban, tokenVars>>

Execute(i) == \E w \in GovWallets : ListWallet(i, w) \/ DelistWallet(i, w)

GovernanceNext ==
  \/ GovernanceTick
  \/ InitializeEmergencyAuthority
  \/ \E p \in act.params : InitializeGovernanceConfig(p) \/ UpdateGovernanceConfig(p)
  \/ \E i \in Ids :
       \/ \E w \in act.proposers, draft \in act.drafts[i] : CreateProposal(w, i, draft)
       \/ \E w \in act.linkers : LinkOffchainProposal(w, i)
       \/ \E w \in GovWallets, inFavor \in BOOLEAN : \E weight \in act.weights[w] :
            CastVote(w, i, inFavor, weight)
       \/ TallyAndFinalize(i)
       \/ RefundOrForfeitDeposit(i)
       \/ UpdateConfigParameter(i)
       \/ AuthorizeTreasurySpend(i)
       \/ Execute(i)

GovernanceSpec == GovernanceInit /\ [][GovernanceNext]_govVars

-------------------------------------------------------------------------------

\* What the vote records R of a proposal add up to on one side.
WeightOf(v, side) == IF v # None /\ v.in_favor = side THEN v.weight ELSE 0
VotesCast(R, side) == SumFunction([w \in GovWallets |-> WeightOf(R[w], side)])

\* The deposit a proposal still has in the vault.
DepositOf(p) == IF p # None /\ ~p.deposit_settled THEN p.stake_deposit ELSE 0

\* A ban leads back to a vote.
BansLeadToVotes ==
  \A w \in GovWallets : ban[w] # None =>
    LET i == ban[w].authorizing_proposal
        p == proposal[i]
        for == VotesCast(voteRecord[i], TRUE)
        against == VotesCast(voteRecord[i], FALSE)
    IN  /\ p # None /\ p.category = "Standards" /\ p.state = "Accepted" /\ p.executed
        /\ actionOf[i] = Listing(w)
        /\ for + against >= p.quorum_snapshot
        /\ for * GOVERNANCE_BPS >= p.threshold_snapshot * (for + against)
        /\ ban[w].listed_at > p.voting_ends_at

\* Every change to the ban list spends exactly one proposal, and none is ever unspent.
AuthorizationsSpentOnce ==
  /\ ban' # ban => \E i \in Ids : /\ proposal[i] # None /\ ~proposal[i].executed
                                  /\ proposal'[i].executed
                                  /\ \A j \in Ids \ {i} : proposal'[j] = proposal[j]
  /\ \A i \in Ids : proposal[i] # None => (proposal[i].executed => proposal'[i].executed)

(* A ban always leads back to a vote: the BanRecord names an executed,       *)
(* accepted Standards proposal whose recorded action lists that very wallet, *)
(* which the vote records themselves add up to carrying, and which acted at  *)
(* least one second after voting closed; and each passed proposal is spent   *)
(* by what it does, so that a delisting cannot be undone by re-running the   *)
(* listing before it (list_wallet, delist_wallet, require_executable,        *)
(* cast_vote's one record per wallet).                                       *)
BansAreVoted == []BansLeadToVotes /\ [][AuthorizationsSpentOnce]_govVars

(* The deposit vault holds exactly the deposits not yet settled, whatever    *)
(* the configured amount has become since, and no OPEN appears or vanishes   *)
(* (create_proposal, refund_or_forfeit_deposit).                             *)
DepositsBacked ==
  /\ depositVault = SumFunction([i \in Ids |-> DepositOf(proposal[i])])
  /\ depositVault + forfeited + SumFunction(purse) = SumFunction([w \in GovWallets |-> Holdings])

PassedBanAction(i) ==
  proposal[i] # None /\ proposal[i].state = "Accepted" /\ actionOf[i].kind # "None"

TookEffect(i) ==
  /\ PassedBanAction(i)
  /\ proposal[i].executed \/ (actionOf[i].kind = "ListWallet") = (ban[actionOf[i].wallet] # None)
===============================================================================
