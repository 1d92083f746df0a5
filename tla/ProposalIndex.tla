---------------------------- MODULE ProposalIndex ---------------------------
(***************************************************************************)
(* The replicated index of governance proposals (crate                     *)
(* openfiat-governance).  Votes are advisory: a proposal's outcome is only *)
(* ever adopted from the governance program's own record, and only when    *)
(* the two records name each other.  `onchain' is the decoded account, a   *)
(* record with fields id, state and offchain_id, or None when the node     *)
(* could not read one.                                                     *)
(***************************************************************************)
EXTENDS Wire, Integers, Folds, FiniteSetsExt

CONSTANT VotingPeriod           \* protocol::DEFAULT_VOTING_PERIOD

ProposalStatus == {"Voting", "Accepted", "Rejected", "Withdrawn", "Activated"}

VoteChoice == {"Approve", "Reject", "Abstain"}

\* Proposal; votes are kept as a function from voters, since a voter votes
\* once.
Proposal(Author, Voter, Weight, Onchain, Time) ==
    [author : Author, status : ProposalStatus, onchain_proposal_id : Onchain,
     votes : UNION {[V -> [choice : VoteChoice, weight : Weight]] : V \in SUBSET Voter},
     voting_closes_at : Time, updated_at : Time]

\* SignedProposalCreate::verify: the payload names the author its key derives to, and
\* that key signed it.
CreateVerifies(e) == SelfSigned(e)

\* SignedVoteCast::verify: the payload names the voter its key derives to, and
\* that key signed it.
VoteVerifies(e) == SelfSigned(e)

CanCreate(proposals, e) == CreateVerifies(e) /\ e.id \notin DOMAIN proposals

ProposalCreated(proposals, e) ==
    Put(proposals, e.id,
        [author |-> e.wallet, status |-> "Voting",
         onchain_proposal_id |-> e.onchain_proposal_id, votes |-> EmptyStore,
         voting_closes_at |-> e.timestamp + VotingPeriod, updated_at |-> e.timestamp])

\* apply_vote_inner judges the window by the vote's own timestamp.
CanVote(proposals, e) ==
    /\ VoteVerifies(e)
    /\ e.id \in DOMAIN proposals
    /\ proposals[e.id].status = "Voting"
    /\ e.timestamp < proposals[e.id].voting_closes_at
    /\ e.wallet \notin DOMAIN proposals[e.id].votes

\* apply_vote takes the weight the vote reports, apply_vote_with_verified_weight
\* the one read from the chain.
Voted(proposals, e, weight) ==
    [proposals EXCEPT
        ![e.id].votes = Put(@, e.wallet, [choice |-> e.choice, weight |-> weight]),
        ![e.id].updated_at = e.timestamp]

ByAuthor(proposals, e) ==
    e.id \in DOMAIN proposals /\ SignedBy(e, proposals[e.id].author)

CanWithdraw(proposals, e) ==
    ByAuthor(proposals, e) /\ proposals[e.id].status = "Voting"

CanActivate(proposals, e) ==
    ByAuthor(proposals, e) /\ proposals[e.id].status = "Accepted"

WithStatus(proposals, id, status, now) ==
    [proposals EXCEPT ![id].status = status, ![id].updated_at = now]

CanApply(proposals, e) ==
    \/ e.kind = "ProposalCreated" /\ CanCreate(proposals, e)
    \/ e.kind = "VoteCast" /\ CanVote(proposals, e)
    \/ e.kind = "ProposalWithdrawn" /\ CanWithdraw(proposals, e)
    \/ e.kind = "ProposalActivated" /\ CanActivate(proposals, e)

Apply(proposals, e) ==
    IF ~CanApply(proposals, e) THEN proposals
    ELSE CASE e.kind = "ProposalCreated" -> ProposalCreated(proposals, e)
           [] e.kind = "VoteCast" -> Voted(proposals, e, e.weight)
           [] e.kind = "ProposalWithdrawn" ->
                WithStatus(proposals, e.id, "Withdrawn", e.timestamp)
           [] e.kind = "ProposalActivated" ->
                WithStatus(proposals, e.id, "Activated", e.timestamp)

-----------------------------------------------------------------------------
\* OnchainProposalState::resolution: an open proposal is not a resolution.
Resolution(state) == IF state \in {"Accepted", "Rejected"} THEN state ELSE None

\* decode_proposal believes an account only if the governance program owns it.
Decoded(account) == IF account /= None /\ account.owned THEN account ELSE None

\* Mutant: the account the author pointed at is believed without naming the
\* proposal back.
LinkedOneWay(proposal, id, onchain) == onchain.id = proposal.onchain_proposal_id

\* Both directions, every time.
Linked(proposal, id, onchain) ==
    onchain.id = proposal.onchain_proposal_id /\ onchain.offchain_id = id

\* compare
Agreement(proposal, id, onchain) ==
    CASE proposal.onchain_proposal_id = None -> "NoClaim"
      [] /\ proposal.onchain_proposal_id /= None
         /\ onchain = None \/ (onchain /= None /\ ~Linked(proposal, id, onchain)) ->
            "ClaimNotReciprocated"
      [] OTHER ->
            CASE Resolution(onchain.state) = None -> "LinkedStillVoting"
              [] Resolution(onchain.state) = proposal.status -> "LinkedAgreed"
              [] /\ Resolution(onchain.state) \notin {None, proposal.status}
                 /\ proposal.status = "Voting" -> "LinkedAwaitingAdoption"
              [] OTHER -> "LinkedDisagreed"

\* adopt_onchain_resolution with apply_onchain_resolution inlined: a proposal
\* that already left Voting is not moved again.
Adopted(proposals, id, onchain, now) ==
    IF Agreement(proposals[id], id, onchain) = "LinkedAwaitingAdoption"
    THEN WithStatus(proposals, id, Resolution(onchain.state), now)
    ELSE proposals

PendingOnchainResolutions(proposals) ==
    {id \in DOMAIN proposals :
        /\ proposals[id].status = "Voting"
        /\ proposals[id].onchain_proposal_id /= None}

\* local_vote_preview: what the votes this node holds add up to.
VotePreview(proposal, choice) ==
    MapThenFoldSet(LAMBDA x, y : x + y, 0, LAMBDA v : proposal.votes[v].weight,
                   LAMBDA S : CHOOSE v \in S : TRUE,
                   {v \in DOMAIN proposal.votes : proposal.votes[v].choice = choice})

=============================================================================
