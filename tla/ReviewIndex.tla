---------------------------- MODULE ReviewIndex -----------------------------
(***************************************************************************)
(* The replicated index of trade reviews (crate openfiat-reviews).  A      *)
(* review's id is derived from its settlement and its author; who it is    *)
(* about is derived from the settlement on every read.  `settlements' is   *)
(* the same node's settlement registry: a function from ids to records     *)
(* with fields buyer, seller and state.                                    *)
(***************************************************************************)
EXTENDS Wire, Sequences, SequencesExt

CONSTANT MillisPerDay           \* MILLIS_PER_DAY

Rating == 1 .. 5

\* ReviewId::of
ReviewId(settlement, author) == <<settlement, author>>

\* `words' stands for the comment: its canonical bytes are ordered by it.
Review(Settlements, Author, Words, Time) ==
    [settlement : Settlements, author : Author, rating : Rating,
     words : Words, created_at : Time]

\* Rating's Deserialize refuses what is off the scale, and Review::validate
\* a comment that is too long or would redraw the text around it.
ReviewValid(e) == e.rating \in Rating /\ ~e.hazard

\* Mutant: whichever review arrives last wins.
SupersedesAlways(incoming, existing) == TRUE

\* supersedes: the later-dated review, ties broken by the record's bytes.
Supersedes(incoming, existing) ==
    \/ incoming.created_at > existing.created_at
    \/ /\ incoming.created_at = existing.created_at
       /\ \/ incoming.rating > existing.rating
          \/ /\ incoming.rating = existing.rating
             /\ incoming.words > existing.words

ReviewOf(e) ==
    [settlement |-> e.settlement, author |-> e.wallet, rating |-> e.rating,
     words |-> e.words, created_at |-> e.timestamp]

\* SignedReviewPublish::verify: the payload names the author its key derives to, and
\* that key signed it.
PublishVerifies(e) == SelfSigned(e)

\* apply_publish checks only what needs no state.
CanPublish(reviews, e) ==
    /\ PublishVerifies(e)
    /\ ReviewValid(e)
    /\ LET id == ReviewId(e.settlement, e.wallet)
       IN  id \in DOMAIN reviews => Supersedes(ReviewOf(e), reviews[id])

Apply(reviews, e) ==
    IF CanPublish(reviews, e)
    THEN Put(reviews, ReviewId(e.settlement, e.wallet), ReviewOf(e))
    ELSE reviews

\* is_settled: Approved counts as well as Completed, so that a node that
\* cannot see the chain answers like one that can.
IsSettled(state) == state \in {"Approved", "Completed"}

\* subject_of: the other party of a settled trade, None for anyone else.
SubjectOf(settlement, author) ==
    CASE ~IsSettled(settlement.state) -> None
      [] IsSettled(settlement.state) /\ author = settlement.buyer -> settlement.seller
      [] /\ IsSettled(settlement.state)
         /\ author = settlement.seller /\ author /= settlement.buyer -> settlement.buyer
      [] OTHER -> None

\* find_for_settlement: what either party is entitled to have written.
FindForSettlement(reviews, settlements, s) ==
    {id \in {ReviewId(s, settlements[s].buyer), ReviewId(s, settlements[s].seller)} :
        /\ id \in DOMAIN reviews
        /\ SubjectOf(settlements[s], reviews[id].author) /= None}

\* ReviewsView::authorized, as a set: the order is the reader's.
Authorized(reviews, settlements) ==
    {[review |-> reviews[id],
      about |-> SubjectOf(settlements[reviews[id].settlement], reviews[id].author)] :
        id \in {i \in DOMAIN reviews :
                    /\ reviews[i].settlement \in DOMAIN settlements
                    /\ SubjectOf(settlements[reviews[i].settlement],
                                 reviews[i].author) /= None}}

ReviewsAbout(reviews, settlements, wallet) ==
    {p \in Authorized(reviews, settlements) : p.about = wallet}

\* PublicReview::from: the opinion and the day, without the author and the
\* settlement.
PublicAbout(reviews, settlements, wallet) ==
    {[about |-> p.about, rating |-> p.review.rating, words |-> p.review.words,
      created_on |-> p.review.created_at - (p.review.created_at % MillisPerDay)] :
        p \in ReviewsAbout(reviews, settlements, wallet)}

\* ReviewsView::involving: both directions, for a wallet that proved itself.
ReviewsInvolving(reviews, settlements, wallet) ==
    {p \in Authorized(reviews, settlements) :
        p.review.author = wallet \/ p.about = wallet}

=============================================================================
