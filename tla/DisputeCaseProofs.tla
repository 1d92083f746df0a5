-------------------------- MODULE DisputeCaseProofs --------------------------
(*****************************************************************************)
(* Proofs, for every number of arbitrators, seats, rounds and windows, of    *)
(* what a case promises: whom its rounds may seat, when it may end, what its *)
(* verdict rests on, and how the forfeited deposit is paid out.  Weights are *)
(* sums over seats (Sums).                                                   *)
(*****************************************************************************)
EXTENDS DisputeCase, Sums

-----------------------------------------------------------------------------
(* Arithmetic and the draw                                                 *)

\* The minimum of two numbers.
LEMMA MinOfTwo ==
  ASSUME NEW x \in Int, NEW y \in Int
  PROVE  Min({x, y}) = IF x <= y THEN x ELSE y
<1> DEFINE z == IF x <= y THEN x ELSE y
<1>1. z \in {x, y} /\ \A u \in {x, y} : z <= u
  OBVIOUS
<1>2. \A u \in {x, y} : (\A v \in {x, y} : u <= v) => u = z
  OBVIOUS
<1> HIDE DEF z
<1>3. Min({x, y}) = z
  BY <1>1, <1>2 DEF Min
<1> QED
  BY <1>3 DEF z

\* The maximum of two numbers.
LEMMA MaxOfTwo ==
  ASSUME NEW x \in Int, NEW y \in Int
  PROVE  Max({x, y}) = IF x >= y THEN x ELSE y
<1> DEFINE z == IF x >= y THEN x ELSE y
<1>1. z \in {x, y} /\ \A u \in {x, y} : z >= u
  OBVIOUS
<1>2. \A u \in {x, y} : (\A v \in {x, y} : u >= v) => u = z
  OBVIOUS
<1> HIDE DEF z
<1>3. Max({x, y}) = z
  BY <1>1, <1>2 DEF Max
<1> QED
  BY <1>3 DEF z

\* A quotient is at least k when the dividend is at least k times the divisor.
LEMMA QuotientAtLeast ==
  ASSUME NEW w \in Nat \ {0}, NEW x \in Nat, 7 * w <= x
  PROVE  x \div w >= 7
<1> DEFINE q == x \div w
<1>1. q \in Int /\ x < w * q + w
  OBVIOUS
<1> HIDE DEF q
<1>2. ASSUME q <= 6 PROVE FALSE
  <2>1. w * q <= w * 6
    BY <1>1, <1>2
  <2>2. w * q \in Int
    BY <1>1
  <2> QED
    BY <1>1, <2>1, <2>2
<1>3. q >= 7
  BY <1>1, <1>2
<1> QED
  BY <1>3 DEF q

\* In the last second of a window of at least as many seconds as there are widening
\* steps, the last step is reached and the threshold is open.
LEMMA LastSecondOpen ==
  ASSUME NEW initial \in Nat, NEW w \in Nat, w >= SORTITION_WIDENING_STEPS,
         NEW draw \in 0..(SORTITION_BPS_DENOMINATOR - 1)
  PROVE  QualifiesForSeat(draw, initial, w, w - 1)
<1> DEFINE x == (w - 1) * SORTITION_WIDENING_STEPS
<1>1. x \in Nat /\ 7 * w <= x /\ w \in Nat \ {0}
  BY DEF SORTITION_WIDENING_STEPS
<1>2. x \div w >= 7 /\ x \div w \in Int
  BY <1>1, QuotientAtLeast
<1>3. WideningStep(w, w - 1) = SORTITION_WIDENING_STEPS - 1
  BY <1>2 DEF WideningStep, SORTITION_WIDENING_STEPS
<1> QED
  BY <1>3 DEF QualifiesForSeat, SortitionThreshold, SORTITION_BPS_DENOMINATOR

-----------------------------------------------------------------------------
(* The inductive invariant                                                 *)

\* The types of what a round is made of (CaseTypeOK without the result and the sizes).
RoundTypes ==
  /\ status \in {"none", "open", "resolved"}
  /\ round \in 0..(MAX_DISPUTE_ROUNDS - 1)
  /\ window \in [commit : CommitWindows \cup {0}, reveal : RevealWindows \cup {0}]
  /\ elapsed \in 0..(window.commit + window.reveal)
  /\ seat \in [Arbitrators -> SeatType]
  /\ ticket \in [Arbitrators -> Tickets \cup {0}]
  /\ power \in [Arbitrators -> Powers] /\ aged \subseteq Arbitrators
  /\ seats_taken_total \in Nat /\ published \in Nat /\ custody \in CustodyKinds

\* Commitments and reveals are closed by their deadlines alone: before a case is
\* open its windows are empty, and once it is resolved they have passed.
Deadlines ==
  /\ status = "none" => window = [commit |-> 0, reveal |-> 0]
  /\ status = "resolved" => Closed

\* Whom a case has seen: the figures PoolFloor compares, and how full `barred` is.
Witnessed ==
  /\ Seated \subseteq served /\ barred \subseteq served /\ served \subseteq Arbitrators
  /\ Cardinality(served) <= seats_taken_total
  /\ Cardinality(Seated) <= MAX_ARBITRATORS
  /\ Cardinality(barred) <= MAX_BARRED_ARBITRATORS
  /\ status # "resolved" => /\ Cardinality(barred) <= MAX_ARBITRATORS * round
                            /\ Seated \cap barred = {}

RoundInv == RoundTypes /\ Deadlines /\ Witnessed

\* Sets of arbitrators are finite.
LEMMA SetsFinite ==
  ASSUME NEW S \in SUBSET Arbitrators
  PROVE  IsFiniteSet(S) /\ Cardinality(S) \in Nat
  BY DisputeAssumption, FS_Subset, FS_CardinalityType

\* The barred set has room for every seat of every round but the last.
LEMMA Capacities ==
  /\ MIN_ARBITRATORS \in Nat /\ MAX_ARBITRATORS \in Nat /\ MAX_DISPUTE_ROUNDS \in Nat \ {0}
  /\ MAX_BARRED_ARBITRATORS = MAX_ARBITRATORS * (MAX_DISPUTE_ROUNDS - 1)
  /\ MAX_BARRED_ARBITRATORS \in Nat
<1>1. /\ MIN_ARBITRATORS \in Nat /\ MAX_ARBITRATORS \in Nat /\ MAX_DISPUTE_ROUNDS \in Nat \ {0}
      /\ MAX_BARRED_ARBITRATORS = MAX_ARBITRATORS * (MAX_DISPUTE_ROUNDS - 1)
  BY DisputeAssumption
<1>2. MAX_DISPUTE_ROUNDS - 1 \in Nat
  BY <1>1
<1>3. \A x, y \in Nat : x * y \in Nat
  OBVIOUS
<1> QED
  BY <1>1, <1>2, <1>3

\* The clock and the windows are natural numbers.
LEMMA Clocks ==
  ASSUME RoundTypes
  PROVE  /\ window \in [commit : Nat, reveal : Nat] /\ elapsed \in Nat
         /\ window.commit \in Nat /\ window.reveal \in Nat
         /\ elapsed <= window.commit + window.reveal
<1>1. CommitWindows \cup {0} \subseteq Nat /\ RevealWindows \cup {0} \subseteq Nat
  BY DisputeAssumption
<1>2. window.commit \in Nat /\ window.reveal \in Nat
  BY <1>1 DEF RoundTypes
<1> QED
  BY <1>1, <1>2 DEF RoundTypes

\* An empty seat is a seat.
LEMMA NoSeatType == NoSeat \in SeatType
  BY DEF NoSeat, SeatType

\* A case that is not open satisfies the invariant.
LEMMA InitRoundInv == CaseInit => RoundInv
<1> SUFFICES ASSUME CaseInit PROVE RoundInv
  OBVIOUS
<1>1. RoundTypes
  <2>1. custody \in CustodyKinds
    BY DisputeAssumption DEF CaseInit
  <2> QED
    BY <2>1, NoSeatType, Capacities DEF CaseInit, RoundTypes
<1>2. Deadlines
  BY DEF CaseInit, Deadlines
<1>3. Seated = {} /\ barred = {} /\ served = {} /\ seats_taken_total = 0 /\ round = 0
  BY DEF CaseInit, Seated, NoSeat
<1>4. MAX_ARBITRATORS * 0 = 0
  BY Capacities
<1>5. Witnessed
  BY <1>3, <1>4, FS_EmptySet, Capacities DEF Witnessed
<1> QED
  BY <1>1, <1>2, <1>5 DEF RoundInv

\* A step that moves neither seats nor rounds.
LEMMA SameRound ==
  ASSUME RoundInv, UNCHANGED <<round, window, seat, barred, seats_taken_total, served>>,
         RoundTypes', Deadlines', status' = "resolved" \/ status # "resolved"
  PROVE  RoundInv'
<1>1. Seated' = Seated
  BY DEF Seated
<1> QED
  BY <1>1 DEF RoundInv, Witnessed

\* A commit seats a wallet that is neither barred nor seated, within the capacity.
LEMMA CommitRoundInv ==
  ASSUME RoundInv, NEW a \in Arbitrators, NEW vote \in Votes, CommitDisputeVote(a, vote)
  PROVE  RoundInv' /\ status # "resolved"
<1> DEFINE s == [NoSeat EXCEPT !.taken = TRUE, !.vote = vote]
<1>0. /\ seat \in [Arbitrators -> SeatType] /\ seats_taken_total \in Nat
      /\ window \in [commit : Nat, reveal : Nat] /\ elapsed \in Nat
  BY Clocks DEF RoundInv, RoundTypes
<1>1. /\ seat' = [seat EXCEPT ![a] = s] /\ seats_taken_total' = seats_taken_total + 1
      /\ served' = served \cup {a} /\ a \notin barred /\ ~seat[a].taken
      /\ Cardinality(Seated) < MAX_ARBITRATORS /\ elapsed < window.commit
      /\ UNCHANGED <<round, elapsed, window, ticket, barred, power, aged, status, published,
                     custody>>
  BY DEF CommitDisputeVote, stakeVars, resultVars
<1>2. s \in SeatType /\ s.taken
  BY DisputeAssumption, ZenonT(60) DEF NoSeat, SeatType
<1> HIDE DEF s
<1>3. Seated' = Seated \cup {a} /\ a \notin Seated
  BY <1>0, <1>1, <1>2 DEF Seated
<1>4. Seated \subseteq Arbitrators /\ served \subseteq Arbitrators
  BY DEF Seated, RoundInv, Witnessed
<1>5. /\ Cardinality(Seated') = Cardinality(Seated) + 1
      /\ Cardinality(served') <= Cardinality(served) + 1
      /\ Cardinality(Seated) \in Nat /\ Cardinality(served) \in Nat
      /\ Cardinality(served') \in Nat
  <2>1. IsFiniteSet(Seated) /\ IsFiniteSet(served) /\ Cardinality(Seated) \in Nat
        /\ Cardinality(served) \in Nat
    BY <1>4, SetsFinite
  <2>2. Cardinality(Seated \cup {a}) = Cardinality(Seated) + 1
    BY <1>3, <2>1, FS_AddElement, ZenonT(60)
  <2>3. a \notin served => Cardinality(served \cup {a}) = Cardinality(served) + 1
    BY <2>1, FS_AddElement, ZenonT(60)
  <2>4. a \in served => served \cup {a} = served
    OBVIOUS
  <2>5. Seated' = Seated \cup {a} /\ served' = served \cup {a}
    BY <1>1, <1>3
  <2>6. Cardinality(served \cup {a}) \in {Cardinality(served), Cardinality(served) + 1}
    BY <2>3, <2>4, ZenonT(60)
  <2> QED
    BY <2>1, <2>2, <2>5, <2>6
<1>6. RoundTypes'
  BY <1>0, <1>1, <1>2 DEF RoundInv, RoundTypes
<1>7. Deadlines'
  BY <1>1 DEF RoundInv, Deadlines, Closed
<1>8. status # "resolved"
  BY <1>0, <1>1 DEF RoundInv, Deadlines, Closed
<1>9. Witnessed'
  BY <1>0, <1>1, <1>3, <1>4, <1>5, <1>8, Capacities DEF RoundInv, Witnessed
<1> QED
  BY <1>6, <1>7, <1>8, <1>9 DEF RoundInv

\* A reveal fills in a seat that is already taken.
LEMMA RevealRoundInv ==
  ASSUME RoundInv, NEW a \in Arbitrators, RevealDisputeVote(a)
  PROVE  RoundInv' /\ status # "resolved"
<1>0. /\ seat \in [Arbitrators -> SeatType] /\ power[a] \in Nat
      /\ window \in [commit : Nat, reveal : Nat] /\ elapsed \in Nat
  BY Clocks, DisputeAssumption, ZenonT(60) DEF RoundInv, RoundTypes
<1>1. /\ seat' = [seat EXCEPT ![a] = [seat[a] EXCEPT !.revealed = TRUE, !.weight = power[a]]]
      /\ elapsed < window.commit + window.reveal
      /\ UNCHANGED <<round, elapsed, window, ticket, barred, power, aged, status, published,
                     custody, seats_taken_total, served>>
  BY DEF RevealDisputeVote, stakeVars, resultVars
<1>2. [seat[a] EXCEPT !.revealed = TRUE, !.weight = power[a]] \in SeatType
  BY <1>0, ZenonT(60) DEF SeatType
<1>3. [seat[a] EXCEPT !.revealed = TRUE, !.weight = power[a]].taken = seat[a].taken
  BY <1>0 DEF SeatType
<1>4. Seated' = Seated
  BY <1>0, <1>1, <1>3 DEF Seated
<1>5. RoundTypes'
  BY <1>0, <1>1, <1>2 DEF RoundInv, RoundTypes
<1>6. Deadlines' /\ Witnessed'
  BY <1>1, <1>4 DEF RoundInv, Deadlines, Closed, Witnessed
<1>7. status # "resolved"
  BY <1>0, <1>1 DEF RoundInv, Deadlines, Closed
<1> QED
  BY <1>5, <1>6, <1>7 DEF RoundInv

-----------------------------------------------------------------------------
(* Undecided rounds                                                        *)

\* What bar_silent_seats adds, and that before the last round there is room for all.
LEMMA BarredGrows ==
  ASSUME RoundInv, status = "open", NEW b \in SUBSET Arbitrators, BarSilentSeats(b),
         barred' = barred \cup b
  PROVE  /\ barred' \subseteq served
         /\ Cardinality(barred') \in Nat
         /\ Cardinality(barred') = Cardinality(barred) + Cardinality(b)
         /\ Cardinality(barred') <= MAX_BARRED_ARBITRATORS
         /\ round + 1 < MAX_DISPUTE_ROUNDS =>
              /\ Silent \subseteq barred'
              /\ Cardinality(barred') <= MAX_ARBITRATORS * (round + 1)
<1> DEFINE new == Silent \ barred
           room == MAX_BARRED_ARBITRATORS - Cardinality(barred)
<1>1. /\ Silent \subseteq Seated /\ Seated \subseteq served /\ barred \subseteq served
      /\ served \subseteq Arbitrators /\ b \subseteq new
      /\ Cardinality(b) = Min({Cardinality(new), room})
  BY DEF Silent, RoundInv, Witnessed, BarSilentSeats
<1>2. /\ IsFiniteSet(new) /\ IsFiniteSet(barred) /\ IsFiniteSet(b) /\ IsFiniteSet(Seated)
      /\ Cardinality(new) \in Nat /\ Cardinality(barred) \in Nat /\ Cardinality(b) \in Nat
      /\ Cardinality(Seated) \in Nat
  BY <1>1, SetsFinite
<1>3. /\ Cardinality(barred) <= MAX_BARRED_ARBITRATORS
      /\ Cardinality(barred) <= MAX_ARBITRATORS * round
      /\ Cardinality(Seated) <= MAX_ARBITRATORS
      /\ round \in Nat /\ round < MAX_DISPUTE_ROUNDS
  BY Capacities DEF RoundInv, Witnessed, RoundTypes
<1>4. Cardinality(new) <= MAX_ARBITRATORS
  <2>1. new \in SUBSET Seated
    BY <1>1
  <2>2. Cardinality(new) <= Cardinality(Seated)
    BY <1>2, <2>1, FS_Subset
  <2> QED
    BY <1>2, <1>3, <2>2, Capacities
<1>5. room \in Int
  BY <1>2, Capacities
<1>6. Cardinality(b) = IF Cardinality(new) <= room THEN Cardinality(new) ELSE room
  <2>1. Cardinality(new) \in Int
    BY <1>2
  <2> HIDE DEF new, room
  <2>2. Min({Cardinality(new), room}) = IF Cardinality(new) <= room THEN Cardinality(new) ELSE room
    BY <1>5, <2>1, MinOfTwo
  <2> QED
    BY <1>1, <2>2
<1>7. barred \cap b = {}
  BY <1>1
<1>8. Cardinality(barred \cup b) = Cardinality(barred) + Cardinality(b)
  <2>1. Cardinality(barred \cup b) = Cardinality(barred) + Cardinality(b) - Cardinality(barred \cap b)
    BY <1>2, FS_Union, ZenonT(60)
  <2>2. Cardinality(barred \cap b) = 0
    BY <1>7, FS_EmptySet
  <2> QED
    BY <1>2, <2>1, <2>2
<1>9. ASSUME round + 1 < MAX_DISPUTE_ROUNDS
      PROVE  /\ Cardinality(new) <= room
             /\ MAX_ARBITRATORS * (round + 1) = MAX_ARBITRATORS * round + MAX_ARBITRATORS
  <2>1. MAX_ARBITRATORS * (round + 1) = MAX_ARBITRATORS * round + MAX_ARBITRATORS
    BY <1>3, Capacities
  <2>2. round + 1 <= MAX_DISPUTE_ROUNDS - 1 /\ round + 1 \in Nat /\ MAX_DISPUTE_ROUNDS - 1 \in Nat
    BY <1>3, <1>9, Capacities
  <2>3. \A x, y, z \in Nat : x <= y => z * x <= z * y
    OBVIOUS
  <2>4. MAX_ARBITRATORS * (round + 1) <= MAX_BARRED_ARBITRATORS
    BY <2>2, <2>3, Capacities
  <2>5. MAX_ARBITRATORS * round \in Nat
    BY <1>3, Capacities
  <2> QED
    BY <1>2, <1>3, <1>4, <2>1, <2>4, <2>5, Capacities
<1>10. ASSUME Cardinality(new) <= room PROVE b = new
  BY <1>1, <1>2, <1>6, <1>10, FS_Subset
<1> HIDE DEF new
<1>11. Cardinality(barred') <= MAX_BARRED_ARBITRATORS
  BY <1>2, <1>3, <1>6, <1>8, Capacities
<1>12. ASSUME round + 1 < MAX_DISPUTE_ROUNDS
       PROVE  /\ Silent \subseteq barred'
              /\ Cardinality(barred') <= MAX_ARBITRATORS * (round + 1)
  <2>1. b = new
    BY <1>9, <1>10, <1>12
  <2>2. Silent \subseteq barred'
    BY <2>1 DEF new
  <2>3. MAX_ARBITRATORS * round \in Nat
    BY <1>3, Capacities
  <2> QED
    BY <1>2, <1>3, <1>4, <1>8, <1>9, <1>12, <2>1, <2>2, <2>3, Capacities
<1> QED
  BY <1>1, <1>2, <1>8, <1>11, <1>12 DEF new

\* Opening a case starts its clock at zero.
LEMMA OpenRoundInv ==
  ASSUME RoundInv, NEW cw \in CommitWindows, NEW rw \in RevealWindows, OpenDisputeCase(cw, rw)
  PROVE  RoundInv'
<1>1. /\ status = "none" /\ status' = "open" /\ window' = [commit |-> cw, reveal |-> rw]
      /\ ticket' \in [Arbitrators -> Tickets]
      /\ UNCHANGED <<round, elapsed, seat, barred, seats_taken_total, served, power, aged,
                     published, custody>>
  BY DEF OpenDisputeCase, LatchCaseSeed, stakeVars
<1>2. elapsed = 0 /\ cw \in Nat /\ rw \in Nat
  BY <1>1, Clocks, DisputeAssumption DEF RoundInv, Deadlines
<1>3. ticket' \in [Arbitrators -> Tickets \cup {0}]
  BY <1>1
<1>4. RoundTypes'
  BY <1>1, <1>2, <1>3 DEF RoundInv, RoundTypes
<1>5. Deadlines'
  BY <1>1 DEF Deadlines
<1>6. Seated' = Seated
  BY <1>1 DEF Seated
<1>7. Witnessed'
  BY <1>1, <1>6 DEF RoundInv, Witnessed
<1> QED
  BY <1>4, <1>5, <1>7 DEF RoundInv

\* A decision leaves the round as it was.
LEMMA DecideRoundInv ==
  ASSUME RoundInv, NEW o \in Outcomes, NEW d \in Deposits, DecideRound(o, d)
  PROVE  RoundInv'
<1>1. /\ status = "open" /\ status' = "resolved" /\ Closed
      /\ UNCHANGED <<round, elapsed, window, seat, ticket, barred, seats_taken_total, served,
                     power, aged, published, custody>>
  BY DEF DecideRound, roundVars, stakeVars
<1>2. RoundTypes'
  BY <1>1 DEF RoundInv, RoundTypes
<1>3. Deadlines'
  BY <1>1 DEF Deadlines, Closed
<1> QED
  BY <1>1, <1>2, <1>3, SameRound

\* What handle_undecided_round does to the round, in its two outcomes.
LEMMA UndecidedForms ==
  ASSUME NEW b, NEW pool, HandleUndecidedRound(b, pool)
  PROVE  /\ status = "open" /\ Closed /\ BarSilentSeats(b) /\ barred' = barred \cup b
         /\ UNCHANGED <<power, aged, published, custody, window, seats_taken_total, served,
                        outcome, reward>>
         /\ \/ /\ round + 1 < MAX_DISPUTE_ROUNDS
               /\ ReopenRound
            \/ /\ status' = "resolved"
               /\ UNCHANGED <<round, elapsed, seat, ticket>>
               /\ \/ terminal_reason' = ExhaustedRoundsReason
                  \/ terminal_reason' = "PoolExhausted" /\ ~NextRoundIsStaffable(pool)
  BY DEF HandleUndecidedRound, ReopenRound, TerminalSplit, stakeVars, resultVars

\* An undecided round keeps the invariant, re-opened or split.
LEMMA UndecidedRoundInv ==
  ASSUME RoundInv, NEW b \in SUBSET Arbitrators, NEW pool, HandleUndecidedRound(b, pool)
  PROVE  RoundInv'
<1>1. /\ status = "open" /\ Closed /\ BarSilentSeats(b) /\ barred' = barred \cup b
      /\ UNCHANGED <<power, aged, published, custody, window, seats_taken_total, served>>
  BY UndecidedForms
<1>2. /\ barred' \subseteq served /\ Cardinality(barred') \in Nat
      /\ Cardinality(barred') <= MAX_BARRED_ARBITRATORS
      /\ round + 1 < MAX_DISPUTE_ROUNDS =>
           Cardinality(barred') <= MAX_ARBITRATORS * (round + 1)
  BY <1>1, BarredGrows, ZenonT(60)
<1>3. CASE round + 1 < MAX_DISPUTE_ROUNDS /\ ReopenRound
  <2>1. /\ round' = round + 1 /\ elapsed' = 0 /\ seat' = [a \in Arbitrators |-> NoSeat]
        /\ ticket' \in [Arbitrators -> Tickets] /\ status' = status
    BY <1>3 DEF ReopenRound, LatchCaseSeed, resultVars
  <2>2. ticket' \in [Arbitrators -> Tickets \cup {0}]
    BY <2>1
  <2>3. round' \in 0..(MAX_DISPUTE_ROUNDS - 1)
    BY <1>3, <2>1, Capacities DEF RoundInv, RoundTypes
  <2>4. 0 \in 0..(window.commit + window.reveal)
    BY Clocks DEF RoundInv
  <2>5. RoundTypes'
    BY <1>1, <2>1, <2>2, <2>3, <2>4, NoSeatType DEF RoundInv, RoundTypes
  <2>6. Deadlines'
    BY <1>1, <2>1 DEF Deadlines
  <2>7. Seated' = {}
    BY <2>1 DEF Seated, NoSeat
  <2>8. Cardinality({}) = 0
    BY FS_EmptySet
  <2>9. Witnessed'
    BY <1>1, <1>2, <1>3, <2>1, <2>7, <2>8, Capacities DEF RoundInv, Witnessed
  <2> QED
    BY <2>5, <2>6, <2>9 DEF RoundInv
<1>4. CASE status' = "resolved" /\ UNCHANGED <<round, elapsed, seat, ticket>>
  <2>1. RoundTypes'
    BY <1>1, <1>4 DEF RoundInv, RoundTypes
  <2>2. Deadlines'
    BY <1>1, <1>4 DEF Deadlines, Closed
  <2>3. Seated' = Seated
    BY <1>4 DEF Seated
  <2>4. Witnessed'
    BY <1>1, <1>2, <1>4, <2>3 DEF RoundInv, Witnessed
  <2> QED
    BY <2>1, <2>2, <2>4 DEF RoundInv
<1> QED
  BY <1>3, <1>4, UndecidedForms

\* The clock stops at the reveal deadline.
LEMMA TickRoundInv ==
  ASSUME RoundInv, Tick
  PROVE  RoundInv'
<1>1. /\ status = "open" /\ ~Closed /\ elapsed' = elapsed + 1
      /\ UNCHANGED <<round, window, seat, ticket, barred, seats_taken_total, served, power,
                     aged, status, published, custody>>
  BY DEF Tick, stakeVars, resultVars
<1>2. elapsed' \in 0..(window.commit + window.reveal)
  BY <1>1, Clocks DEF RoundInv, Closed
<1>3. RoundTypes'
  BY <1>1, <1>2 DEF RoundInv, RoundTypes
<1>4. Deadlines'
  BY <1>1 DEF Deadlines
<1> QED
  BY <1>1, <1>3, <1>4, SameRound

\* Claims, publications and stake changes leave the round as it was.
LEMMA OtherRoundInv ==
  ASSUME RoundInv, UNCHANGED <<roundVars, status>>,
         power' \in [Arbitrators -> Powers], aged' \subseteq Arbitrators, published' \in Nat,
         custody' \in CustodyKinds
  PROVE  RoundInv'
<1>1. UNCHANGED <<round, elapsed, window, seat, ticket, barred, seats_taken_total, served, status>>
  BY DEF roundVars
<1>2. RoundTypes'
  BY <1>1 DEF RoundInv, RoundTypes
<1>3. Deadlines'
  BY <1>1 DEF RoundInv, Deadlines, Closed
<1> QED
  BY <1>1, <1>2, <1>3, SameRound

\* Every step keeps RoundInv.
LEMMA NextRoundInv ==
  ASSUME RoundInv, [CaseNext]_caseVars
  PROVE  RoundInv'
<1>0. /\ power \in [Arbitrators -> Powers] /\ aged \subseteq Arbitrators /\ published \in Nat
      /\ custody \in CustodyKinds
  BY DEF RoundInv, RoundTypes
<1>1. ASSUME NEW cw \in CommitWindows, NEW rw \in RevealWindows, OpenDisputeCase(cw, rw)
      PROVE  RoundInv'
  BY <1>1, OpenRoundInv
<1>2. ASSUME NEW a \in Arbitrators, NEW vote \in Votes, CommitDisputeVote(a, vote)
      PROVE  RoundInv'
  BY <1>2, CommitRoundInv
<1>3. ASSUME NEW a \in Arbitrators, RevealDisputeVote(a)
      PROVE  RoundInv'
  BY <1>3, RevealRoundInv
<1>4. ASSUME NEW o \in Outcomes, NEW d \in Deposits, DecideRound(o, d)
      PROVE  RoundInv'
  BY <1>4, DecideRoundInv
<1>5. ASSUME NEW b \in SUBSET Arbitrators, NEW pool \in {0, published},
             HandleUndecidedRound(b, pool)
      PROVE  RoundInv'
  BY <1>5, UndecidedRoundInv
<1>6. ASSUME NEW a \in Arbitrators, ClaimArbitrationReward(a)
      PROVE  RoundInv'
  <2>1. UNCHANGED <<roundVars, status>> /\ UNCHANGED <<power, aged, published, custody>>
    BY <1>6 DEF ClaimArbitrationReward, stakeVars
  <2> QED
    BY <1>0, <2>1, OtherRoundInv
<1>7. ASSUME NEW n \in PoolSizes, PublishArbitratorPoolSize(n)
      PROVE  RoundInv'
  <2>1. UNCHANGED <<roundVars, status>> /\ UNCHANGED <<power, aged, custody>> /\ published' \in Nat
    BY <1>7, DisputeAssumption DEF PublishArbitratorPoolSize, stakeVars, resultVars
  <2> QED
    BY <1>0, <2>1, OtherRoundInv
<1>8. ASSUME NEW a \in Restakers, StakeChanges(a)
      PROVE  RoundInv'
  <2>1. UNCHANGED <<roundVars, status>> /\ UNCHANGED <<published, custody>> /\ a \in Arbitrators
    BY <1>8, DisputeAssumption DEF StakeChanges, resultVars
  <2>2. power' \in [Arbitrators -> Powers]
    <3>1. PICK p \in Powers : power' = [power EXCEPT ![a] = p]
      BY <1>8, ZenonT(60) DEF StakeChanges
    <3> QED
      BY <1>0, <3>1, ZenonT(60)
  <2>3. aged' \subseteq Arbitrators
    BY <1>0, <1>8, <2>1 DEF StakeChanges
  <2> QED
    BY <1>0, <2>1, <2>2, <2>3, OtherRoundInv
<1>9. ASSUME Tick PROVE RoundInv'
  BY <1>9, TickRoundInv
<1>10. ASSUME UNCHANGED caseVars PROVE RoundInv'
  <2>1. UNCHANGED <<roundVars, status>> /\ UNCHANGED <<power, aged, published, custody>>
    BY <1>10 DEF caseVars, stakeVars, resultVars
  <2> QED
    BY <1>0, <2>1, OtherRoundInv
<1>11. ASSUME NEW t \in StoredTreasuries, UpdateFeeConfig(t)
       PROVE  RoundInv'
  <2>1. UNCHANGED <<roundVars, status>> /\ UNCHANGED <<power, aged, published>>
    BY <1>11 DEF UpdateFeeConfig, stakeVars, resultVars
  <2>2. custody' = [custody EXCEPT !.treasuries = t] /\ t \in TokenTreasuries
    BY <1>11, DisputeAssumption DEF UpdateFeeConfig
  <2>3. custody' \in CustodyKinds
    BY <1>0, <2>2 DEF CustodyKinds
  <2> QED
    BY <1>0, <2>1, <2>3, OtherRoundInv
<1> QED
  BY <1>1, <1>2, <1>3, <1>4, <1>5, <1>6, <1>7, <1>8, <1>9, <1>10, <1>11
  DEF CaseNext, ExecuteDisputeOutcome

\* RoundInv is an invariant.
LEMMA AlwaysRoundInv == CaseSpec => []RoundInv
  BY InitRoundInv, NextRoundInv, PTL DEF CaseSpec

-----------------------------------------------------------------------------
(* What undecided rounds may do                                            *)

\* Only an undecided round opens another one or ends a case without a verdict.
LEMMA OnlyUndecidedRounds ==
  ASSUME CaseNext, round' # round \/ terminal_reason' # terminal_reason
  PROVE  \E b \in SUBSET Arbitrators, pool \in {0, published} : HandleUndecidedRound(b, pool)
<1>1. ASSUME NEW cw \in CommitWindows, NEW rw \in RevealWindows, OpenDisputeCase(cw, rw)
      PROVE  FALSE
  BY <1>1 DEF OpenDisputeCase
<1>2. ASSUME NEW a \in Arbitrators, NEW vote \in Votes, CommitDisputeVote(a, vote)
      PROVE  FALSE
  BY <1>2 DEF CommitDisputeVote, resultVars
<1>3. ASSUME NEW a \in Arbitrators, RevealDisputeVote(a)
      PROVE  FALSE
  BY <1>3 DEF RevealDisputeVote, resultVars
<1>4. ASSUME NEW o \in Outcomes, NEW d \in Deposits, DecideRound(o, d)
      PROVE  FALSE
  BY <1>4 DEF DecideRound, roundVars
<1>5. ASSUME NEW a \in Arbitrators, ClaimArbitrationReward(a)
      PROVE  FALSE
  BY <1>5 DEF ClaimArbitrationReward, roundVars
<1>6. ASSUME NEW n \in PoolSizes, PublishArbitratorPoolSize(n)
      PROVE  FALSE
  BY <1>6 DEF PublishArbitratorPoolSize, roundVars, resultVars
<1>7. ASSUME NEW a \in Restakers, StakeChanges(a)
      PROVE  FALSE
  BY <1>7 DEF StakeChanges, roundVars, resultVars
<1>8. ASSUME Tick PROVE FALSE
  BY <1>8 DEF Tick, resultVars
<1>9. ASSUME NEW t \in StoredTreasuries, UpdateFeeConfig(t)
      PROVE  FALSE
  BY <1>9 DEF UpdateFeeConfig, roundVars, resultVars
<1> QED
  BY <1>1, <1>2, <1>3, <1>4, <1>5, <1>6, <1>7, <1>8, <1>9 DEF CaseNext, ExecuteDisputeOutcome

\* The pool floor compares a published size that is not below what the case has witnessed.
LEMMA PoolFloor ==
  ASSUME RoundInv, NEW b \in SUBSET Arbitrators, NEW pool \in {0, published},
         HandleUndecidedRound(b, pool), ~NextRoundIsStaffable(pool)
  PROVE  /\ published >= Cardinality(Arbitrators) =>
              Cardinality(Arbitrators \ barred') < MIN_ARBITRATORS
         /\ Cardinality(served \ barred') < MIN_ARBITRATORS
<1>1. /\ status = "open" /\ BarSilentSeats(b) /\ barred' = barred \cup b
  BY UndecidedForms
<1>2. barred' \subseteq served /\ Cardinality(barred') \in Nat
  BY <1>1, BarredGrows, ZenonT(60)
<1>3. /\ served \subseteq Arbitrators /\ Cardinality(served) <= seats_taken_total
      /\ published \in Nat /\ seats_taken_total \in Nat
  BY DEF RoundInv, RoundTypes, Witnessed
<1>4. pool = published /\ Max({pool, seats_taken_total}) < MIN_ARBITRATORS + Cardinality(barred')
  <2>1. /\ pool # 0
        /\ ~(Max({pool, seats_taken_total}) >= MIN_ARBITRATORS + Cardinality(barred'))
    BY DEF NextRoundIsStaffable, EvidencedPool, RequiredForNextRound
  <2>2. pool \in Nat
    BY <1>3
  <2>3. Max({pool, seats_taken_total}) \in Int
    BY <1>3, <2>2, MaxOfTwo
  <2> QED
    BY <1>2, <2>1, <2>3, Capacities
<1>5. published < MIN_ARBITRATORS + Cardinality(barred')
      /\ seats_taken_total < MIN_ARBITRATORS + Cardinality(barred')
  BY <1>2, <1>3, <1>4, MaxOfTwo, Capacities
<1>6. /\ IsFiniteSet(Arbitrators) /\ IsFiniteSet(served)
      /\ Cardinality(Arbitrators) \in Nat /\ Cardinality(served) \in Nat
  BY <1>3, SetsFinite
<1>7. Arbitrators \cap barred' = barred' /\ served \cap barred' = barred'
  BY <1>2, <1>3
<1>8. /\ Cardinality(Arbitrators \ barred') = Cardinality(Arbitrators) - Cardinality(barred')
      /\ Cardinality(served \ barred') = Cardinality(served) - Cardinality(barred')
  <2>1. /\ Cardinality(Arbitrators \ barred')
             = Cardinality(Arbitrators) - Cardinality(Arbitrators \cap barred')
        /\ Cardinality(served \ barred')
             = Cardinality(served) - Cardinality(served \cap barred')
    BY <1>6, FS_Difference, ZenonT(60)
  <2> QED
    BY <1>7, <2>1
<1> QED
  BY <1>2, <1>3, <1>5, <1>6, <1>8, Capacities

\* What UndecidedRoundsMoveOn says of one step.
LEMMA StepMovesOn ==
  ASSUME RoundInv, CaseNext
  PROVE  /\ round' # round => Silent \subseteq barred'
         /\ EarlyExitJustified
         /\ WitnessesOutrankPublished
<1>1. ASSUME round' # round
      PROVE  Silent \subseteq barred'
  <2>1. PICK b \in SUBSET Arbitrators, pool \in {0, published} : HandleUndecidedRound(b, pool)
    BY <1>1, OnlyUndecidedRounds
  <2>2. /\ status = "open" /\ BarSilentSeats(b) /\ barred' = barred \cup b
        /\ round + 1 < MAX_DISPUTE_ROUNDS
    BY <1>1, <2>1, UndecidedForms
  <2> QED
    BY <2>2, BarredGrows
<1>2. ASSUME EndsEarly
      PROVE  /\ published >= Cardinality(Arbitrators) =>
                  Cardinality(Arbitrators \ barred') < MIN_ARBITRATORS
             /\ Cardinality(served \ barred') < MIN_ARBITRATORS
  <2>1. terminal_reason' # terminal_reason /\ terminal_reason' = "PoolExhausted"
    BY <1>2 DEF EndsEarly
  <2>2. PICK b \in SUBSET Arbitrators, pool \in {0, published} : HandleUndecidedRound(b, pool)
    BY <2>1, OnlyUndecidedRounds
  <2>3. ExhaustedRoundsReason # "PoolExhausted"
    BY DEF ExhaustedRoundsReason
  <2>4. ~NextRoundIsStaffable(pool)
    BY <2>1, <2>2, <2>3, UndecidedForms DEF ReopenRound, resultVars
  <2> QED
    BY <2>2, <2>4, PoolFloor
<1> QED
  BY <1>1, <1>2 DEF EarlyExitJustified, WitnessesOutrankPublished

\* For any number of arbitrators, seats and rounds: handle_undecided_round re-opens a case
\* only with every silent seat barred (bar_silent_seats never runs out of room before the
\* last round), and PoolFloor ends one early only when no quorum was left to draw from.
THEOREM UndecidedRoundsMoveOnHolds == CaseSpec => UndecidedRoundsMoveOn
<1>1. ASSUME RoundInv, [CaseNext]_caseVars
      PROVE  [/\ round' # round => Silent \subseteq barred'
              /\ EarlyExitJustified
              /\ WitnessesOutrankPublished]_caseVars
  BY <1>1, StepMovesOn
<1> QED
  BY <1>1, AlwaysRoundInv, PTL DEF CaseSpec, UndecidedRoundsMoveOn

\* The last second of a commit window of at least 8 seconds is open to every arbitrator,
\* whatever the draw and arbitrator_sortition_bps (qualifies_for_seat).
THEOREM LastSecondOpenHolds == CaseSpec => []LastSecondOpenToAll
<1>1. ASSUME RoundInv
      PROVE  LastSecondOpenToAll
  <2> SUFFICES ASSUME window.commit >= SORTITION_WIDENING_STEPS, elapsed = window.commit - 1,
                      NEW a \in Arbitrators
               PROVE  QualifiesForSeat(ticket[a], SortitionBps, window.commit, elapsed)
    BY DEF LastSecondOpenToAll
  <2>1. ticket[a] \in 0..(SORTITION_BPS_DENOMINATOR - 1)
    <3>1. ticket[a] \in Tickets \cup {0}
      BY <1>1 DEF RoundInv, RoundTypes
    <3>2. Tickets \subseteq 0..(SORTITION_BPS_DENOMINATOR - 1)
      BY DisputeAssumption
    <3>3. 0 \in 0..(SORTITION_BPS_DENOMINATOR - 1)
      BY DEF SORTITION_BPS_DENOMINATOR
    <3> QED
      BY <3>1, <3>2, <3>3, ZenonT(60)
  <2>2. window.commit \in Nat /\ SortitionBps \in Nat
    BY <1>1, Clocks, DisputeAssumption DEF RoundInv, SORTITION_BPS_DENOMINATOR
  <2>3. QualifiesForSeat(ticket[a], SortitionBps, window.commit, window.commit - 1)
    BY <2>1, <2>2, LastSecondOpen
  <2> QED
    BY <2>3
<1> QED
  BY <1>1, AlwaysRoundInv, PTL

-----------------------------------------------------------------------------
(* Weights                                                                 *)

\* The weight of a set of seats.
WeightOf(T) == SumFunctionOnSet([a \in Arbitrators |-> seat[a].weight], T)

\* The weight of a seat is a natural number.
LEMMA SeatWeight ==
  ASSUME RoundTypes, NEW a \in Arbitrators
  PROVE  seat[a].weight \in Nat
  BY DEF RoundTypes, SeatType

\* The weight of a set of seats is the sum of their weights, taken in any order.
LEMMA WeightOfSeats ==
  ASSUME RoundTypes, NEW T \in SUBSET Arbitrators
  PROVE  /\ WeightOf(T) \in Nat
         /\ WeightOf({}) = 0
         /\ \A a \in T : /\ WeightOf(T) = seat[a].weight + WeightOf(T \ {a})
                         /\ WeightOf(T \ {a}) \in Nat
<1> DEFINE f == [a \in Arbitrators |-> seat[a].weight]
<1>1. \A a \in Arbitrators : f[a] = seat[a].weight /\ f[a] \in Nat
  BY SeatWeight
<1>2. \A U : WeightOf(U) = SumFunctionOnSet(f, U)
  BY DEF WeightOf
<1> HIDE DEF f
<1>3. ASSUME NEW U \in SUBSET Arbitrators
      PROVE  SumFunctionOnSet(f, U) \in Nat
  <2>1. IsFiniteSet(U) /\ \A x \in U : f[x] \in Nat
    BY <1>1, SetsFinite
  <2> QED
    BY <2>1, SumNat
<1>4. ASSUME NEW a \in T
      PROVE  SumFunctionOnSet(f, T) = f[a] + SumFunctionOnSet(f, T \ {a})
  <2>1. IsFiniteSet(T) /\ \A x \in T : f[x] \in Int
    BY <1>1, SetsFinite
  <2> QED
    BY <2>1, SumTake
<1>5. SumFunctionOnSet(f, {}) = 0
  BY SumEmpty
<1>6. \A a \in T : T \ {a} \in SUBSET Arbitrators
  OBVIOUS
<1> QED
  BY <1>1, <1>2, <1>3, <1>4, <1>5, <1>6, ZenonT(60)

\* The seats whose counted vote is o.
VotedFor(o) == {b \in Counted : seat[b].vote = o}

\* What a verdict weighs is the weight of the seats that voted for it.
LEMMA WeightForVoted ==
  ASSUME RoundTypes, NEW o
  PROVE  /\ VotedFor(o) \in SUBSET Arbitrators
         /\ WeightFor(o) = WeightOf(VotedFor(o))
         /\ WeightFor(o) \in Nat
<1> DEFINE T == VotedFor(o)
           f == [a \in Arbitrators |-> seat[a].weight]
           g == [a \in T |-> seat[a].weight]
<1>1. T \in SUBSET Arbitrators
  BY DEF VotedFor, Counted, Seated
<1>2. WeightFor(o) = SumFunctionOnSet(g, T) /\ WeightOf(T) = SumFunctionOnSet(f, T)
  BY DEF WeightFor, WeightOf, VotedFor, SumFunction
<1>3. \A x \in T : f[x] = g[x]
  BY <1>1
<1>4. IsFiniteSet(T)
  BY <1>1, SetsFinite
<1> HIDE DEF T, f, g
<1>5. SumFunctionOnSet(f, T) = SumFunctionOnSet(g, T)
  BY <1>3, <1>4, SumAgree
<1>6. WeightOf(T) \in Nat
  BY <1>1, WeightOfSeats
<1> QED
  BY <1>1, <1>2, <1>5, <1>6 DEF T

\* A single leader outweighs every other verdict, and so has weight behind it.
LEMMA LeaderOutweighs ==
  ASSUME RoundTypes, NEW o \in Outcomes, Tally(o)
  PROVE  /\ \A p \in Outcomes \ {o} : WeightFor(p) < WeightFor(o)
         /\ WeightFor(o) \in Nat \ {0}
<1> DEFINE w(p) == WeightFor(p)
<1>1. \A p \in Outcomes : w(p) \in Nat
  BY WeightForVoted
<1>2. Leading = {o} /\ Leading = {q \in Outcomes : \A p \in Outcomes : w(p) <= w(q)}
  BY DEF Tally, Leading
<1> HIDE DEF w
<1>3. \A p \in Outcomes : w(p) <= w(o)
  BY <1>2
<1>4. ASSUME NEW p \in Outcomes \ {o}
      PROVE  w(p) < w(o)
  <2>1. p \notin Leading
    BY <1>2
  <2>2. PICK q \in Outcomes : ~(w(q) <= w(p))
    BY <1>2, <2>1
  <2> QED
    BY <1>1, <1>3, <2>2
<1>5. PICK p \in Outcomes \ {o} : TRUE
  <2>1. "BuyerWins" \in Outcomes /\ "MerchantWins" \in Outcomes
    BY DEF Outcomes
  <2> QED
    BY <2>1
<1>6. w(o) \in Nat \ {0}
  <2>1. w(p) < w(o)
    BY <1>4
  <2> QED
    BY <1>1, <2>1
<1> QED
  BY <1>4, <1>6 DEF w

-----------------------------------------------------------------------------
(* The inductive invariant                                                 *)

RewardType == [pool : Nat, remaining : Nat, weight : Nat,
               claimed : SUBSET Arbitrators, paid : [Arbitrators -> Nat]]

ResultTypes ==
  /\ outcome \in Outcomes \cup {"none"}
  /\ terminal_reason \in Reasons \cup {"none"}
  /\ reward \in RewardType

\* A case has a verdict, or was split, or neither, and only a verdict has a reward.
OneResult ==
  /\ status # "resolved" => outcome = "none" /\ terminal_reason = "none"
  /\ outcome # "none" => terminal_reason = "none"
  /\ outcome = "none" => reward = NoReward

\* What is left covers what the winners yet to claim are owed by weight; RewardsAddUp
\* alone is not inductive, as it does not bound the shares together.
Covered ==
  /\ reward.pool * WeightOf(Outstanding) <= reward.weight * reward.remaining
  /\ Outstanding = {} => reward.remaining = 0

\* The accounts of a decided case: who was paid, and that it adds up.
PaidDown ==
  /\ reward.weight = WeightFor(outcome) /\ reward.weight > 0
  /\ reward.pool > 0 => outcome = "BuyerWins"
  /\ reward.claimed \subseteq Winners
  /\ \A a \in Arbitrators \ reward.claimed : reward.paid[a] = 0
  /\ \A a \in reward.claimed : reward.paid[a] >= (reward.pool * seat[a].weight) \div reward.weight
  /\ reward.pool = reward.remaining + SumFunction(reward.paid)

ResultInv ==
  /\ ResultTypes
  /\ OneResult
  /\ VerdictIsQuorate
  /\ outcome # "none" => PaidDown /\ Covered

\* Nothing has been paid of no reward.
LEMMA NoRewardFields ==
  /\ NoReward \in RewardType
  /\ NoReward.pool = 0 /\ NoReward.remaining = 0 /\ NoReward.claimed = {}
  /\ NoReward.paid = [a \in Arbitrators |-> 0]
  /\ SumFunction(NoReward.paid) = 0
<1>1. NoReward.paid = [a \in Arbitrators |-> 0]
  BY DEF NoReward
<1>2. [a \in Arbitrators |-> 0] \in [Arbitrators -> Nat]
  OBVIOUS
<1>3. NoReward \in RewardType
  BY <1>2 DEF NoReward, RewardType
<1> DEFINE z == [a \in Arbitrators |-> 0]
<1>4. z \in [Arbitrators -> Int] /\ \A x \in Arbitrators : z[x] = 0
  OBVIOUS
<1>5. IsFiniteSet(Arbitrators)
  BY DisputeAssumption
<1> HIDE DEF z
<1>6. SumFunction(z) = 0
  BY <1>4, <1>5, SumFunctionZero
<1> QED
  BY <1>1, <1>3, <1>6 DEF NoReward, z

\* A step after which there is no verdict.
LEMMA NoVerdictStep ==
  ASSUME outcome' = "none", reward' = NoReward, terminal_reason' \in Reasons \cup {"none"},
         status' # "resolved" => terminal_reason' = "none"
  PROVE  ResultInv'
  BY NoRewardFields DEF ResultInv, ResultTypes, OneResult, VerdictIsQuorate

\* A step that leaves seats and result alone.
LEMMA SameResult ==
  ASSUME ResultInv, UNCHANGED <<seat, resultVars>>
  PROVE  ResultInv'
<1>1. UNCHANGED <<seat, status, outcome, terminal_reason, reward>>
  BY DEF resultVars
<1>2. ResultTypes' /\ OneResult'
  BY <1>1 DEF ResultInv, ResultTypes, OneResult
<1>3. Seated' = Seated
  BY <1>1 DEF Seated
<1>4. Counted' = Counted
  BY <1>1, <1>3 DEF Counted
<1>5. Winners' = Winners
  BY <1>1, <1>4 DEF Winners
<1>6. Outstanding' = Outstanding
  BY <1>1, <1>5 DEF Outstanding
<1>7. WeightOf(Outstanding)' = WeightOf(Outstanding)
  BY <1>1, <1>6 DEF WeightOf
<1>8. ASSUME NEW o PROVE WeightFor(o)' = WeightFor(o)
  BY <1>1, <1>4 DEF WeightFor
<1>9. VerdictIsQuorate'
  BY <1>1, <1>4, <1>8 DEF ResultInv, VerdictIsQuorate
<1>10. PaidDown => PaidDown'
  BY <1>1, <1>5, <1>8 DEF PaidDown
<1>11. Covered => Covered'
  BY <1>1, <1>6, <1>7 DEF Covered
<1> QED
  BY <1>1, <1>2, <1>9, <1>10, <1>11 DEF ResultInv

-----------------------------------------------------------------------------
(* A decision and a claim                                                  *)

\* The reward a decision records.
RewardDecided(k, w) == [NoReward EXCEPT !.pool = k, !.remaining = k, !.weight = w]

\* Its fields.
LEMMA DecidedReward ==
  ASSUME NEW k \in Nat, NEW w \in Nat
  PROVE  LET r == RewardDecided(k, w) IN
         /\ r \in RewardType /\ r.pool = k /\ r.remaining = k /\ r.weight = w
         /\ r.claimed = {} /\ r.paid = [a \in Arbitrators |-> 0]
         /\ SumFunction(r.paid) = 0
<1> DEFINE r == RewardDecided(k, w)
<1>1. r.paid = NoReward.paid /\ r.claimed = {} /\ r.pool = k /\ r.remaining = k /\ r.weight = w
  BY DEF NoReward, RewardDecided
<1>2. r \in RewardType
  BY NoRewardFields, ZenonT(60) DEF RewardType, RewardDecided
<1> QED
  BY <1>1, <1>2, NoRewardFields

\* A decision records a quorate verdict, with the whole deposit to pay.
LEMMA DecideResultInv ==
  ASSUME RoundInv, ResultInv, NEW o \in Outcomes, NEW d \in Deposits, DecideRound(o, d)
  PROVE  ResultInv'
<1> DEFINE k == IF o = "BuyerWins" THEN d ELSE 0
           w == WeightFor(o)
<1>1. /\ status = "open" /\ Tally(o) /\ status' = "resolved" /\ outcome' = o
      /\ reward' = RewardDecided(k, w)
      /\ UNCHANGED <<seat, terminal_reason>>
  BY DEF DecideRound, roundVars, RewardDecided
<1>2. k \in Nat /\ (k > 0 => o = "BuyerWins")
  BY DisputeAssumption
<1>3. /\ \A p \in Outcomes \ {o} : WeightFor(p) < WeightFor(o)
      /\ w \in Nat \ {0}
  BY <1>1, LeaderOutweighs DEF RoundInv
<1>4. o # "none" /\ terminal_reason = "none"
  BY <1>1 DEF Outcomes, ResultInv, OneResult
<1>5. WeightFor(o) = WeightOf(VotedFor(o)) /\ VotedFor(o) \in SUBSET Arbitrators
  BY WeightForVoted DEF RoundInv
<1> HIDE DEF k, w
<1>6. /\ reward' \in RewardType /\ reward'.pool = k /\ reward'.remaining = k
      /\ reward'.weight = w /\ reward'.claimed = {}
      /\ reward'.paid = [a \in Arbitrators |-> 0] /\ SumFunction(reward'.paid) = 0
  <2>1. k \in Nat /\ w \in Nat
    BY <1>2, <1>3
  <2> QED
    BY <1>1, <2>1, DecidedReward, ZenonT(60)
<1>7. ResultTypes' /\ OneResult'
  BY <1>1, <1>4, <1>6 DEF ResultInv, ResultTypes, OneResult
<1>8. Seated' = Seated
  BY <1>1 DEF Seated
<1>9. Counted' = Counted
  BY <1>1, <1>8 DEF Counted
<1>10. ASSUME NEW p PROVE WeightFor(p)' = WeightFor(p)
  BY <1>1, <1>9 DEF WeightFor
<1>11. VerdictIsQuorate'
  BY <1>1, <1>3, <1>9, <1>10 DEF VerdictIsQuorate, Tally
<1>12. Winners' = VotedFor(o) /\ Outstanding' = VotedFor(o)
  <2>1. Winners' = VotedFor(o)
    BY <1>1, <1>9 DEF Winners, VotedFor
  <2> QED
    BY <1>6, <2>1 DEF Outstanding
<1>13. WeightOf(Outstanding)' = w
  <2>1. WeightOf(Outstanding)' = WeightOf(VotedFor(o))
    BY <1>1, <1>12 DEF WeightOf
  <2> QED
    BY <1>5, <2>1 DEF w
<1>14. PaidDown'
  <2>1. reward'.weight = WeightFor(outcome)' /\ reward'.weight > 0
    BY <1>1, <1>3, <1>6, <1>10 DEF w
  <2>2. reward'.pool > 0 => outcome' = "BuyerWins"
    BY <1>1, <1>2, <1>6
  <2>3. \A a \in Arbitrators \ reward'.claimed : reward'.paid[a] = 0
    BY <1>6
  <2>4. reward'.pool = reward'.remaining + SumFunction(reward'.paid)
    BY <1>2, <1>6
  <2> QED
    BY <1>6, <2>1, <2>2, <2>3, <2>4 DEF PaidDown
<1>15. Covered'
  <2>1. reward'.pool * WeightOf(Outstanding)' <= reward'.weight * reward'.remaining
    BY <1>2, <1>3, <1>6, <1>13
  <2>2. Outstanding' # {}
    <3>1. WeightOf({}) = 0
      BY <1>5, WeightOfSeats DEF RoundInv
    <3> QED
      BY <1>3, <1>5, <1>12, <3>1 DEF w
  <2> QED
    BY <2>1, <2>2 DEF Covered
<1> QED
  BY <1>7, <1>11, <1>14, <1>15 DEF ResultInv

\* Rounding down: a share is never more than the remainder covers, and taking it leaves
\* the others' shares covered.
LEMMA ShareCovered ==
  ASSUME NEW k \in Nat, NEW rem \in Nat, NEW w \in Nat, NEW total \in Nat \ {0},
         NEW rest \in Nat, k * (w + rest) <= total * rem
  PROVE  LET share == (k * w) \div total IN
         /\ share \in Nat /\ share <= rem
         /\ k * rest <= total * (rem - share)
<1> DEFINE q == (k * w) \div total
<1>1. k * w \in Nat /\ k * rest \in Nat /\ total * rem \in Nat
  OBVIOUS
<1>2. k * (w + rest) = k * w + k * rest
  OBVIOUS
<1>3. q \in Nat /\ total * q <= k * w
  BY <1>1
<1> HIDE DEF q
<1>4. total * (rem - q) = total * rem - total * q
  BY <1>3
<1>5. total * q \in Nat
  BY <1>3
<1>6. k * rest <= total * (rem - q)
  BY <1>1, <1>2, <1>3, <1>4, <1>5
<1>7. q <= rem
  <2>1. ASSUME q > rem PROVE FALSE
    <3>1. q = rem + 1 + (q - rem - 1) /\ q - rem - 1 \in Nat
      BY <1>3, <2>1
    <3>2. total * q = total * rem + total + total * (q - rem - 1)
      BY <1>3, <3>1
    <3>3. total * (q - rem - 1) \in Nat
      BY <3>1
    <3> QED
      BY <1>1, <1>2, <1>3, <1>5, <3>2, <3>3
  <2> QED
    BY <1>3, <2>1
<1> QED
  BY <1>3, <1>6, <1>7 DEF q

\* While a winner has not claimed, there is something left for it.
LEMMA SomethingLeft ==
  ASSUME NEW k \in Nat \ {0}, NEW rem \in Nat, NEW w \in Nat \ {0}, NEW total \in Nat \ {0},
         NEW rest \in Nat, k * (w + rest) <= total * rem
  PROVE  rem > 0
<1>1. w + rest \in Nat \ {0}
  OBVIOUS
<1>2. \A x, y \in Nat \ {0} : x * y > 0
  OBVIOUS
<1>3. k * (w + rest) > 0
  BY <1>1, <1>2
<1>4. total * 0 = 0
  OBVIOUS
<1> QED
  BY <1>3, <1>4

\* The share of an outstanding winner, in a decided case.
LEMMA OutstandingShare ==
  ASSUME RoundInv, ResultInv, outcome # "none", NEW a \in Outstanding
  PROVE  LET share == (reward.pool * seat[a].weight) \div reward.weight IN
         /\ a \in Arbitrators /\ a \notin reward.claimed
         /\ Outstanding \in SUBSET Arbitrators
         /\ share \in Nat /\ share <= reward.remaining
         /\ reward.pool * WeightOf(Outstanding \ {a}) <= reward.weight * (reward.remaining - share)
         /\ reward.pool > 0 => reward.remaining > 0
<1> DEFINE w == seat[a].weight
           rest == WeightOf(Outstanding \ {a})
<1>1. /\ a \in Arbitrators /\ a \notin reward.claimed /\ w > 0
      /\ Outstanding \in SUBSET Arbitrators
  BY DEF Outstanding, Winners, Counted, Seated
<1>2. WeightOf(Outstanding) = w + rest /\ rest \in Nat /\ w \in Nat
  BY <1>1, WeightOfSeats, SeatWeight DEF RoundInv
<1>3. reward.pool \in Nat /\ reward.remaining \in Nat /\ reward.weight \in Nat \ {0}
  BY DEF ResultInv, ResultTypes, RewardType, PaidDown
<1>4. reward.pool * (w + rest) <= reward.weight * reward.remaining
  BY <1>2 DEF ResultInv, Covered
<1> HIDE DEF w, rest
<1>5. LET share == (reward.pool * w) \div reward.weight IN
      /\ share \in Nat /\ share <= reward.remaining
      /\ reward.pool * rest <= reward.weight * (reward.remaining - share)
  BY <1>2, <1>3, <1>4, ShareCovered
<1>6. reward.pool > 0 => reward.remaining > 0
  BY <1>1, <1>2, <1>3, <1>4, SomethingLeft
<1> QED
  BY <1>1, <1>5, <1>6 DEF w, rest

\* What a claim pays: at least the share, at most what is left, all of it if it is the last.
LEMMA ClaimAmount ==
  ASSUME RoundInv, ResultInv, outcome # "none", NEW a \in Outstanding
  PROVE  LET share == (reward.pool * seat[a].weight) \div reward.weight IN
         /\ RewardAmount(a) \in Nat /\ RewardAmount(a) <= reward.remaining
         /\ RewardAmount(a) >= share
         /\ \/ Outstanding = {a} /\ RewardAmount(a) = reward.remaining
            \/ Outstanding \ {a} # {} /\ RewardAmount(a) = share
<1> DEFINE share == (reward.pool * seat[a].weight) \div reward.weight
<1>1. /\ share \in Nat /\ share <= reward.remaining /\ Outstanding \in SUBSET Arbitrators
  BY OutstandingShare, ZenonT(60)
<1>2. reward.remaining \in Nat /\ reward.weight \in Nat \ {0}
  BY DEF ResultInv, ResultTypes, RewardType, PaidDown
<1>3. Max({reward.weight, 1}) = reward.weight
  BY <1>2, MaxOfTwo
<1>4. ProRata(a) = share
  BY <1>3 DEF ProRata
<1> HIDE DEF share
<1>5. Min({ProRata(a), reward.remaining}) = share
  BY <1>1, <1>2, <1>4, MinOfTwo
<1>6. IsFiniteSet(Outstanding) /\ Cardinality(Outstanding) \in Nat
  BY <1>1, SetsFinite
<1>7. CASE Cardinality(Outstanding) <= 1
  <2>1. Outstanding = {a}
    <3>1. {a} \in SUBSET Outstanding /\ Cardinality({a}) = 1
      BY FS_Singleton
    <3>2. Cardinality({a}) = Cardinality(Outstanding) => {a} = Outstanding
      BY <1>6, <3>1, FS_Subset
    <3>3. Cardinality({a}) <= Cardinality(Outstanding)
      BY <1>6, <3>1, FS_Subset
    <3> QED
      BY <1>6, <1>7, <3>1, <3>2, <3>3
  <2>2. RewardAmount(a) = reward.remaining
    BY <1>7 DEF RewardAmount
  <2> QED
    BY <1>1, <1>2, <2>1, <2>2 DEF share
<1>8. CASE ~(Cardinality(Outstanding) <= 1)
  <2>1. Outstanding \ {a} # {}
    <3>1. ASSUME Outstanding \ {a} = {} PROVE FALSE
      <4>1. Outstanding = {a}
        BY <3>1
      <4>2. Cardinality({a}) = 1
        BY FS_Singleton, ZenonT(60)
      <4> QED
        BY <1>8, <4>1, <4>2
    <3> QED
      BY <3>1
  <2>2. RewardAmount(a) = share
    BY <1>5, <1>8 DEF RewardAmount
  <2> QED
    BY <1>1, <1>2, <2>1, <2>2 DEF share
<1> QED
  BY <1>7, <1>8

\* The reward a claim of n by a leaves.
RewardClaimed(a, n) ==
  [reward EXCEPT !.remaining = @ - n, !.claimed = @ \cup {a}, !.paid[a] = n]

\* Its fields.
LEMMA ClaimedReward ==
  ASSUME reward \in RewardType, NEW a \in Arbitrators, reward.paid[a] = 0,
         NEW n \in Nat, n <= reward.remaining
  PROVE  LET r == RewardClaimed(a, n) IN
         /\ r \in RewardType
         /\ r.pool = reward.pool /\ r.weight = reward.weight
         /\ r.remaining = reward.remaining - n
         /\ r.claimed = reward.claimed \cup {a}
         /\ r.paid[a] = n
         /\ \A x \in Arbitrators : x # a => r.paid[x] = reward.paid[x]
         /\ SumFunction(r.paid) = SumFunction(reward.paid) + n
         /\ SumFunction(reward.paid) \in Nat
<1> DEFINE r == RewardClaimed(a, n)
<1>0. /\ reward.paid \in [Arbitrators -> Nat] /\ reward.remaining - n \in Nat
      /\ reward.claimed \in SUBSET Arbitrators
  BY DEF RewardType
<1>1. /\ r.pool = reward.pool /\ r.weight = reward.weight
      /\ r.remaining = reward.remaining - n /\ r.claimed = reward.claimed \cup {a}
      /\ r.paid = [reward.paid EXCEPT ![a] = n]
  BY DEF RewardType, RewardClaimed
<1> HIDE DEF r
<1>2. r.paid \in [Arbitrators -> Nat]
  BY <1>0, <1>1
<1>3. r \in RewardType
  <2>1. [reward.paid EXCEPT ![a] = n] \in [Arbitrators -> Nat]
    BY <1>0
  <2>2. reward.claimed \cup {a} \in SUBSET Arbitrators
    BY <1>0
  <2> QED
    BY <1>0, <2>1, <2>2, ZenonT(60) DEF RewardType, RewardClaimed, r
<1>4. r.paid[a] = n /\ \A x \in Arbitrators : x # a => r.paid[x] = reward.paid[x]
  BY <1>0, <1>1
<1> DEFINE f == reward.paid
           g == r.paid
<1>5. f \in [Arbitrators -> Nat] /\ g \in [Arbitrators -> Nat]
  BY <1>0, <1>2
<1>6. \A x \in Arbitrators : x # a => g[x] = f[x]
  BY <1>4
<1>7. IsFiniteSet(Arbitrators)
  BY DisputeAssumption
<1>8. g[a] = n /\ f[a] = 0
  BY <1>4
<1> HIDE DEF f, g
<1>9. f \in [Arbitrators -> Int] /\ g \in [Arbitrators -> Int]
  BY <1>5
<1>10. SumFunction(g) = SumFunction(f) + (g[a] - f[a])
  BY <1>6, <1>7, <1>9, SumFunctionChange
<1>11. SumFunction(f) \in Nat
  BY <1>5, <1>7, SumFunctionType
<1>12. SumFunction(g) = SumFunction(f) + n
  BY <1>8, <1>10, <1>11
<1> QED
  BY <1>1, <1>3, <1>4, <1>11, <1>12 DEF f, g, r

\* A claim pays a winner once, and leaves the shares of the others covered.
LEMMA ClaimResultInv ==
  ASSUME RoundInv, ResultInv, NEW a \in Arbitrators, ClaimArbitrationReward(a)
  PROVE  /\ ResultInv'
         /\ status = "resolved" /\ outcome = "BuyerWins" /\ terminal_reason = "none"
         /\ reward'.remaining \in 0..reward.remaining
<1> DEFINE n == RewardAmount(a)
           share == (reward.pool * seat[a].weight) \div reward.weight
<1>1. /\ status = "resolved" /\ outcome # "none" /\ reward.remaining > 0 /\ a \in Outstanding
      /\ reward' = RewardClaimed(a, n)
      /\ UNCHANGED <<seat, status, outcome, terminal_reason>>
  BY DEF ClaimArbitrationReward, roundVars, RewardClaimed
<1>2. /\ n \in Nat /\ n <= reward.remaining /\ n >= share
      /\ \/ Outstanding = {a} /\ n = reward.remaining
         \/ Outstanding \ {a} # {} /\ n = share
  BY <1>1, ClaimAmount
<1>3. /\ a \notin reward.claimed /\ Outstanding \in SUBSET Arbitrators /\ share \in Nat
      /\ reward.pool * WeightOf(Outstanding \ {a})
           <= reward.weight * (reward.remaining - share)
  BY <1>1, OutstandingShare, ZenonT(60)
<1>4. ResultTypes /\ OneResult /\ VerdictIsQuorate /\ PaidDown /\ Covered
  BY <1>1 DEF ResultInv
<1>5. reward \in RewardType /\ reward.paid[a] = 0
  BY <1>3, <1>4 DEF ResultTypes, PaidDown
<1> HIDE DEF n, share
<1>6. /\ reward' \in RewardType
      /\ reward'.pool = reward.pool /\ reward'.weight = reward.weight
      /\ reward'.remaining = reward.remaining - n
      /\ reward'.claimed = reward.claimed \cup {a}
      /\ reward'.paid[a] = n
      /\ \A x \in Arbitrators : x # a => reward'.paid[x] = reward.paid[x]
      /\ SumFunction(reward'.paid) = SumFunction(reward.paid) + n
      /\ SumFunction(reward.paid) \in Nat
  <2>1. n \in Nat /\ n <= reward.remaining /\ reward' = RewardClaimed(a, n)
    BY <1>1, <1>2, ZenonT(60)
  <2> DEFINE r == RewardClaimed(a, n)
  <2>2. /\ r \in RewardType
        /\ r.pool = reward.pool /\ r.weight = reward.weight
        /\ r.remaining = reward.remaining - n
        /\ r.claimed = reward.claimed \cup {a}
        /\ r.paid[a] = n
        /\ \A x \in Arbitrators : x # a => r.paid[x] = reward.paid[x]
        /\ SumFunction(r.paid) = SumFunction(reward.paid) + n
        /\ SumFunction(reward.paid) \in Nat
    BY <1>5, <2>1, ClaimedReward
  <2> QED
    BY <2>1, <2>2, ZenonT(60)
<1>7. /\ reward.pool \in Nat /\ reward.remaining \in Nat /\ reward.weight \in Nat
      /\ reward.claimed \in SUBSET Arbitrators
  BY <1>5 DEF RewardType
<1>8. reward.pool > 0
  BY <1>1, <1>4, <1>6, <1>7 DEF PaidDown
<1>9. ResultTypes' /\ OneResult'
  BY <1>1, <1>4, <1>6 DEF ResultTypes, OneResult
<1>10. Seated' = Seated
  BY <1>1 DEF Seated
<1>11. Counted' = Counted
  BY <1>1, <1>10 DEF Counted
<1>12. Winners' = Winners
  BY <1>1, <1>11 DEF Winners
<1>13. Outstanding' = Outstanding \ {a}
  BY <1>6, <1>12 DEF Outstanding
<1>14. ASSUME NEW o PROVE WeightFor(o)' = WeightFor(o)
  BY <1>1, <1>11 DEF WeightFor
<1>15. VerdictIsQuorate'
  BY <1>1, <1>4, <1>11, <1>14 DEF VerdictIsQuorate
<1>16. PaidDown'
  <2>1. reward'.weight = WeightFor(outcome)' /\ reward'.weight > 0
    BY <1>1, <1>4, <1>6, <1>14 DEF PaidDown
  <2>2. reward'.pool > 0 => outcome' = "BuyerWins"
    BY <1>1, <1>4, <1>6 DEF PaidDown
  <2>3. reward'.claimed \subseteq Winners'
    BY <1>1, <1>4, <1>6, <1>12 DEF PaidDown, Outstanding
  <2>4. \A x \in Arbitrators \ reward'.claimed : reward'.paid[x] = 0
    BY <1>4, <1>6 DEF PaidDown
  <2>5. \A x \in reward'.claimed :
          reward'.paid[x] >= (reward'.pool * seat'[x].weight) \div reward'.weight
    <3>1. ASSUME NEW x \in reward.claimed
          PROVE  reward'.paid[x] >= (reward'.pool * seat'[x].weight) \div reward'.weight
      <4>1. reward'.paid[x] = reward.paid[x]
        BY <1>3, <1>6, <1>7
      <4> QED
        BY <1>1, <1>4, <1>6, <4>1 DEF PaidDown
    <3>2. reward'.paid[a] >= (reward'.pool * seat'[a].weight) \div reward'.weight
      BY <1>1, <1>2, <1>6 DEF share
    <3> QED
      BY <1>6, <3>1, <3>2
  <2>6. reward'.pool = reward'.remaining + SumFunction(reward'.paid)
    BY <1>2, <1>4, <1>6, <1>7 DEF PaidDown
  <2> QED
    BY <2>1, <2>2, <2>3, <2>4, <2>5, <2>6 DEF PaidDown
<1>17. Covered'
  <2>1. WeightOf(Outstanding)' = WeightOf(Outstanding \ {a})
    BY <1>1, <1>13 DEF WeightOf
  <2>2. CASE Outstanding = {a} /\ n = reward.remaining
    <3>1. Outstanding \ {a} = {} /\ reward'.remaining = 0
      BY <1>6, <1>7, <2>2
    <3>2. WeightOf({}) = 0
      BY <1>3, WeightOfSeats DEF RoundInv
    <3>3. reward.pool * 0 = 0 /\ reward.weight * 0 = 0
      BY <1>7
    <3>4. Outstanding' = {} /\ WeightOf(Outstanding)' = 0
      BY <1>13, <2>1, <3>1, <3>2
    <3>5. reward'.pool * WeightOf(Outstanding)' <= reward'.weight * reward'.remaining
      BY <1>6, <1>7, <3>1, <3>3, <3>4
    <3> QED
      BY <3>1, <3>4, <3>5 DEF Covered
  <2>3. CASE Outstanding \ {a} # {} /\ n = share
    BY <1>3, <1>6, <1>13, <2>1, <2>3 DEF Covered
  <2> QED
    BY <1>2, <2>2, <2>3
<1>18. outcome = "BuyerWins" /\ terminal_reason = "none"
  BY <1>1, <1>4, <1>8 DEF PaidDown, OneResult
<1>19. reward'.remaining \in 0..reward.remaining
  BY <1>2, <1>6, <1>7
<1> QED
  BY <1>1, <1>9, <1>15, <1>16, <1>17, <1>18, <1>19 DEF ResultInv

-----------------------------------------------------------------------------
(* Every step                                                              *)

\* The five things a step can mean for the result of a case.
LEMMA StepsOfResult ==
  ASSUME RoundInv, CaseNext
  PROVE  \/ /\ UNCHANGED resultVars
            /\ status = "resolved" => UNCHANGED <<round, seat, barred>>
         \/ /\ status = "none" /\ status' = "open"
            /\ UNCHANGED <<outcome, terminal_reason, reward>>
         \/ \E o \in Outcomes, d \in Deposits : DecideRound(o, d)
         \/ /\ status = "open" /\ status' = "resolved" /\ terminal_reason' \in Reasons
            /\ UNCHANGED <<outcome, reward>>
         \/ \E a \in Arbitrators : ClaimArbitrationReward(a)
<1> DEFINE Aside == /\ UNCHANGED resultVars
                    /\ status = "resolved" => UNCHANGED <<round, seat, barred>>
           Opens == /\ status = "none" /\ status' = "open"
                    /\ UNCHANGED <<outcome, terminal_reason, reward>>
           Splits == /\ status = "open" /\ status' = "resolved" /\ terminal_reason' \in Reasons
                     /\ UNCHANGED <<outcome, reward>>
<1>1. ASSUME NEW cw \in CommitWindows, NEW rw \in RevealWindows, OpenDisputeCase(cw, rw)
      PROVE  Opens
  BY <1>1 DEF OpenDisputeCase
<1>2. ASSUME NEW a \in Arbitrators, NEW vote \in Votes, CommitDisputeVote(a, vote)
      PROVE  Aside
  BY <1>2, CommitRoundInv, ZenonT(60) DEF CommitDisputeVote
<1>3. ASSUME NEW a \in Arbitrators, RevealDisputeVote(a)
      PROVE  Aside
  BY <1>3, RevealRoundInv, ZenonT(60) DEF RevealDisputeVote
<1>4. ASSUME NEW b \in SUBSET Arbitrators, NEW pool \in {0, published},
             HandleUndecidedRound(b, pool)
      PROVE  Aside \/ Splits
  <2>1. ExhaustedRoundsReason \in Reasons /\ "PoolExhausted" \in Reasons
    BY DEF ExhaustedRoundsReason, Reasons
  <2> QED
    BY <1>4, <2>1, UndecidedForms DEF ReopenRound
<1>5. ASSUME NEW n \in PoolSizes, PublishArbitratorPoolSize(n)
      PROVE  Aside
  BY <1>5 DEF PublishArbitratorPoolSize, roundVars
<1>6. ASSUME NEW a \in Restakers, StakeChanges(a)
      PROVE  Aside
  BY <1>6 DEF StakeChanges, roundVars
<1>7. ASSUME Tick PROVE Aside
  BY <1>7 DEF Tick
<1>8. ASSUME NEW t \in StoredTreasuries, UpdateFeeConfig(t)
      PROVE  Aside
  BY <1>8 DEF UpdateFeeConfig, roundVars
<1> QED
  BY <1>1, <1>2, <1>3, <1>4, <1>5, <1>6, <1>7, <1>8 DEF CaseNext, ExecuteDisputeOutcome

\* The initial states have no result.
LEMMA InitResultInv == CaseInit => ResultInv
  BY NoRewardFields DEF CaseInit, ResultInv, ResultTypes, OneResult, VerdictIsQuorate

\* Every step keeps ResultInv.
LEMMA NextResultInv ==
  ASSUME RoundInv, ResultInv, [CaseNext]_caseVars
  PROVE  ResultInv'
<1>1. ASSUME status # "resolved", status' # "resolved",
             UNCHANGED <<outcome, terminal_reason, reward>>
      PROVE  ResultInv'
  BY <1>1, NoVerdictStep DEF ResultInv, OneResult
<1>2. ASSUME UNCHANGED resultVars, status = "resolved" => UNCHANGED seat
      PROVE  ResultInv'
  <2>1. CASE status = "resolved"
    BY <1>2, <2>1, SameResult
  <2>2. CASE status # "resolved"
    BY <1>1, <1>2, <2>2 DEF resultVars
  <2> QED
    BY <2>1, <2>2
<1>3. ASSUME status = "none", status' = "open", UNCHANGED <<outcome, terminal_reason, reward>>
      PROVE  ResultInv'
  BY <1>1, <1>3
<1>4. ASSUME NEW o \in Outcomes, NEW d \in Deposits, DecideRound(o, d)
      PROVE  ResultInv'
  BY <1>4, DecideResultInv
<1>5. ASSUME status = "open", status' = "resolved", terminal_reason' \in Reasons,
             UNCHANGED <<outcome, reward>>
      PROVE  ResultInv'
  BY <1>5, NoVerdictStep DEF ResultInv, OneResult
<1>6. ASSUME NEW a \in Arbitrators, ClaimArbitrationReward(a)
      PROVE  ResultInv'
  BY <1>6, ClaimResultInv
<1>7. ASSUME UNCHANGED caseVars PROVE ResultInv'
  BY <1>2, <1>7 DEF caseVars, roundVars
<1> QED
  BY <1>2, <1>3, <1>4, <1>5, <1>6, <1>7, StepsOfResult

\* RoundInv and ResultInv are invariants together.
LEMMA AlwaysResultInv == CaseSpec => [](RoundInv /\ ResultInv)
  BY InitRoundInv, InitResultInv, NextRoundInv, NextResultInv, PTL DEF CaseSpec

-----------------------------------------------------------------------------
(* The theorems                                                            *)

\* Every account of a case keeps its type and its capacity, and no wallet that went silent
\* sits again while the case is open (commit_dispute_vote, bar_silent_seats).
THEOREM BarredNeverSitHolds == CaseSpec => []BarredNeverSit
<1>1. ASSUME RoundInv, ResultInv
      PROVE  BarredNeverSit
  <2>1. CaseTypeOK
    BY <1>1 DEF RoundInv, RoundTypes, Witnessed, ResultInv, ResultTypes, RewardType, CaseTypeOK
  <2>2. status = "open" => Seated \cap barred = {}
    BY <1>1 DEF RoundInv, Witnessed
  <2> QED
    BY <2>1, <2>2 DEF BarredNeverSit
<1> QED
  BY <1>1, AlwaysResultInv, PTL

\* A verdict of execute_dispute_outcome was voted by a quorum of seats with stake behind
\* them and outweighs every other one, for every stake and every number of seats.
THEOREM VerdictIsQuorateHolds == CaseSpec => []VerdictIsQuorate
<1>1. ResultInv => VerdictIsQuorate
  BY DEF ResultInv
<1> QED
  BY <1>1, AlwaysResultInv, PTL

\* claim_arbitration_reward pays out the forfeited deposit exactly, in every order of the
\* claims and however the shares round: no winner gets less than its share, and the last
\* leaves nothing behind.
THEOREM RewardsAddUpHolds == CaseSpec => []RewardsAddUp
<1>1. ASSUME RoundInv, ResultInv
      PROVE  RewardsAddUp
  <2> DEFINE share(a) == (reward.pool * seat[a].weight) \div reward.weight
             slashed == ComputeSlashed(seat, outcome)
  <2>1. CASE outcome = "none"
    <3>1. reward = NoReward
      BY <1>1, <2>1 DEF ResultInv, OneResult
    <3> QED
      BY <2>1, <3>1, NoRewardFields DEF RewardsAddUp
  <2>2. CASE outcome # "none"
    <3>1. PaidDown /\ Covered /\ reward \in RewardType
      BY <1>1, <2>2 DEF ResultInv, ResultTypes
    <3>2. reward.pool = reward.remaining + SumFunction(reward.paid)
      BY <3>1 DEF PaidDown
    <3>3. Outstanding = {} => reward.remaining = 0
      BY <3>1 DEF Covered
    <3>4. \A a \in reward.claimed : reward.paid[a] >= share(a)
      BY <3>1 DEF PaidDown
    <3>5. ASSUME reward.pool > 0, NEW a \in Outstanding
          PROVE  reward.remaining > 0 /\ reward.remaining >= share(a)
      <4>1. share(a) \in Nat /\ share(a) <= reward.remaining /\ reward.remaining > 0
        BY <1>1, <2>2, <3>5, OutstandingShare, ZenonT(60)
      <4>2. reward.remaining \in Nat
        BY <3>1 DEF RewardType
      <4> QED
        BY <4>1, <4>2
    <3>6. DOMAIN seat = Arbitrators
      BY <1>1 DEF RoundInv, RoundTypes
    <3>7. slashed = {a \in Arbitrators : seat[a].taken /\ seat[a].revealed /\ seat[a].vote # outcome}
      BY <2>2, <3>6 DEF ComputeSlashed
    <3>8. reward.claimed \cup Outstanding = Winners
      BY <3>1 DEF PaidDown, Outstanding
    <3> HIDE DEF slashed
    <3>9. Counted \subseteq Winners \cup slashed
      BY <3>7 DEF Winners, Counted, Seated
    <3>10. Winners \cup slashed \subseteq Seated \ Silent
      BY <3>7 DEF Winners, Counted, Seated, Silent
    <3>11. Winners \cap slashed = {}
      BY <3>7 DEF Winners
    <3>12. /\ Counted \subseteq reward.claimed \cup Outstanding \cup slashed
           /\ reward.claimed \cup Outstanding \cup slashed \subseteq Seated \ Silent
           /\ (reward.claimed \cup Outstanding) \cap slashed = {}
      BY <3>8, <3>9, <3>10, <3>11
    <3> QED
      BY <3>2, <3>3, <3>4, <3>5, <3>12 DEF RewardsAddUp, slashed
  <2> QED
    BY <2>1, <2>2
<1> QED
  BY <1>1, AlwaysResultInv, PTL

\* What one step is to the abstract service.
LEMMA NextImplements ==
  ASSUME RoundInv, ResultInv, CaseNext
  PROVE  Arbitration!ArbitrationStep /\ ResolvedIsFinal
<1> DEFINE v == IF terminal_reason = "none" THEN outcome ELSE "TerminalSplit"
<1> USE DEF Arbitration!ArbitrationStep, Arbitration!arbitrationVars, Arbitration!ArbitrationNext
<1>1. CASE UNCHANGED resultVars /\ (status = "resolved" => UNCHANGED <<round, seat, barred>>)
  BY <1>1 DEF resultVars, ResolvedIsFinal
<1>2. CASE status = "none" /\ status' = "open" /\ UNCHANGED <<outcome, terminal_reason, reward>>
  BY <1>2 DEF ResolvedIsFinal, Arbitration!OpenCase
<1>3. ASSUME NEW o \in Outcomes, NEW d \in Deposits, DecideRound(o, d)
      PROVE  Arbitration!ArbitrationStep /\ ResolvedIsFinal
  <2> DEFINE k == IF o = "BuyerWins" THEN d ELSE 0
  <2>1. /\ status = "open" /\ status' = "resolved" /\ outcome' = o
        /\ reward'.remaining = k /\ terminal_reason' = terminal_reason
    BY <1>3 DEF DecideRound, NoReward
  <2>2. terminal_reason = "none" /\ k \in Nat
    BY <2>1, DisputeAssumption DEF ResultInv, OneResult
  <2>3. o \in Arbitration!PossibleVerdicts
    BY DEF Arbitration!PossibleVerdicts, Outcomes
  <2>4. Arbitration!Resolve(o)
    BY <2>1, <2>2 DEF Arbitration!Resolve
  <2> QED
    BY <2>1, <2>3, <2>4 DEF ResolvedIsFinal
<1>4. CASE /\ status = "open" /\ status' = "resolved" /\ terminal_reason' \in Reasons
           /\ UNCHANGED <<outcome, reward>>
  <2>1. reward.remaining = 0
    BY <1>4, NoRewardFields DEF ResultInv, OneResult
  <2>2. terminal_reason' # "none"
    BY <1>4 DEF Reasons
  <2>3. Arbitration!Resolve("TerminalSplit")
    BY <1>4, <2>1, <2>2 DEF Arbitration!Resolve
  <2>4. "TerminalSplit" \in Arbitration!PossibleVerdicts
    BY DEF Arbitration!PossibleVerdicts
  <2> QED
    BY <1>4, <2>3, <2>4 DEF ResolvedIsFinal
<1>5. ASSUME NEW a \in Arbitrators, ClaimArbitrationReward(a)
      PROVE  Arbitration!ArbitrationStep /\ ResolvedIsFinal
  <2>1. /\ status = "resolved" /\ outcome = "BuyerWins" /\ terminal_reason = "none"
        /\ reward'.remaining \in 0..reward.remaining
    BY <1>5, ClaimResultInv
  <2>2. UNCHANGED <<status, outcome, terminal_reason, round, seat, barred>>
    BY <1>5 DEF ClaimArbitrationReward, roundVars
  <2>3. reward.remaining \in Nat
    BY DEF ResultInv, ResultTypes, RewardType
  <2>4. reward'.remaining = reward.remaining \/ reward'.remaining \in 0..(reward.remaining - 1)
    BY <2>1, <2>3
  <2>5. Arbitration!ArbitrationStep
    BY <2>1, <2>2, <2>4 DEF Arbitration!PayArbitrator
  <2> QED
    BY <2>2, <2>5 DEF ResolvedIsFinal
<1> QED
  BY <1>1, <1>2, <1>3, <1>4, <1>5, StepsOfResult

\* A case implements the abstract arbitration service: its initial states map to initial
\* states, every step to a step or a stutter, and a resolved case is never voted on, re-opened
\* or decided again.
THEOREM CaseImplementsArbitration ==
  /\ CaseSpec => Arbitration!ArbitrationSpec
  /\ CaseSpec => ImplementsArbitration
<1>1. CaseInit => Arbitration!ArbitrationInit
  BY DEF CaseInit, NoReward, Arbitration!ArbitrationInit
<1>2. ASSUME RoundInv, ResultInv, [CaseNext]_caseVars
      PROVE  [Arbitration!ArbitrationStep /\ ResolvedIsFinal]_caseVars
  BY <1>2, NextImplements
<1>3. ASSUME [Arbitration!ArbitrationStep /\ ResolvedIsFinal]_caseVars
      PROVE  [Arbitration!ArbitrationNext]_(Arbitration!arbitrationVars)
  BY <1>3 DEF Arbitration!ArbitrationStep, Arbitration!arbitrationVars, caseVars, resultVars
<1>4. CaseSpec => ImplementsArbitration
  BY <1>2, AlwaysResultInv, PTL DEF CaseSpec, ImplementsArbitration
<1>5. CaseSpec => Arbitration!ArbitrationSpec
  BY <1>1, <1>2, <1>3, AlwaysResultInv, PTL DEF CaseSpec, Arbitration!ArbitrationSpec
<1> QED
  BY <1>4, <1>5
==============================================================================
