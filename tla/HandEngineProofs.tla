-------------------------- MODULE HandEngineProofs --------------------------
(***************************************************************************)
(* One hand, for every number of seats, every stack, every blind and ante, *)
(* and whatever the agents answer.  First types and accounts.  Then what a *)
(* betting round guarantees: no bet exceeds the bet to call, the           *)
(* contenders have matched each other when the betting is over, the action *)
(* is reopened by a full raise only, and a pot without a showdown goes to  *)
(* the last seat in.  Last what a showdown pays, for every ranking of the  *)
(* hands: every committed chip is paid out, a beaten hand is paid nothing  *)
(* by those who cover it, and no seat collects from a side pot it did not  *)
(* cover.                                                                  *)
(*                                                                         *)
(* A sum over the seats is the cardinality of a set of chips, so the facts *)
(* about sums come from FiniteSetTheorems.  A sum of sums is counted by    *)
(* laying the same chips out in other piles (CountByParts), so that no     *)
(* induction over the levels or the seats is needed: build_showdown_pots   *)
(* cuts the piles of the seats into layers, and resolve_showdown deals the *)
(* layers out again.  The inductive invariant adds to the accounts that    *)
(* nothing is paid before the end, that the bets are in the pot between    *)
(* two streets, and the number of cards on each street; the betting and    *)
(* the showdown add an invariant of their own for each result.             *)
(***************************************************************************)
EXTENDS HandEngine, FiniteSetTheorems, WellFoundedInduction, TLAPS

-----------------------------------------------------------------------------
(* Least and greatest elements *)

\* A non-empty set of naturals has a least element (used for the scans that
\* stop at the first seat).
LEMMA LeastNatural ==
    ASSUME NEW T, T \subseteq Nat, T # {}
    PROVE  \E x \in T : \A y \in T : x <= y
<1>1. PICK x \in T : \A y \in T : ~ (<<y, x>> \in OpToRel(<, Nat))
    BY NatLessThanWellFounded, WFMin
<1>2. \A y \in T : ~ (y < x)
    BY <1>1 DEF OpToRel
<1> QED
    BY <1>2

\* Min picks an element below all others: award_uncontested's winner and the
\* first free slot of Table::sit exist.
LEMMA MinType ==
    ASSUME NEW S, S \subseteq Nat, S # {}
    PROVE  Min(S) \in S /\ \A y \in S : Min(S) <= y
<1>1. \E x \in S : \A y \in S : x =< y
    BY LeastNatural
<1> QED
    BY <1>1 DEF Min

\* Max of a bounded set of naturals is its greatest element: the commitment
\* level below a level of build_showdown_pots exists.
LEMMA MaxType ==
    ASSUME NEW S, NEW n \in Nat, S \subseteq 0 .. n, S # {}
    PROVE  Max(S) \in S /\ \A y \in S : Max(S) >= y
<1> DEFINE T == {n - x : x \in S}
<1>1. T \subseteq Nat /\ T # {}
    <2>1. \A x \in S : n - x \in Nat
        OBVIOUS
    <2> QED
        BY <2>1
<1>2. PICK d \in T : \A e \in T : d <= e
    BY <1>1, LeastNatural
<1>3. \E x \in S : \A y \in S : x >= y
    <2>1. PICK x \in S : d = n - x
        OBVIOUS
    <2>2. \A y \in S : n - x <= n - y
        BY <1>2, <2>1
    <2> QED
        BY <2>2
<1> QED
    BY <1>3 DEF Max
-----------------------------------------------------------------------------
(* Seats and sums *)

\* The scan of next_active_after ends at a seat of the set, the nearest one to
\* the left.
LEMMA FirstAfterType ==
    ASSUME NEW from \in Seats, NEW S \in SUBSET Seats, S # {}
    PROVE  /\ FirstAfter(from, S) \in S
           /\ \A t \in S : Distance(from, FirstAfter(from, S)) <= Distance(from, t)
<1> DEFINE D == {Distance(from, s) : s \in S}
<1>1. \A s \in Seats : Distance(from, s) \in Nat
    BY SeatsAssumption DEF Distance, Seats
<1>2. D \subseteq Nat /\ D # {}
    BY <1>1
<1>3. PICK d \in D : \A e \in D : d <= e
    BY <1>2, LeastNatural
<1>4. \E s \in S : \A t \in S : Distance(from, s) <= Distance(from, t)
    BY <1>3
<1> QED
    BY <1>4 DEF FirstAfter

\* Sets of seats are finite.
LEMMA SeatsFinite ==
    /\ IsFiniteSet(Seats)
    /\ \A S \in SUBSET Seats : IsFiniteSet(S) /\ Cardinality(S) \in Nat
<1>1. IsFiniteSet(Seats)
    BY FS_Interval, SeatsAssumption DEF Seats
<1> QED
    BY <1>1, FS_Subset, FS_CardinalityType

\* The piles of chips behind SumOver are finite, so a sum is a natural.
LEMMA PilesFinite ==
    ASSUME NEW S, IsFiniteSet(S), NEW g \in [S -> Nat]
    PROVE  /\ IsFiniteSet(UNION {{x} \X (1 .. g[x]) : x \in S})
           /\ Cardinality(UNION {{x} \X (1 .. g[x]) : x \in S}) \in Nat
<1> DEFINE P == {{x} \X (1 .. g[x]) : x \in S}
           h == [x \in S |-> {x} \X (1 .. g[x])]
<1>1. h \in Surjection(S, P)
    BY DEF Surjection
<1>2. IsFiniteSet(P)
    BY <1>1, FS_Surjection
<1>3. ASSUME NEW x \in S PROVE IsFiniteSet({x} \X (1 .. g[x]))
    <2>1. 1 \in Int /\ g[x] \in Int
        OBVIOUS
    <2>2. IsFiniteSet(1 .. g[x])
        BY <2>1, FS_Interval
    <2>3. IsFiniteSet({x})
        BY FS_Singleton
    <2> QED
        BY <2>2, <2>3, FS_Product
<1>4. IsFiniteSet(UNION P)
    BY <1>2, <1>3, FS_UNION
<1> QED
    BY <1>4, FS_CardinalityType

\* The total of a tally over the seats is a natural.
LEMMA TotalType ==
    ASSUME NEW f \in [Seats -> Nat]
    PROVE  Total(f) \in Nat
BY SeatsFinite, PilesFinite DEF Total, SumOver

\* Empty tallies total nothing (collect_street_bets resets the bets).
LEMMA TotalZero == Total([s \in Seats |-> 0]) = 0
<1>1. UNION {{x} \X (1 .. [s \in Seats |-> 0][x]) : x \in Seats} = {}
    OBVIOUS
<1> QED
    BY <1>1, FS_EmptySet DEF Total, SumOver

\* A seat's commitment raises the total of a tally by the amount committed.
LEMMA TotalUpdate ==
    ASSUME NEW f \in [Seats -> Nat], NEW s \in Seats, NEW a \in Nat
    PROVE  Total([f EXCEPT ![s] = @ + a]) = Total(f) + a
<1> DEFINE g == [f EXCEPT ![s] = @ + a]
           F == UNION {{x} \X (1 .. f[x]) : x \in Seats}
           G == UNION {{x} \X (1 .. g[x]) : x \in Seats}
           E == {s} \X ((f[s] + 1) .. (f[s] + a))
<1>1. IsFiniteSet(F) /\ Cardinality(F) \in Nat
    BY SeatsFinite, PilesFinite
<1>2. IsFiniteSet(E) /\ Cardinality(E) = a
    <2>1. /\ IsFiniteSet((f[s] + 1) .. (f[s] + a))
          /\ Cardinality((f[s] + 1) .. (f[s] + a)) = a
        <3> DEFINE x == f[s] + 1
                   y == f[s] + a
        <3>1. x \in Int /\ y \in Int /\ (IF x > y THEN 0 ELSE y - x + 1) = a
            OBVIOUS
        <3> HIDE DEF x, y
        <3>2. IsFiniteSet(x .. y) /\ Cardinality(x .. y) = a
            BY <3>1, FS_Interval
        <3> QED
            BY <3>2 DEF x, y
    <2>2. IsFiniteSet({s}) /\ Cardinality({s}) = 1
        BY FS_Singleton
    <2> DEFINE I == (f[s] + 1) .. (f[s] + a)
    <2> HIDE DEF I
    <2>3. IsFiniteSet({s} \X I) /\ Cardinality({s} \X I) = Cardinality({s}) * Cardinality(I)
        BY <2>1, <2>2, FS_Product DEF I
    <2> QED
        BY <2>1, <2>2, <2>3 DEF I
<1>3. \A p : p \in F <=> p \in Seats \X Nat /\ 1 <= p[2] /\ p[2] <= f[p[1]]
    OBVIOUS
<1>4. \A p : p \in G <=> p \in Seats \X Nat /\ 1 <= p[2] /\ p[2] <= g[p[1]]
    OBVIOUS
<1>5. \A p : p \in E <=> p \in Seats \X Nat /\ p[1] = s /\ f[s] < p[2] /\ p[2] <= f[s] + a
    OBVIOUS
<1>6. G = F \cup E /\ F \cap E = {}
    BY <1>3, <1>4, <1>5
<1>7. Cardinality(G) = Cardinality(F) + Cardinality(E) - Cardinality({})
    BY <1>1, <1>2, <1>6, FS_Union
<1> QED
    BY <1>1, <1>2, <1>7, FS_EmptySet DEF Total, SumOver

-----------------------------------------------------------------------------
(* What the payout is made of *)

\* What the proofs need of products, shares and odd chips.
LEMMA Arithmetic ==
    /\ \A a, b \in Nat : a * b \in Nat
    /\ \A a \in Nat, n \in Nat \ {0} : a \div n \in Nat /\ a % n \in Nat
OBVIOUS

\* build_showdown_pots sees finitely many commitment levels.
LEMMA LevelsFinite ==
    ASSUME total_committed \in [Seats -> Nat]
    PROVE  IsFiniteSet(Levels) /\ Levels \subseteq Nat
<1> DEFINE T == {total_committed[s] : s \in Seats}
<1>1. total_committed \in Surjection(Seats, T)
    BY DEF Surjection
<1>2. IsFiniteSet(T)
    BY <1>1, SeatsFinite, FS_Surjection
<1>3. Levels \in SUBSET T /\ Levels \subseteq Nat
    BY DEF Levels
<1> QED
    BY <1>2, <1>3, FS_Subset

\* A slice of a side pot is a natural: the level below is not above the level.
LEMMA SliceType ==
    ASSUME total_committed \in [Seats -> Nat], NEW level \in Levels
    PROVE  Slice(level) \in Nat
<1> DEFINE B == {0} \union {l \in Levels : l < level}
           C == {s \in Seats : total_committed[s] >= level}
<1>1. level \in Nat
    BY LevelsFinite
<1>2. B \subseteq 0 .. level /\ B # {}
    <2>1. \A x \in B : x \in Nat /\ x <= level
        BY <1>1, LevelsFinite
    <2>2. 0 \in B
        OBVIOUS
    <2> HIDE DEF B
    <2> QED
        BY <1>1, <2>1, <2>2
<1>3. Max(B) \in 0 .. level
    BY <1>1, <1>2, MaxType
<1>4. Cardinality(C) \in Nat
    BY SeatsFinite
<1>5. level - Max(B) \in Nat
    BY <1>1, <1>3
<1>6. (level - Max(B)) * Cardinality(C) \in Nat
    BY <1>4, <1>5, Arithmetic
<1> QED
    BY <1>6 DEF Slice

\* The amount of a pot, with the slices merged into it, is a natural.
LEMMA PotAmountType ==
    ASSUME total_committed \in [Seats -> Nat], NEW level \in PotLevels
    PROVE  PotAmount(level) \in Nat
<1> DEFINE M == IF level = Max(PotLevels)
                THEN {level} \union (Levels \ PotLevels) ELSE {level}
           g == [x \in M |-> Slice(x)]
<1>1. M \in SUBSET Levels
    BY DEF PotLevels
<1>2. IsFiniteSet(M)
    BY <1>1, LevelsFinite, FS_Subset
<1>3. g \in [M -> Nat]
    BY <1>1, SliceType
<1>4. Cardinality(UNION {{x} \X (1 .. g[x]) : x \in M}) \in Nat
    <2> HIDE DEF M, g
    <2> QED
        BY <1>2, <1>3, PilesFinite
<1>5. UNION {{x} \X (1 .. g[x]) : x \in M} = UNION {{x} \X (1 .. Slice(x)) : x \in M}
    OBVIOUS
<1>6. SumOver(M, Slice) \in Nat
    BY <1>4, <1>5 DEF SumOver
<1> QED
    BY <1>6 DEF PotAmount

\* A seat's share of a pot is a natural; a pot with a winner is divided by a
\* positive number of winners.
LEMMA ShareType ==
    ASSUME total_committed \in [Seats -> Nat], NEW level \in PotLevels, NEW r, NEW s \in Seats
    PROVE  Share(level, r, s) \in Nat
<1> DEFINE W == Winners(level, r)
           n == Cardinality(W)
           amount == PotAmount(level)
<1>1. W \in SUBSET Seats
    BY DEF Winners, Eligible
<1>2. amount \in Nat
    BY PotAmountType
<1>3. CASE s \notin W
    BY <1>3 DEF Share
<1>4. CASE s \in W
    <2>1. n \in Nat \ {0}
        BY <1>1, <1>4, SeatsFinite, FS_EmptySet
    <2>2. amount \div n \in Nat /\ amount % n \in Nat
        BY <1>2, <2>1, Arithmetic
    <2>3. Share(level, r, s)
            = (amount \div n) + IF s = FirstAfter(dealer, W) THEN amount % n ELSE 0
        BY <1>4 DEF Share
    <2> HIDE DEF W, n, amount
    <2> QED
        BY <2>2, <2>3
<1> QED
    BY <1>3, <1>4

\* resolve_showdown pays every seat a natural number of chips.
LEMMA PayoutType ==
    ASSUME total_committed \in [Seats -> Nat], NEW r
    PROVE  Payout(r) \in [Seats -> Nat]
<1> SUFFICES ASSUME NEW s \in Seats
             PROVE  SumOver(PotLevels, LAMBDA l : Share(l, r, s)) \in Nat
    BY DEF Payout
<1> DEFINE g == [l \in PotLevels |-> Share(l, r, s)]
<1>1. PotLevels \in SUBSET Levels
    BY DEF PotLevels
<1>2. IsFiniteSet(PotLevels)
    BY <1>1, LevelsFinite, FS_Subset
<1>3. g \in [PotLevels -> Nat]
    BY ShareType
<1>4. Cardinality(UNION {{l} \X (1 .. g[l]) : l \in PotLevels}) \in Nat
    BY <1>2, <1>3, PilesFinite
<1>5. UNION {{l} \X (1 .. g[l]) : l \in PotLevels}
        = UNION {{l} \X (1 .. Share(l, r, s)) : l \in PotLevels}
    OBVIOUS
<1> QED
    BY <1>4, <1>5 DEF SumOver

-----------------------------------------------------------------------------
(* The inductive invariant *)

\* Nobody has a chip of some kind.
NoChips == [s \in Seats |-> 0]

\* Nothing is paid out before the hand is done.
NotPaidYet == pc # "done" => chip_deltas = NoChips

\* Between two streets the bets are in the pot.
BetsCollected == pc = "street" => bet_this_street = NoChips

\* Until the board is filled for the showdown it has the cards of its street.
BoardMatchesStreet ==
    pc \notin {"showdown", "done"} =>
        /\ street = "Preflop" => board = 0
        /\ street = "Flop" => board = 3
        /\ street = "Turn" => board = 4
        /\ street = "River" => board = 5

\* The inductive invariant of a hand.
Inv ==
    /\ TypeOK /\ SeatAccounting /\ PotAccounting
    /\ NotPaidYet /\ BetsCollected /\ BoardMatchesStreet

\* What init_state returns satisfies the invariant.
LEMMA InitInv == Init => Inv
<1> SUFFICES ASSUME Init PROVE Inv
    OBVIOUS
<1>1. Seats # {} /\ 0 \in Seats
    BY SeatsAssumption DEF Seats
<1>2. TypeOK
    <2>1. stacks \in [Seats -> Nat] /\ dealer \in Seats
        BY RulesAssumption DEF Init, Seats
    <2>2. min_raise_increment \in Nat
        BY RulesAssumption DEF Init, init_state
    <2> QED
        BY <1>1, <2>1, <2>2 DEF Init, init_state, TypeOK, PlayerStatus, Street
<1>3. SeatAccounting
    BY <1>2 DEF Init, init_state, SeatAccounting, ChipDelta, TypeOK
<1>4. PotAccounting
    BY TotalZero DEF Init, init_state, PotAccounting
<1>5. NotPaidYet /\ BetsCollected /\ BoardMatchesStreet
    BY DEF Init, init_state, NotPaidYet, BetsCollected, BoardMatchesStreet, NoChips
<1> QED
    BY <1>2, <1>3, <1>4, <1>5 DEF Inv

\* Moving chips from a stack to the bets keeps both accounts balanced.
LEMMA CommitKeeps ==
    ASSUME Inv, NEW seat \in Seats, NEW amount \in Nat, amount <= stack[seat],
           Commit(seat, amount), UNCHANGED <<args, pot, chip_deltas>>, pc # "done"
    PROVE  /\ stack' \in [Seats -> Nat]
           /\ bet_this_street' \in [Seats -> Nat]
           /\ total_committed' \in [Seats -> Nat]
           /\ SeatAccounting' /\ PotAccounting' /\ NotPaidYet'
<1>1. /\ stack' \in [Seats -> Nat]
      /\ bet_this_street' \in [Seats -> Nat]
      /\ total_committed' \in [Seats -> Nat]
    BY DEF Inv, TypeOK, Commit
<1>2. SeatAccounting'
    BY DEF Inv, TypeOK, SeatAccounting, ChipDelta, Commit, args
<1>3. Total(bet_this_street') = Total(bet_this_street) + amount
    BY TotalUpdate DEF Inv, TypeOK, Commit
<1>4. Total(total_committed') = Total(total_committed) + amount
    BY TotalUpdate DEF Inv, TypeOK, Commit
<1>5. PotAccounting'
    <2>1. pot \in Nat /\ Total(bet_this_street) \in Nat /\ Total(total_committed) \in Nat
        BY TotalType DEF Inv, TypeOK
    <2> QED
        BY <1>3, <1>4, <2>1 DEF Inv, PotAccounting
<1>6. NotPaidYet'
    BY DEF Inv, NotPaidYet, NoChips
<1> QED
    BY <1>1, <1>2, <1>5, <1>6

\* sb_seat, bb_seat and the advance of run_betting_round stay at the table.
LEMMA SeatsToAct ==
    ASSUME TypeOK
    PROVE  /\ sb_seat \in Seats /\ bb_seat \in Seats
           /\ \A s \in Seats : NextSeat(s) \in Seats
<1>1. StillIn \in SUBSET Seats /\ dealer \in Seats
    BY DEF StillIn, SeatsWith, TypeOK
<1>2. sb_seat \in Seats
    BY <1>1, FirstAfterType DEF sb_seat
<1>3. bb_seat \in Seats
    BY <1>1, <1>2, FirstAfterType DEF bb_seat
<1>4. \A s \in Seats : NextSeat(s) \in Seats
    BY SeatsAssumption DEF NextSeat, Seats
<1> QED
    BY <1>2, <1>3, <1>4

\* So does a post or a call, which may put the seat all in.
LEMMA PayKeeps ==
    ASSUME Inv, NEW seat \in Seats, NEW amount \in Nat, amount <= stack[seat],
           Pay(seat, amount), UNCHANGED <<args, pot, chip_deltas>>, pc # "done"
    PROVE  /\ stack' \in [Seats -> Nat]
           /\ bet_this_street' \in [Seats -> Nat]
           /\ total_committed' \in [Seats -> Nat]
           /\ status' \in [Seats -> PlayerStatus]
           /\ SeatAccounting' /\ PotAccounting' /\ NotPaidYet'
<1>1. status' \in [Seats -> PlayerStatus]
    BY DEF Inv, TypeOK, Pay, PlayerStatus
<1> QED
    BY <1>1, CommitKeeps DEF Pay

\* Steps that move no chips keep the accounts.
LEMMA NoChipsMove ==
    ASSUME Inv, UNCHANGED <<args, pot, chip_deltas, stack, bet_this_street, total_committed>>,
           pc # "done"
    PROVE  SeatAccounting' /\ PotAccounting' /\ NotPaidYet'
<1>1. SeatAccounting'
    BY DEF Inv, SeatAccounting, ChipDelta, args
<1>2. PotAccounting'
    BY DEF Inv, PotAccounting
<1>3. NotPaidYet'
    BY DEF Inv, NotPaidYet, NoChips
<1> QED
    BY <1>1, <1>2, <1>3

\* post_antes.
LEMMA PostAnteInv == Inv /\ PostAnte => Inv'
<1> SUFFICES ASSUME Inv, PostAnte PROVE Inv'
    OBVIOUS
<1> USE DEF PostAnte
<1>1. current \in Seats /\ stack[current] \in Nat /\ Ante \in Nat
    BY RulesAssumption DEF Inv, TypeOK
<1>2. Lesser(Ante, stack[current]) \in Nat /\ Lesser(Ante, stack[current]) <= stack[current]
    BY <1>1 DEF Lesser
<1>3. /\ stack' \in [Seats -> Nat]
      /\ bet_this_street' \in [Seats -> Nat]
      /\ total_committed' \in [Seats -> Nat]
      /\ status' \in [Seats -> PlayerStatus]
      /\ SeatAccounting' /\ PotAccounting' /\ NotPaidYet'
    <2>1. CASE status[current] = "Active"
        BY <1>1, <1>2, <2>1, PayKeeps
    <2>2. CASE status[current] # "Active"
        <3>1. UNCHANGED players
            BY <2>2
        <3> QED
            BY <3>1, NoChipsMove DEF players, Inv, TypeOK
    <2> QED
        BY <2>1, <2>2
<1>4. current' \in Seats
    BY <1>1, SeatsToAct DEF Inv
<1>5. TypeOK'
    BY <1>3, <1>4 DEF Inv, TypeOK, args, betting
<1>6. BetsCollected' /\ BoardMatchesStreet'
    BY DEF Inv, BetsCollected, BoardMatchesStreet
<1> QED
    BY <1>3, <1>5, <1>6 DEF Inv

\* post_blinds.
LEMMA BlindsInv == Inv /\ (PostSmallBlind \/ PostBigBlind) => Inv'
<1>1. ASSUME Inv, PostSmallBlind PROVE Inv'
    <2> USE <1>1 DEF PostSmallBlind
    <2> DEFINE amount == Lesser(SmallBlind, stack[sb_seat])
    <2>1. sb_seat \in Seats
        BY SeatsToAct DEF Inv
    <2>2. amount \in Nat /\ amount <= stack[sb_seat]
        BY <2>1, RulesAssumption DEF Inv, TypeOK, Lesser
    <2>3. /\ stack' \in [Seats -> Nat]
          /\ bet_this_street' \in [Seats -> Nat]
          /\ total_committed' \in [Seats -> Nat]
          /\ status' \in [Seats -> PlayerStatus]
          /\ SeatAccounting' /\ PotAccounting' /\ NotPaidYet'
        BY <2>1, <2>2, PayKeeps
    <2>4. TypeOK'
        BY <2>3 DEF Inv, TypeOK, args, betting
    <2>5. BetsCollected' /\ BoardMatchesStreet'
        BY DEF Inv, BetsCollected, BoardMatchesStreet
    <2> QED
        BY <2>3, <2>4, <2>5 DEF Inv
<1>2. ASSUME Inv, PostBigBlind PROVE Inv'
    <2> USE <1>2 DEF PostBigBlind
    <2> DEFINE amount == Lesser(BigBlind, stack[bb_seat])
    <2>1. bb_seat \in Seats
        BY SeatsToAct DEF Inv
    <2>2. amount \in Nat /\ amount <= stack[bb_seat]
        BY <2>1, RulesAssumption DEF Inv, TypeOK, Lesser
    <2>3. /\ stack' \in [Seats -> Nat]
          /\ bet_this_street' \in [Seats -> Nat]
          /\ total_committed' \in [Seats -> Nat]
          /\ status' \in [Seats -> PlayerStatus]
          /\ SeatAccounting' /\ PotAccounting' /\ NotPaidYet'
        BY <2>1, <2>2, PayKeeps
    <2>4. TypeOK'
        BY <2>3, RulesAssumption DEF Inv, TypeOK, args
    <2>5. BetsCollected' /\ BoardMatchesStreet'
        BY DEF Inv, BetsCollected, BoardMatchesStreet
    <2> QED
        BY <2>3, <2>4, <2>5 DEF Inv
<1> QED
    BY <1>1, <1>2

\* Folding the dead hands and finding the first seat to act.
LEMMA OpenBettingInv == Inv /\ OpenBetting => Inv'
<1> SUFFICES ASSUME Inv, OpenBetting PROVE Inv'
    OBVIOUS
<1> DEFINE active == SeatsWith(DeadHandsFolded, {"Active"})
<1>1. status' \in [Seats -> PlayerStatus]
    BY DEF OpenBetting, DeadHandsFolded, Inv, TypeOK, PlayerStatus
<1>2. active \in SUBSET Seats
    BY DEF SeatsWith
<1>3. current' \in Seats /\ pc' \in {"award", "betting"}
    BY <1>2, SeatsToAct, FirstAfterType DEF OpenBetting, Inv, TypeOK
<1>4. SeatAccounting' /\ PotAccounting' /\ NotPaidYet'
    BY NoChipsMove DEF OpenBetting
<1>5. TypeOK'
    BY <1>1, <1>3 DEF OpenBetting, Inv, TypeOK, args, betting
<1>6. BetsCollected' /\ BoardMatchesStreet'
    BY <1>3 DEF OpenBetting, Inv, BetsCollected, BoardMatchesStreet
<1> QED
    BY <1>4, <1>5, <1>6 DEF Inv

\* The end of a turn of run_betting_round: response flags, the test for a last
\* seat, the advance.
LEMMA AfterActionKeeps ==
    ASSUME Inv, Prompted, NEW b \in BOOLEAN, AfterAction(b)
    PROVE  /\ current \in Seats /\ current' \in Seats
           /\ pc = "betting" /\ pc' \in {"award", "betting"}
           /\ has_responded' \in [Seats -> BOOLEAN]
           /\ UNCHANGED <<args, pot, street, board, chip_deltas>>
           /\ BetsCollected' /\ BoardMatchesStreet'
<1>1. /\ current \in Seats /\ pc = "betting" /\ pc' \in {"award", "betting"}
      /\ UNCHANGED <<args, pot, street, board, chip_deltas>>
    BY DEF Inv, TypeOK, Prompted, AfterAction
<1>2. current' \in Seats
    BY <1>1, SeatsToAct DEF AfterAction, Inv
<1>3. has_responded' \in [Seats -> BOOLEAN]
    BY DEF AfterAction, RespondedAfter, Inv, TypeOK
<1>4. BetsCollected' /\ BoardMatchesStreet'
    BY <1>1 DEF BetsCollected, BoardMatchesStreet, Inv
<1> QED
    BY <1>1, <1>2, <1>3, <1>4

\* apply_action on Fold and Check.
LEMMA FoldCheckInv == Inv /\ (Fold \/ Check) => Inv'
<1> SUFFICES ASSUME Inv, Fold \/ Check PROVE Inv'
    OBVIOUS
<1>1. Prompted /\ AfterAction(FALSE)
    BY DEF Fold, Check
<1>2. UNCHANGED <<stack, bet_this_street, total_committed, betting>>
    BY DEF Fold, Check, players
<1>3. status' \in [Seats -> PlayerStatus]
    BY DEF Fold, Check, players, Inv, TypeOK, PlayerStatus
<1>4. /\ current' \in Seats /\ pc = "betting" /\ pc' \in {"award", "betting"}
      /\ has_responded' \in [Seats -> BOOLEAN]
      /\ UNCHANGED <<args, pot, street, board, chip_deltas>>
      /\ BetsCollected' /\ BoardMatchesStreet'
    BY <1>1, AfterActionKeeps
<1>5. SeatAccounting' /\ PotAccounting' /\ NotPaidYet'
    BY <1>2, <1>4, NoChipsMove
<1>6. TypeOK'
    BY <1>2, <1>3, <1>4 DEF Inv, TypeOK, args, betting
<1> QED
    BY <1>4, <1>5, <1>6 DEF Inv

\* apply_action on Call.
LEMMA CallInv == Inv /\ Call => Inv'
<1> SUFFICES ASSUME Inv, Call PROVE Inv'
    OBVIOUS
<1> DEFINE amount == Lesser(Owed(current), stack[current])
<1>1. Prompted /\ AfterAction(FALSE) /\ Pay(current, amount) /\ UNCHANGED betting
    BY DEF Call
<1>2. /\ current \in Seats /\ current' \in Seats /\ pc = "betting" /\ pc' \in {"award", "betting"}
      /\ has_responded' \in [Seats -> BOOLEAN]
      /\ UNCHANGED <<args, pot, street, board, chip_deltas>>
      /\ BetsCollected' /\ BoardMatchesStreet'
    BY <1>1, AfterActionKeeps
<1>3. amount \in Nat /\ amount <= stack[current]
    BY <1>2 DEF Inv, TypeOK, Owed, SaturatingSub, Lesser
<1>4. /\ stack' \in [Seats -> Nat]
      /\ bet_this_street' \in [Seats -> Nat]
      /\ total_committed' \in [Seats -> Nat]
      /\ status' \in [Seats -> PlayerStatus]
      /\ SeatAccounting' /\ PotAccounting' /\ NotPaidYet'
    BY <1>1, <1>2, <1>3, PayKeeps
<1>5. TypeOK'
    BY <1>1, <1>2, <1>4 DEF Inv, TypeOK, args, betting
<1> QED
    BY <1>2, <1>4, <1>5 DEF Inv

\* normalize_action dispatches a raise as such only when the chips are there
\* and the minimum is met.
LEMMA RaiseCovered ==
    ASSUME TypeOK, NEW amount \in Nat, normalize_action(current, amount) = "Raise"
    PROVE  /\ SaturatingSub(amount, bet_this_street[current]) \in Nat
           /\ SaturatingSub(amount, bet_this_street[current]) <= stack[current]
           /\ RaisedTo(current, amount) \in Nat
           /\ RaisedTo(current, amount) - current_bet \in Nat
           /\ RaisedTo(current, amount) >= current_bet + min_raise_increment
<1>1. /\ bet_this_street[current] \in Nat /\ stack[current] \in Nat
      /\ current_bet \in Nat /\ min_raise_increment \in Nat
    BY DEF TypeOK
<1>2. /\ ~ (SaturatingSub(amount, bet_this_street[current]) >= stack[current])
      /\ amount >= MinRaiseTotal
    BY DEF normalize_action
<1> QED
    BY <1>1, <1>2 DEF SaturatingSub, MinRaiseTotal, RaisedTo

\* apply_action on Raise.
LEMMA RaiseInv == Inv /\ Raise => Inv'
<1> SUFFICES ASSUME Inv, Raise PROVE Inv'
    OBVIOUS
<1>1. Prompted /\ AfterAction(TRUE) /\ UNCHANGED status /\ cumulative_short_increment' = 0
    BY DEF Raise
<1>2. /\ current \in Seats /\ current' \in Seats /\ pc = "betting" /\ pc' \in {"award", "betting"}
      /\ has_responded' \in [Seats -> BOOLEAN]
      /\ UNCHANGED <<args, pot, street, board, chip_deltas>>
      /\ BetsCollected' /\ BoardMatchesStreet'
    BY <1>1, AfterActionKeeps
<1>3. PICK amount \in 0 .. AllInTotal(current) :
        /\ normalize_action(current, amount) = "Raise"
        /\ Commit(current, SaturatingSub(amount, bet_this_street[current]))
        /\ current_bet' = RaisedTo(current, amount)
        /\ min_raise_increment' = RaisedTo(current, amount) - current_bet
    BY DEF Raise, RaiseDispatchedAs
<1>4. amount \in Nat
    BY <1>2 DEF AllInTotal, Inv, TypeOK
<1>5. /\ SaturatingSub(amount, bet_this_street[current]) \in Nat
      /\ SaturatingSub(amount, bet_this_street[current]) <= stack[current]
      /\ RaisedTo(current, amount) \in Nat
      /\ RaisedTo(current, amount) - current_bet \in Nat
    BY <1>3, <1>4, RaiseCovered DEF Inv
<1>6. /\ stack' \in [Seats -> Nat]
      /\ bet_this_street' \in [Seats -> Nat]
      /\ total_committed' \in [Seats -> Nat]
      /\ SeatAccounting' /\ PotAccounting' /\ NotPaidYet'
    BY <1>2, <1>3, <1>5, CommitKeeps
<1>7. TypeOK'
    BY <1>1, <1>2, <1>3, <1>4, <1>5, <1>6 DEF Inv, TypeOK, args
<1> QED
    BY <1>2, <1>6, <1>7 DEF Inv

\* Each case of an all-in ends the turn.
LEMMA AllInResponds ==
    ASSUME AllIn
    PROVE  \E b \in BOOLEAN : AfterAction(b)
<1> DEFINE shorts == cumulative_short_increment + (AllInTotal(current) - current_bet)
<1>1. CASE AllInUnderneath
    BY <1>1 DEF AllInUnderneath
<1>2. CASE AllInFullRaise
    BY <1>2 DEF AllInFullRaise
<1>3. CASE AllInShortRaise
    <2>1. (shorts >= min_raise_increment) \in BOOLEAN
        OBVIOUS
    <2>2. AfterAction(shorts >= min_raise_increment)
        BY <1>3 DEF AllInShortRaise
    <2> QED
        BY <2>1, <2>2
<1> QED
    BY <1>1, <1>2, <1>3 DEF AllIn

\* apply_action on AllIn.
LEMMA AllInInv == Inv /\ AllIn => Inv'
<1> SUFFICES ASSUME Inv, AllIn PROVE Inv'
    OBVIOUS
<1>1. /\ Prompted /\ Commit(current, stack[current])
      /\ status' = [status EXCEPT ![current] = "AllIn"]
    BY DEF AllIn
<1>2. /\ current \in Seats /\ AllInTotal(current) \in Nat /\ current_bet \in Nat
      /\ min_raise_increment \in Nat /\ cumulative_short_increment \in Nat
    BY DEF Inv, TypeOK, AllInTotal
<1> DEFINE increment == AllInTotal(current) - current_bet
           shorts == cumulative_short_increment + increment
<1>3. PICK b \in BOOLEAN : AfterAction(b)
    BY AllInResponds
<1>9. current_bet' \in Nat /\ min_raise_increment' \in Nat /\ cumulative_short_increment' \in Nat
    <2>1. CASE AllInUnderneath
        BY <1>2, <2>1 DEF AllInUnderneath, betting
    <2>2. CASE AllInFullRaise
        <3>1. /\ increment > 0 /\ current_bet' = AllInTotal(current)
              /\ min_raise_increment' = increment /\ cumulative_short_increment' = 0
            BY <2>2 DEF AllInFullRaise
        <3> QED
            BY <1>2, <3>1
    <2>3. CASE AllInShortRaise
        <3>1. /\ increment > 0 /\ current_bet' = AllInTotal(current)
              /\ min_raise_increment' = min_raise_increment
              /\ cumulative_short_increment' = shorts
            BY <2>3 DEF AllInShortRaise
        <3> QED
            BY <1>2, <3>1
    <2> QED
        BY <2>1, <2>2, <2>3 DEF AllIn
<1>4. /\ current' \in Seats /\ pc = "betting" /\ pc' \in {"award", "betting"}
      /\ has_responded' \in [Seats -> BOOLEAN]
      /\ UNCHANGED <<args, pot, street, board, chip_deltas>>
      /\ BetsCollected' /\ BoardMatchesStreet'
    BY <1>1, <1>3, AfterActionKeeps
<1>5. stack[current] \in Nat /\ stack[current] <= stack[current]
    BY <1>2 DEF Inv, TypeOK
<1>6. /\ stack' \in [Seats -> Nat]
      /\ bet_this_street' \in [Seats -> Nat]
      /\ total_committed' \in [Seats -> Nat]
      /\ SeatAccounting' /\ PotAccounting' /\ NotPaidYet'
    BY <1>1, <1>2, <1>4, <1>5, CommitKeeps
<1>7. status' \in [Seats -> PlayerStatus]
    BY <1>1 DEF Inv, TypeOK, PlayerStatus
<1>8. TypeOK'
    BY <1>4, <1>6, <1>7, <1>9 DEF Inv, TypeOK, args
<1> QED
    BY <1>4, <1>6, <1>8 DEF Inv

\* Passing over settled seats, and collect_street_bets at the end of a round.
LEMMA RoundInv == Inv /\ (SkipSettled \/ EndRound) => Inv'
<1>1. ASSUME Inv, SkipSettled PROVE Inv'
    <2>1. current' \in Seats
        BY <1>1, SeatsToAct DEF SkipSettled, Inv, TypeOK
    <2>2. SeatAccounting' /\ PotAccounting' /\ NotPaidYet'
        BY <1>1, NoChipsMove DEF SkipSettled, players
    <2>3. TypeOK'
        BY <1>1, <2>1 DEF SkipSettled, Inv, TypeOK, args, players, betting
    <2>4. BetsCollected' /\ BoardMatchesStreet'
        BY <1>1 DEF SkipSettled, Inv, BetsCollected, BoardMatchesStreet
    <2> QED
        BY <2>2, <2>3, <2>4 DEF Inv
<1>2. ASSUME Inv, EndRound PROVE Inv'
    <2>1. /\ pot \in Nat /\ Total(bet_this_street) \in Nat
          /\ pot' = pot + Total(bet_this_street) /\ bet_this_street' = NoChips
        BY <1>2, TotalType DEF EndRound, CollectBets, Inv, TypeOK, NoChips
    <2>2. pc = "betting" /\ pc' = "street"
        BY <1>2 DEF EndRound
    <2>3. TypeOK'
        BY <1>2, <2>1, <2>2 DEF EndRound, Inv, TypeOK, args, betting, NoChips
    <2>4. SeatAccounting'
        BY <1>2 DEF EndRound, Inv, SeatAccounting, ChipDelta, args
    <2>5. PotAccounting'
        <3>1. Total(bet_this_street') = 0
            BY <2>1, TotalZero DEF NoChips
        <3>2. pot + Total(bet_this_street) = Total(total_committed)
            BY <1>2, <2>2 DEF Inv, PotAccounting
        <3>3. UNCHANGED total_committed
            BY <1>2 DEF EndRound
        <3> QED
            BY <2>1, <3>1, <3>2, <3>3 DEF PotAccounting
    <2>6. NotPaidYet' /\ BetsCollected' /\ BoardMatchesStreet'
        BY <1>2, <2>1 DEF EndRound, Inv, NotPaidYet, BetsCollected, BoardMatchesStreet, NoChips
    <2> QED
        BY <2>3, <2>4, <2>5, <2>6 DEF Inv
<1> QED
    BY <1>1, <1>2

\* begin_street and deal_board_cards.
LEMMA DealStreetInv == Inv /\ DealStreet => Inv'
<1> SUFFICES ASSUME Inv, DealStreet PROVE Inv'
    OBVIOUS
<1>1. /\ pc = "street" /\ pc' \in {"street", "betting"}
      /\ bet_this_street = NoChips /\ bet_this_street' = NoChips
    BY DEF DealStreet, Inv, BetsCollected, NoChips
<1>2. \/ street = "Preflop" /\ board = 0 /\ street' = "Flop" /\ board' = 3
      \/ street = "Flop" /\ board = 3 /\ street' = "Turn" /\ board' = 4
      \/ street = "Turn" /\ board = 4 /\ street' = "River" /\ board' = 5
    <2>1. /\ street = "Preflop" => board = 0
          /\ street = "Flop" => board = 3
          /\ street = "Turn" => board = 4
        BY <1>1 DEF Inv, BoardMatchesStreet
    <2>2. street \in {"Preflop", "Flop", "Turn"}
        BY DEF DealStreet, Inv, TypeOK, Street
    <2>3. street' = NextStreet[street] /\ board' = board + CardsOn[NextStreet[street]]
        BY DEF DealStreet
    <2> QED
        BY <2>1, <2>2, <2>3 DEF NextStreet, CardsOn
<1>3. current' \in Seats /\ has_responded' \in [Seats -> BOOLEAN]
    <2>1. CASE Cardinality(ActiveSeats) >= 2
        <3>1. ActiveSeats \in SUBSET Seats
            BY DEF ActiveSeats, SeatsWith
        <3>2. ActiveSeats # {}
            BY <2>1, FS_EmptySet
        <3> QED
            BY <2>1, <3>1, <3>2, FirstAfterType DEF DealStreet, Inv, TypeOK
    <2>2. CASE ~ (Cardinality(ActiveSeats) >= 2)
        BY <2>2 DEF DealStreet, Inv, TypeOK
    <2> QED
        BY <2>1, <2>2
<1>4. SeatAccounting' /\ PotAccounting' /\ NotPaidYet'
    BY <1>1, NoChipsMove DEF DealStreet
<1>5. TypeOK'
    <2>1. /\ street' \in Street /\ board' \in 0 .. 5 /\ bet_this_street' \in [Seats -> Nat]
        BY <1>1, <1>2 DEF Street, NoChips
    <2>2. /\ current_bet' \in Nat /\ min_raise_increment' \in Nat
          /\ cumulative_short_increment' \in Nat
        BY RulesAssumption DEF DealStreet
    <2> QED
        BY <1>1, <1>3, <2>1, <2>2 DEF DealStreet, Inv, TypeOK, args
<1>6. BetsCollected' /\ BoardMatchesStreet'
    BY <1>1, <1>2 DEF BetsCollected, BoardMatchesStreet, NoChips
<1> QED
    BY <1>4, <1>5, <1>6 DEF Inv

\* deal_remaining_board.
LEMMA GoToShowdownInv == Inv /\ GoToShowdown => Inv'
<1> SUFFICES ASSUME Inv, GoToShowdown PROVE Inv'
    OBVIOUS
<1>1. SeatAccounting' /\ PotAccounting' /\ NotPaidYet'
    BY NoChipsMove DEF GoToShowdown, players
<1>2. TypeOK'
    BY DEF GoToShowdown, Inv, TypeOK, args, players, betting
<1>3. BetsCollected' /\ BoardMatchesStreet'
    BY DEF GoToShowdown, BetsCollected, BoardMatchesStreet
<1> QED
    BY <1>1, <1>2, <1>3 DEF Inv

\* resolve_showdown.
LEMMA ShowdownInv == Inv /\ Showdown => Inv'
<1> SUFFICES ASSUME Inv, Showdown PROVE Inv'
    OBVIOUS
<1>1. chip_deltas' \in [Seats -> Nat]
    BY PayoutType DEF Showdown, Inv, TypeOK
<1>2. chip_deltas = NoChips
    BY DEF Showdown, Inv, NotPaidYet
<1>3. TypeOK'
    BY <1>1 DEF Showdown, Inv, TypeOK, args, betting
<1>4. SeatAccounting'
    BY <1>1, <1>2 DEF Showdown, Inv, TypeOK, SeatAccounting, ChipDelta, args, NoChips
<1>5. PotAccounting' /\ NotPaidYet' /\ BetsCollected' /\ BoardMatchesStreet'
    BY DEF Showdown, PotAccounting, NotPaidYet, BetsCollected, BoardMatchesStreet
<1> QED
    BY <1>3, <1>4, <1>5 DEF Inv

\* award_uncontested.
LEMMA AwardUncontestedInv == Inv /\ AwardUncontested => Inv'
<1> SUFFICES ASSUME Inv, AwardUncontested PROVE Inv'
    OBVIOUS
<1> DEFINE winner == Min(StillIn)
           total == pot + Total(bet_this_street)
<1>1. winner \in Seats
    <2>1. StillIn \subseteq Nat /\ StillIn # {} /\ StillIn \subseteq Seats
        BY DEF AwardUncontested, StillIn, SeatsWith, Seats
    <2> QED
        BY <2>1, MinType
<1>2. total \in Nat
    BY TotalType DEF Inv, TypeOK
<1>3. /\ chip_deltas' = [s \in Seats |-> IF s = winner THEN total ELSE 0]
      /\ stack' = [stack EXCEPT ![winner] = @ + total]
    BY DEF AwardUncontested
<1>4. chip_deltas = NoChips
    BY DEF AwardUncontested, Inv, NotPaidYet
<1> HIDE DEF winner, total
<1>5. TypeOK'
    <2>1. stack' \in [Seats -> Nat]
        BY <1>1, <1>2, <1>3 DEF Inv, TypeOK
    <2>2. chip_deltas' \in [Seats -> Nat]
        BY <1>2, <1>3
    <2> QED
        BY <2>1, <2>2 DEF AwardUncontested, Inv, TypeOK, args, betting
<1>6. SeatAccounting'
    BY <1>1, <1>2, <1>3, <1>4
       DEF AwardUncontested, Inv, TypeOK, SeatAccounting, ChipDelta, args, NoChips
<1>7. PotAccounting' /\ NotPaidYet' /\ BetsCollected' /\ BoardMatchesStreet'
    BY DEF AwardUncontested, PotAccounting, NotPaidYet, BetsCollected, BoardMatchesStreet
<1> QED
    BY <1>5, <1>6, <1>7 DEF Inv

\* A stuttering step keeps the invariant.
LEMMA StutterInv == Inv /\ UNCHANGED vars => Inv'
<1> SUFFICES ASSUME Inv, UNCHANGED vars PROVE Inv'
    OBVIOUS
<1> USE DEF vars, args, players, betting
<1>1. TypeOK'
    BY DEF Inv, TypeOK
<1>2. SeatAccounting' /\ PotAccounting'
    BY DEF Inv, SeatAccounting, ChipDelta, PotAccounting
<1>3. NotPaidYet' /\ BetsCollected' /\ BoardMatchesStreet'
    BY DEF Inv, NotPaidYet, BetsCollected, BoardMatchesStreet
<1> QED
    BY <1>1, <1>2, <1>3 DEF Inv

\* The invariant holds throughout every hand.
THEOREM Invariance == Spec => []Inv
<1>1. Inv /\ [Next]_vars => Inv'
    BY PostAnteInv, BlindsInv, OpenBettingInv, FoldCheckInv, CallInv, RaiseInv, AllInInv,
       RoundInv, DealStreetInv, GoToShowdownInv, ShowdownInv, AwardUncontestedInv, StutterInv
       DEF Next, Act
<1> QED
    BY InitInv, <1>1, PTL DEF Spec

\* The state of a hand stays in its type: no stack, bet or pot goes below zero
\* (the code's u32 subtractions do not wrap) and the board has at most 5 cards.
THEOREM TypeCorrect == Spec => []TypeOK
<1>1. Inv => TypeOK
    BY DEF Inv
<1> QED
    BY Invariance, <1>1, PTL

\* At every step a seat's stack is what it brought plus what build_result would
\* report as its chip_delta.
THEOREM SeatsAccountedFor == Spec => []SeatAccounting
<1>1. Inv => SeatAccounting
    BY DEF Inv
<1> QED
    BY Invariance, <1>1, PTL

\* At every step of a running hand, the pot and the street's bets are the chips
\* the seats have committed.
THEOREM PotAccountedFor == Spec => []PotAccounting
<1>1. Inv => PotAccounting
    BY DEF Inv
<1> QED
    BY Invariance, <1>1, PTL

-----------------------------------------------------------------------------
(* The bet to call covers every bet *)

\* With two seats in, post_blinds takes the two blinds from different seats.
LEMMA BigBlindIsNotSmallBlind ==
    ASSUME TypeOK, NEW x \in StillIn, NEW y \in StillIn, x # y
    PROVE  sb_seat # bb_seat
<1>1. StillIn \in SUBSET Seats /\ StillIn # {} /\ dealer \in Seats
    BY DEF StillIn, SeatsWith, TypeOK
<1>2. sb_seat \in StillIn /\ sb_seat \in Seats
    BY <1>1, FirstAfterType DEF sb_seat
<1>3. PICK z \in StillIn : z # sb_seat
    OBVIOUS
<1>4. z \in Seats /\ Distance(sb_seat, z) < Distance(sb_seat, sb_seat)
    BY <1>1, <1>2, <1>3, SeatsAssumption DEF Distance, Seats
<1>5. /\ bb_seat \in StillIn
      /\ Distance(sb_seat, bb_seat) <= Distance(sb_seat, z)
    BY <1>1, <1>2, FirstAfterType DEF bb_seat
<1>6. bb_seat \in Seats /\ Distance(sb_seat, bb_seat) \in Int
      /\ Distance(sb_seat, sb_seat) \in Int /\ Distance(sb_seat, z) \in Int
    BY <1>1, <1>2, <1>4, <1>5, SeatsAssumption DEF Distance, Seats
<1> QED
    BY <1>4, <1>5, <1>6

\* Two seats are in.
TwoStillIn == \E x, y \in StillIn : x # y

\* Up to the first action: who has bet what; from then on BetsCovered.
CoverInv ==
    /\ pc # "antes"
    /\ pc \in {"small_blind", "big_blind"} => TwoStillIn
    /\ pc = "small_blind" => bet_this_street = NoChips
    /\ pc = "big_blind" =>
         \A s \in Seats : bet_this_street[s] <= IF s = sb_seat THEN SmallBlind ELSE 0
    /\ BetsCovered

\* What the theorems on bets and commitments assume of the rules and the seats.
Rules == Ante = 0 /\ SmallBlind <= BigBlind /\ MinContenders >= 2

\* With two contenders and no ante the hand starts in CoverInv.
LEMMA InitCover == ASSUME Rules PROVE Init => CoverInv
<1> SUFFICES ASSUME Init PROVE CoverInv
    OBVIOUS
<1>1. pc = "small_blind" /\ bet_this_street = NoChips
    BY DEF Init, init_state, Rules, NoChips
<1>2. TwoStillIn
    <2> DEFINE C == {s \in Seats : seat_kinds[s] = "Live" /\ stacks[s] > 0}
    <2>1. C \in SUBSET Seats
        OBVIOUS
    <2>2. IsFiniteSet(C) /\ Cardinality(C) \in Nat
        BY <2>1, SeatsFinite
    <2>3. Cardinality(C) >= MinContenders /\ MinContenders \in Nat
        BY RulesAssumption DEF Init
    <2>4. Cardinality(C) >= 2
        BY <2>2, <2>3 DEF Rules
    <2>5. C # {} /\ \A x : C # {x}
        <3>1. Cardinality({}) = 0
            BY FS_EmptySet
        <3>2. \A x : Cardinality({x}) = 1
            BY FS_Singleton
        <3> HIDE DEF C
        <3>3. C # {}
            BY <2>4, <3>1
        <3>4. ASSUME NEW x, C = {x} PROVE FALSE
            <4>1. Cardinality(C) = 1
                BY <3>2, <3>4
            <4> QED
                BY <2>4, <4>1
        <3> QED
            BY <3>3, <3>4
    <2>6. PICK x \in C, y \in C : x # y
        BY <2>5
    <2>7. C \subseteq StillIn
        BY DEF Init, init_state, StillIn, SeatsWith
    <2> QED
        BY <2>6, <2>7 DEF TwoStillIn
<1> QED
    BY <1>1, <1>2 DEF CoverInv, BetsCovered

\* The small blind is at most SmallBlind, in front of sb_seat alone.
LEMMA SmallBlindCover ==
    ASSUME Rules, Inv, CoverInv, PostSmallBlind PROVE CoverInv'
<1> DEFINE amount == Lesser(SmallBlind, stack[sb_seat])
<1>1. sb_seat \in Seats /\ bet_this_street = NoChips /\ TwoStillIn
    BY SeatsToAct DEF Inv, CoverInv, PostSmallBlind
<1>2. StillIn' = StillIn
    <2>1. StillIn \in SUBSET Seats /\ StillIn # {} /\ dealer \in Seats
        BY <1>1 DEF StillIn, SeatsWith, TwoStillIn, Inv, TypeOK
    <2>2. sb_seat \in StillIn
        BY <2>1, FirstAfterType DEF sb_seat
    <2>3. status' = status \/ status' = [status EXCEPT ![sb_seat] = "AllIn"]
        BY DEF PostSmallBlind, Pay
    <2> QED
        BY <2>2, <2>3 DEF StillIn, SeatsWith, Inv, TypeOK
<1>3. sb_seat' = sb_seat /\ TwoStillIn'
    BY <1>1, <1>2 DEF PostSmallBlind, sb_seat, TwoStillIn, FirstAfter, Distance, args
<1>4. bet_this_street' = [bet_this_street EXCEPT ![sb_seat] = @ + amount]
    BY DEF PostSmallBlind, Pay, Commit
<1>5. amount \in Nat /\ amount <= SmallBlind
    BY <1>1, RulesAssumption DEF Lesser, Inv, TypeOK
<1>6. \A s \in Seats : bet_this_street'[s] <= IF s = sb_seat THEN SmallBlind ELSE 0
    BY <1>1, <1>4, <1>5, RulesAssumption DEF NoChips
<1>7. pc' = "big_blind"
    BY DEF PostSmallBlind
<1> QED
    BY <1>3, <1>6, <1>7 DEF CoverInv, BetsCovered

\* After the big blind no bet exceeds BigBlind, the bet to call.
LEMMA BigBlindCover ==
    ASSUME Rules, Inv, CoverInv, PostBigBlind PROVE CoverInv'
<1> DEFINE amount == Lesser(BigBlind, stack[bb_seat])
<1>1. sb_seat \in Seats /\ bb_seat \in Seats /\ sb_seat # bb_seat
    BY SeatsToAct, BigBlindIsNotSmallBlind DEF Inv, CoverInv, PostBigBlind, TwoStillIn
<1>2. \A s \in Seats : bet_this_street[s] \in Nat
        /\ bet_this_street[s] <= IF s = sb_seat THEN SmallBlind ELSE 0
    BY DEF Inv, TypeOK, CoverInv, PostBigBlind
<1>3. bet_this_street' = [bet_this_street EXCEPT ![bb_seat] = @ + amount]
      /\ bet_this_street \in [Seats -> Nat]
    BY DEF PostBigBlind, Pay, Commit, Inv, TypeOK
<1>4. amount \in Nat /\ amount <= BigBlind /\ SmallBlind <= BigBlind
      /\ SmallBlind \in Nat /\ BigBlind \in Nat
    BY <1>1, RulesAssumption DEF Lesser, Inv, TypeOK, Rules
<1>5. \A s \in Seats : bet_this_street'[s] <= BigBlind
    <2> HIDE DEF amount
    <2> QED
        BY <1>1, <1>2, <1>3, <1>4
<1>6. pc' = "open" /\ current_bet' = BigBlind
    BY DEF PostBigBlind
<1> QED
    BY <1>5, <1>6 DEF CoverInv, BetsCovered

\* No action of an agent leaves a bet beyond the bet to call.
LEMMA ActCover ==
    ASSUME Inv, CoverInv, Act PROVE CoverInv'
<1>1. /\ Prompted /\ \E b \in BOOLEAN : AfterAction(b)
    <2>1. CASE Fold \/ Check \/ Call \/ Raise
        BY <2>1 DEF Fold, Check, Call, Raise
    <2>2. CASE AllIn
        <3>1. Prompted
            BY <2>2 DEF AllIn
        <3>2. \E b \in BOOLEAN : AfterAction(b)
            BY <2>2, AllInResponds
        <3> QED
            BY <3>1, <3>2
    <2> QED
        BY <2>1, <2>2 DEF Act
<1>2. current \in Seats /\ pc = "betting" /\ pc' \in {"award", "betting"}
    BY <1>1, AfterActionKeeps
<1>3. /\ \A s \in Seats : bet_this_street[s] <= current_bet
      /\ bet_this_street \in [Seats -> Nat] /\ stack \in [Seats -> Nat]
      /\ current_bet \in Nat /\ min_raise_increment \in Nat
    BY <1>2 DEF CoverInv, BetsCovered, Inv, TypeOK
<1>4. \A s \in Seats : bet_this_street'[s] <= current_bet'
    <2>1. CASE Fold \/ Check
        BY <1>3, <2>1 DEF Fold, Check, players, betting
    <2>2. CASE Call
        <3>1. /\ bet_this_street' = [bet_this_street EXCEPT ![current] =
                        @ + Lesser(Owed(current), stack[current])]
              /\ current_bet' = current_bet
            BY <2>2 DEF Call, Pay, Commit, betting
        <3>2. /\ Lesser(Owed(current), stack[current]) \in Nat
              /\ bet_this_street[current] + Lesser(Owed(current), stack[current]) <= current_bet
            BY <1>2, <1>3 DEF Lesser, Owed, SaturatingSub
        <3> QED
            BY <1>2, <1>3, <3>1, <3>2
    <2>3. CASE Raise
        <3>1. PICK amount \in 0 .. AllInTotal(current) :
                /\ normalize_action(current, amount) = "Raise"
                /\ Commit(current, SaturatingSub(amount, bet_this_street[current]))
                /\ current_bet' = RaisedTo(current, amount)
            BY <2>3 DEF Raise, RaiseDispatchedAs
        <3>2. amount \in Nat
            BY <1>2, <1>3 DEF AllInTotal
        <3>3. RaisedTo(current, amount) \in Nat /\ RaisedTo(current, amount) - current_bet \in Nat
            BY <3>1, <3>2, RaiseCovered DEF Inv
        <3>4. bet_this_street' = [bet_this_street EXCEPT ![current] = RaisedTo(current, amount)]
            BY <1>2, <1>3, <3>1 DEF Commit, RaisedTo
        <3> QED
            BY <1>2, <1>3, <3>1, <3>3, <3>4
    <2>4. CASE AllIn
        <3>1. bet_this_street' = [bet_this_street EXCEPT ![current] = AllInTotal(current)]
            BY <1>2, <1>3, <2>4 DEF AllIn, Commit, AllInTotal
        <3>2. AllInTotal(current) \in Nat
            BY <1>2, <1>3 DEF AllInTotal
        <3>3. current_bet' >= current_bet /\ current_bet' >= AllInTotal(current)
              /\ current_bet' \in Nat
            <4>1. CASE AllInUnderneath
                BY <1>3, <3>2, <4>1 DEF AllInUnderneath, betting
            <4>2. CASE AllInFullRaise
                BY <1>3, <3>2, <4>2 DEF AllInFullRaise
            <4>3. CASE AllInShortRaise
                BY <1>3, <3>2, <4>3 DEF AllInShortRaise
            <4> QED
                BY <2>4, <4>1, <4>2, <4>3 DEF AllIn
        <3> QED
            BY <1>2, <1>3, <3>1, <3>2, <3>3
    <2> QED
        BY <2>1, <2>2, <2>3, <2>4 DEF Act
<1> QED
    BY <1>2, <1>4 DEF CoverInv, BetsCovered

\* The other steps of a hand leave bets and the bet to call alone, or reset both.
LEMMA OtherCover ==
    ASSUME Inv, CoverInv,
           \/ PostAnte \/ OpenBetting \/ SkipSettled \/ EndRound \/ DealStreet
           \/ GoToShowdown \/ Showdown \/ AwardUncontested \/ UNCHANGED vars
    PROVE  CoverInv'
<1>1. CASE OpenBetting
    BY <1>1 DEF OpenBetting, CoverInv, BetsCovered, betting
<1>2. CASE SkipSettled
    BY <1>2 DEF SkipSettled, CoverInv, BetsCovered, players, betting
<1>3. CASE DealStreet
    BY <1>3 DEF DealStreet, CoverInv, BetsCovered
<1>4. CASE EndRound \/ GoToShowdown \/ Showdown \/ AwardUncontested
    BY <1>4 DEF EndRound, GoToShowdown, Showdown, AwardUncontested, CoverInv, BetsCovered
<1>5. CASE PostAnte
    BY <1>5 DEF PostAnte, CoverInv
<1>6. CASE UNCHANGED vars
    BY <1>6 DEF vars, args, players, betting, CoverInv, BetsCovered, TwoStillIn, StillIn,
                SeatsWith, sb_seat, FirstAfter, Distance
<1> QED
    BY <1>1, <1>2, <1>3, <1>4, <1>5, <1>6

\* CoverInv is inductive relative to Inv.
LEMMA CoverStep == ASSUME Rules PROVE Inv /\ CoverInv /\ [Next]_vars => CoverInv'
BY SmallBlindCover, BigBlindCover, ActCover, OtherCover DEF Next

\* No seat's bet exceeds the bet to call, so that run_betting_round can find it
\* settled, whatever the agents answer.  The hypotheses are needed: an ante, or
\* a seat that posts both blinds, breaks it (README, Observations).
THEOREM BetsAreCovered == ASSUME Rules PROVE Spec => []BetsCovered
<1>1. CoverInv => BetsCovered
    BY DEF CoverInv
<1> QED
    BY InitCover, CoverStep, Invariance, <1>1, PTL DEF Spec

-----------------------------------------------------------------------------
(* Who plays the hand *)

\* The seats the hand is really between: live, with chips at the start.
Contenders == {s \in Seats : seat_kinds[s] = "Live" /\ stacks[s] > 0}
TwoContenders == \E x, y \in Contenders : x # y

Opening == {"antes", "small_blind", "big_blind", "open"}

\* Every hand starts between MinContenders >= 2 seats.
LEMMA ContendersAtStart == ASSUME MinContenders >= 2, Init PROVE TwoContenders
<1>1. Contenders \in SUBSET Seats
    BY DEF Contenders
<1>2. IsFiniteSet(Contenders) /\ Cardinality(Contenders) \in Nat
    BY <1>1, SeatsFinite
<1>3. Cardinality(Contenders) >= MinContenders /\ MinContenders \in Nat
    BY RulesAssumption DEF Init, Contenders
<1>4. Cardinality(Contenders) >= 2
    BY <1>2, <1>3
<1>5. Cardinality({}) = 0 /\ \A x : Cardinality({x}) = 1
    BY FS_EmptySet, FS_Singleton
<1>6. Contenders # {}
    BY <1>4, <1>5
<1>7. ASSUME NEW x, Contenders = {x} PROVE FALSE
    <2>1. Cardinality(Contenders) = 1
        BY <1>5, <1>7
    <2> QED
        BY <1>4, <2>1
<1>8. PICK x \in Contenders : TRUE
    BY <1>6
<1>9. PICK y \in Contenders : y # x
    BY <1>7, <1>8
<1> QED
    BY <1>8, <1>9 DEF TwoContenders

\* A set of seats with an element and not exactly one has two.
LEMMA NotOneIsTwo ==
    ASSUME NEW S \in SUBSET Seats, S # {}, Cardinality(S) # 1
    PROVE  \E x, y \in S : x # y
<1>1. PICK x \in S : TRUE
    OBVIOUS
<1>2. S # {x}
    BY FS_Singleton
<1> QED
    BY <1>1, <1>2

-----------------------------------------------------------------------------
(* Contenders have matched each other *)

\* What a seat committed on the streets before this one.
Earlier(s) == total_committed[s] - bet_this_street[s]

\* In a round the active seats are level on the earlier streets; between two
\* rounds on all of them.
MatchInv ==
    /\ pc \in {"small_blind", "big_blind", "open", "betting"} =>
         \A s \in ActiveSeats, t \in StillIn : Earlier(t) <= Earlier(s)
    /\ pc \in {"street", "showdown"} =>
         \A s \in ActiveSeats, t \in StillIn : total_committed[t] <= total_committed[s]

\* Before the blinds nobody has committed anything.
LEMMA InitMatch == Init => MatchInv
<1> SUFFICES ASSUME Init PROVE MatchInv
    OBVIOUS
<1>1. \A s \in Seats : Earlier(s) = 0
    BY DEF Init, init_state, Earlier
<1>2. ActiveSeats \subseteq Seats /\ StillIn \subseteq Seats
    BY DEF ActiveSeats, StillIn, SeatsWith
<1>3. \A s \in ActiveSeats, t \in StillIn : Earlier(t) <= Earlier(s)
    BY <1>1, <1>2
<1> QED
    BY <1>3 DEF Init, MatchInv

\* A step of a round leaves the earlier streets alone, and nobody comes back in.
LEMMA RoundStepMatch ==
    ASSUME Inv, MatchInv, pc \in {"small_blind", "big_blind", "open", "betting"},
           pc' \in {"big_blind", "open", "betting", "award"},
           \A s \in Seats : Earlier(s)' = Earlier(s),
           ActiveSeats' \subseteq ActiveSeats, StillIn' \subseteq StillIn
    PROVE  MatchInv'
<1>1. ActiveSeats \subseteq Seats /\ StillIn \subseteq Seats
    BY DEF ActiveSeats, StillIn, SeatsWith
<1>2. \A s \in ActiveSeats, t \in StillIn : Earlier(t) <= Earlier(s)
    BY DEF MatchInv
<1>3. \A s \in ActiveSeats', t \in StillIn' : Earlier(t)' <= Earlier(s)'
    BY <1>1, <1>2
<1> QED
    BY <1>3 DEF MatchInv

\* Chips committed now are not chips of an earlier street.
LEMMA CommitEarlier ==
    ASSUME TypeOK, NEW seat \in Seats, NEW amount \in Nat, Commit(seat, amount)
    PROVE  \A s \in Seats : Earlier(s)' = Earlier(s)
BY DEF TypeOK, Commit, Earlier

\* A post or call takes nobody back in.
LEMMA PayStatus ==
    ASSUME TypeOK, NEW seat \in Seats, NEW amount, Pay(seat, amount),
           status[seat] = "Active" \/ seat \in StillIn
    PROVE  ActiveSeats' \subseteq ActiveSeats /\ StillIn' \subseteq StillIn
<1>1. status' = status \/ status' = [status EXCEPT ![seat] = "AllIn"]
    BY DEF Pay
<1>2. seat \in StillIn
    BY DEF StillIn, SeatsWith
<1> QED
    BY <1>1, <1>2 DEF ActiveSeats, StillIn, SeatsWith, TypeOK

\* post_blinds.
LEMMA BlindsMatch ==
    ASSUME Inv, CoverInv, MatchInv, PostSmallBlind \/ PostBigBlind
    PROVE  MatchInv'
<1>1. /\ StillIn \in SUBSET Seats /\ StillIn # {} /\ dealer \in Seats
    BY DEF StillIn, SeatsWith, TwoStillIn, Inv, TypeOK, CoverInv, PostSmallBlind, PostBigBlind
<1>2. sb_seat \in StillIn /\ sb_seat \in Seats
    BY <1>1, FirstAfterType DEF sb_seat
<1>3. bb_seat \in StillIn /\ bb_seat \in Seats
    BY <1>1, <1>2, FirstAfterType DEF bb_seat
<1>4. PICK seat \in StillIn, blind \in {SmallBlind, BigBlind} :
        Pay(seat, Lesser(blind, stack[seat]))
    BY <1>2, <1>3 DEF PostSmallBlind, PostBigBlind
<1>5. seat \in Seats /\ Lesser(blind, stack[seat]) \in Nat
    BY <1>1, <1>4, RulesAssumption DEF Lesser, Inv, TypeOK
<1>6. \A s \in Seats : Earlier(s)' = Earlier(s)
    BY <1>4, <1>5, CommitEarlier DEF Pay, Inv
<1>7. ActiveSeats' \subseteq ActiveSeats /\ StillIn' \subseteq StillIn
    BY <1>4, <1>5, PayStatus DEF Inv
<1> QED
    BY <1>6, <1>7, RoundStepMatch DEF PostSmallBlind, PostBigBlind

\* apply_action.
LEMMA ActMatch ==
    ASSUME Inv, MatchInv, Act PROVE MatchInv'
<1>1. /\ Prompted /\ \E b \in BOOLEAN : AfterAction(b)
    <2>1. CASE Fold \/ Check \/ Call \/ Raise
        BY <2>1 DEF Fold, Check, Call, Raise
    <2>2. CASE AllIn
        BY <2>2, AllInResponds DEF AllIn
    <2> QED
        BY <2>1, <2>2 DEF Act
<1>2. current \in Seats /\ pc = "betting" /\ pc' \in {"award", "betting"}
    BY <1>1, AfterActionKeeps
<1>3. status[current] = "Active"
    BY <1>1 DEF Prompted, Settled
<1>4. \A s \in Seats : Earlier(s)' = Earlier(s)
    <2>1. CASE Fold \/ Check
        BY <2>1 DEF Fold, Check, players, Earlier
    <2>2. CASE Call
        <3>1. Lesser(Owed(current), stack[current]) \in Nat
            BY <1>2 DEF Inv, TypeOK, Owed, SaturatingSub, Lesser
        <3> QED
            BY <1>2, <2>2, <3>1, CommitEarlier DEF Call, Pay, Inv
    <2>3. CASE Raise
        <3>1. PICK amount \in 0 .. AllInTotal(current) :
                /\ normalize_action(current, amount) = "Raise"
                /\ Commit(current, SaturatingSub(amount, bet_this_street[current]))
            BY <2>3 DEF Raise, RaiseDispatchedAs
        <3>2. amount \in Nat
            BY <1>2 DEF AllInTotal, Inv, TypeOK
        <3>3. SaturatingSub(amount, bet_this_street[current]) \in Nat
            BY <3>1, <3>2, RaiseCovered DEF Inv
        <3> QED
            BY <1>2, <3>1, <3>3, CommitEarlier DEF Inv
    <2>4. CASE AllIn
        <3>1. stack[current] \in Nat
            BY <1>2 DEF Inv, TypeOK
        <3> QED
            BY <1>2, <2>4, <3>1, CommitEarlier DEF AllIn, Inv
    <2> QED
        BY <2>1, <2>2, <2>3, <2>4 DEF Act
<1>5. ActiveSeats' \subseteq ActiveSeats /\ StillIn' \subseteq StillIn
    <2>1. \/ status' = status
          \/ status' = [status EXCEPT ![current] = "AllIn"]
          \/ status' = [status EXCEPT ![current] = "Folded"]
        BY DEF Act, Fold, Check, Call, Raise, AllIn, Pay, players
    <2> QED
        BY <1>2, <1>3, <2>1 DEF ActiveSeats, StillIn, SeatsWith, Inv, TypeOK
<1> QED
    BY <1>2, <1>4, <1>5, RoundStepMatch

\* The round ends with the bet to call in front of every active seat, and no
\* bet beyond it.
LEMMA EndRoundMatch ==
    ASSUME Inv, CoverInv, MatchInv, EndRound PROVE MatchInv'
<1>1. pc = "betting" /\ pc' = "street" /\ UNCHANGED <<total_committed, status>>
    BY DEF EndRound
<1>2. /\ ActiveSeats' = ActiveSeats /\ StillIn' = StillIn
      /\ ActiveSeats \subseteq Seats /\ StillIn \subseteq Seats
    BY <1>1 DEF ActiveSeats, StillIn, SeatsWith
<1>3. ASSUME NEW s \in ActiveSeats, NEW t \in StillIn
      PROVE  total_committed[t] <= total_committed[s]
    <2>1. bet_this_street[s] = current_bet
        BY <1>2 DEF EndRound, AllSettled, Settled, ActiveSeats, SeatsWith
    <2>2. bet_this_street[t] <= current_bet
        BY <1>1, <1>2 DEF CoverInv, BetsCovered
    <2>3. Earlier(t) <= Earlier(s)
        BY <1>1 DEF MatchInv
    <2>4. /\ total_committed[t] \in Nat /\ total_committed[s] \in Nat
          /\ bet_this_street[t] \in Nat /\ bet_this_street[s] \in Nat
        BY <1>2 DEF Inv, TypeOK
    <2> QED
        BY <2>1, <2>2, <2>3, <2>4 DEF Earlier
<1> QED
    BY <1>1, <1>2, <1>3 DEF MatchInv

\* begin_street.
LEMMA DealStreetMatch ==
    ASSUME Inv, MatchInv, DealStreet PROVE MatchInv'
<1>1. /\ pc = "street" /\ pc' \in {"street", "betting"} /\ UNCHANGED <<total_committed, status>>
      /\ bet_this_street' = NoChips
    BY DEF DealStreet, NoChips
<1>2. /\ ActiveSeats' = ActiveSeats /\ StillIn' = StillIn
      /\ ActiveSeats \subseteq Seats /\ StillIn \subseteq Seats
    BY <1>1 DEF ActiveSeats, StillIn, SeatsWith
<1>3. \A s \in ActiveSeats, t \in StillIn : total_committed[t] <= total_committed[s]
    BY <1>1 DEF MatchInv
<1>4. \A s \in Seats : Earlier(s)' = total_committed[s]
    BY <1>1 DEF Earlier, NoChips, Inv, TypeOK
<1>5. \A s \in ActiveSeats, t \in StillIn : Earlier(t)' <= Earlier(s)'
    BY <1>2, <1>3, <1>4
<1> QED
    BY <1>1, <1>2, <1>3, <1>5 DEF MatchInv

\* The remaining steps.
LEMMA OtherMatch ==
    ASSUME Inv, CoverInv, MatchInv,
           \/ PostAnte \/ OpenBetting \/ SkipSettled \/ GoToShowdown
           \/ Showdown \/ AwardUncontested \/ UNCHANGED vars
    PROVE  MatchInv'
<1>1. CASE OpenBetting
    <2>1. /\ ActiveSeats' \subseteq ActiveSeats /\ StillIn' \subseteq StillIn
        BY <1>1 DEF OpenBetting, DeadHandsFolded, ActiveSeats, StillIn, SeatsWith
    <2>2. \A s \in Seats : Earlier(s)' = Earlier(s)
        BY <1>1 DEF OpenBetting, Earlier
    <2>3. pc = "open" /\ pc' \in {"betting", "award"}
        BY <1>1 DEF OpenBetting
    <2> QED
        BY <2>1, <2>2, <2>3, RoundStepMatch
<1>2. CASE SkipSettled
    BY <1>2 DEF SkipSettled, players, MatchInv, Earlier, ActiveSeats, StillIn, SeatsWith
<1>3. CASE GoToShowdown
    BY <1>3 DEF GoToShowdown, players, MatchInv, ActiveSeats, StillIn, SeatsWith
<1>4. CASE Showdown \/ AwardUncontested
    BY <1>4 DEF Showdown, AwardUncontested, MatchInv
<1>5. CASE PostAnte
    BY <1>5 DEF PostAnte, CoverInv
<1>6. CASE UNCHANGED vars
    BY <1>6 DEF vars, players, MatchInv, Earlier, ActiveSeats, StillIn, SeatsWith
<1> QED
    BY <1>1, <1>2, <1>3, <1>4, <1>5, <1>6

\* At the showdown every seat that is not all in has committed as much as any
\* seat still in: no betting round of run_streets ends early.
THEOREM ContendersHaveMatched == ASSUME Rules PROVE Spec => []ContendersMatched
<1>1. Inv /\ CoverInv /\ MatchInv /\ [Next]_vars => MatchInv'
    BY BlindsMatch, ActMatch, EndRoundMatch, DealStreetMatch, OtherMatch DEF Next
<1>2. MatchInv => ContendersMatched
    BY DEF MatchInv, ContendersMatched
<1> QED
    BY InitCover, CoverStep, InitMatch, Invariance, <1>1, <1>2, PTL DEF Spec

-----------------------------------------------------------------------------
(* Reopening *)

\* Everybody else's response is cleared exactly by an aggression.
LEMMA RespondedAfterAction ==
    ASSUME NEW b \in BOOLEAN, AfterAction(b), has_responded \in [Seats -> BOOLEAN],
           \E s \in Seats \ {current} : has_responded[s]
    PROVE  (\A s \in Seats \ {current} : ~ has_responded'[s]) <=> b
<1>1. \A s \in Seats \ {current} : has_responded'[s] <=> has_responded[s] /\ ~ b
    BY DEF AfterAction, RespondedAfter
<1> QED
    BY <1>1

\* The bet has grown by a full raise since the last one.
Full == current_bet' - LastFullRaise >= min_raise_increment

\* What the next raises count from: this one, if it is full by itself.
CountsFrom == LastFullRaise' = IF current_bet' - current_bet >= min_raise_increment
                               THEN current_bet' ELSE LastFullRaise

\* apply_action reports an aggression exactly after a full raise, and keeps
\* cumulative_short_increment in step with the bet.
LEMMA AggressionIsFull ==
    ASSUME TypeOK, Act, current_bet' # current_bet
    PROVE  CountsFrom /\ \E b \in BOOLEAN : AfterAction(b) /\ (b <=> Full)
<1>1. /\ current_bet \in Nat /\ min_raise_increment \in Nat
      /\ cumulative_short_increment \in Nat /\ AllInTotal(current) \in Nat
    BY DEF TypeOK, AllInTotal
<1>2. CASE Fold \/ Check \/ Call
    BY <1>2 DEF Fold, Check, Call, betting
<1>3. CASE Raise
    <2>1. PICK amount \in 0 .. AllInTotal(current) :
            /\ normalize_action(current, amount) = "Raise"
            /\ current_bet' = RaisedTo(current, amount)
        BY <1>3 DEF Raise, RaiseDispatchedAs
    <2>2. /\ RaisedTo(current, amount) \in Nat
          /\ RaisedTo(current, amount) >= current_bet + min_raise_increment
        BY <1>1, <2>1, RaiseCovered
    <2>3. cumulative_short_increment' = 0 /\ AfterAction(TRUE)
        BY <1>3 DEF Raise
    <2>4. Full /\ CountsFrom
        BY <1>1, <2>1, <2>2, <2>3 DEF Full, CountsFrom, LastFullRaise
    <2> QED
        BY <2>3, <2>4
<1>4. CASE AllIn /\ AllInUnderneath
    BY <1>4 DEF AllInUnderneath, betting
<1>5. CASE AllIn /\ AllInFullRaise
    <2>1. /\ AfterAction(TRUE) /\ current_bet' = AllInTotal(current)
          /\ AllInTotal(current) - current_bet >= min_raise_increment
          /\ cumulative_short_increment' = 0
        BY <1>5 DEF AllInFullRaise
    <2>2. Full /\ CountsFrom
        BY <1>1, <2>1 DEF Full, CountsFrom, LastFullRaise
    <2> QED
        BY <2>1, <2>2
<1>6. CASE AllIn /\ AllInShortRaise
    <2> DEFINE b == cumulative_short_increment + (AllInTotal(current) - current_bet)
                      >= min_raise_increment
    <2>1. /\ AfterAction(b) /\ current_bet' = AllInTotal(current)
          /\ AllInTotal(current) - current_bet < min_raise_increment
          /\ cumulative_short_increment'
               = cumulative_short_increment + (AllInTotal(current) - current_bet)
        BY <1>6 DEF AllInShortRaise
    <2>2. b \in BOOLEAN
        OBVIOUS
    <2>3. (b <=> Full) /\ CountsFrom
        BY <1>1, <2>1 DEF Full, CountsFrom, LastFullRaise
    <2> HIDE DEF b
    <2> QED
        BY <2>1, <2>2, <2>3
<1> QED
    BY <1>2, <1>3, <1>4, <1>5, <1>6 DEF Act, AllIn

\* run_betting_round lets the seats that have acted act anew exactly when the
\* bet has grown by a full raise since the last one, at once or by several short
\* all-ins, and the count starts again at every raise that is full by itself.
THEOREM ReopensExactly == Spec => ReopensOnFullRaise
<1> DEFINE Responded == \E s \in Seats \ {current} : has_responded[s]
           Cleared == \A s \in Seats \ {current} : ~ has_responded'[s]
<1>1. TypeOK => RaiseReopens
    <2> SUFFICES ASSUME TypeOK, Act, current_bet' # current_bet
                 PROVE  (Responded => (Cleared <=> Full)) /\ CountsFrom
        BY DEF RaiseReopens, Full, CountsFrom
    <2>1. PICK b \in BOOLEAN : AfterAction(b) /\ (b <=> Full)
        BY AggressionIsFull
    <2>2. has_responded \in [Seats -> BOOLEAN]
        BY DEF TypeOK
    <2>3. Responded => (Cleared <=> b)
        BY <2>1, <2>2, RespondedAfterAction
    <2> QED
        BY <2>1, <2>3, AggressionIsFull
<1> QED
    BY TypeCorrect, <1>1, PTL DEF ReopensOnFullRaise

-----------------------------------------------------------------------------
(* A pot is awarded without a showdown to the last seat in, or over posts *)

\* Until the first action a seat is out for want of chips, active, or all in
\* with an ante and a blind.
InOpening(s) ==
    \/ stacks[s] = 0 /\ status[s] = "Out"
    \/ stacks[s] > 0 /\ status[s] = "Active"
    \/ stacks[s] > 0 /\ status[s] = "AllIn" /\ stacks[s] <= LargestPost

\* What the seats have committed at each place of the opening, at most.
OpeningPosts ==
    /\ pc = "antes" => \A s \in Seats : total_committed[s] <= IF s < current THEN Ante ELSE 0
    /\ pc = "small_blind" => \A s \in Seats : total_committed[s] <= Ante
    /\ pc = "big_blind" =>
         \A s \in Seats : total_committed[s] <= Ante + IF s = sb_seat THEN SmallBlind ELSE 0

AwardInv ==
    /\ TwoContenders
    /\ pc \in Opening => \A s \in Seats : InOpening(s)
    /\ OpeningPosts
    /\ ContestedAwardIsPosts

\* A hand starts with every seat that has chips active and nothing committed.
LEMMA InitAward == ASSUME MinContenders >= 2 PROVE Init => AwardInv
<1> SUFFICES ASSUME Init PROVE AwardInv
    OBVIOUS
<1>1. TwoContenders /\ stacks \in [Seats -> Nat]
    BY ContendersAtStart, RulesAssumption DEF Init
<1>2. \A s \in Seats : InOpening(s)
    BY <1>1 DEF Init, init_state, InOpening
<1>3. /\ \A s \in Seats : total_committed[s] = 0
      /\ Ante \in Nat /\ current = 0
      /\ pc = IF Ante > 0 THEN "antes" ELSE "small_blind"
    BY RulesAssumption DEF Init, init_state
<1>4. OpeningPosts
    BY <1>3 DEF OpeningPosts
<1>5. ContestedAwardIsPosts
    BY <1>3 DEF ContestedAwardIsPosts
<1> QED
    BY <1>1, <1>2, <1>4, <1>5 DEF AwardInv

\* What a seat has left during the opening is what it brought less what it posted.
LEMMA LeftInOpening ==
    ASSUME Inv, AwardInv, pc \in Opening
    PROVE  /\ \A s \in Seats : stack[s] = stacks[s] - total_committed[s]
           /\ StillIn = {s \in Seats : stacks[s] > 0}
           /\ \E x, y \in StillIn : x # y
<1>1. \A s \in Seats : stack[s] = stacks[s] - total_committed[s]
    BY DEF Inv, TypeOK, SeatAccounting, ChipDelta, NotPaidYet, NoChips, Opening
<1>2. StillIn = {s \in Seats : stacks[s] > 0}
    BY DEF AwardInv, InOpening, StillIn, SeatsWith
<1>3. \E x, y \in StillIn : x # y
    BY <1>2 DEF AwardInv, TwoContenders, Contenders
<1> QED
    BY <1>1, <1>2, <1>3

\* A post puts a seat all in only with what it had left for it.
LEMMA PostInOpening ==
    ASSUME Inv, AwardInv, pc \in Opening, NEW seat \in Seats, stacks[seat] > 0, UNCHANGED args,
           NEW amount \in Nat, total_committed[seat] + amount <= LargestPost,
           Pay(seat, Lesser(amount, stack[seat]))
    PROVE  /\ \A s \in Seats : InOpening(s)'
           /\ total_committed'[seat] <= total_committed[seat] + amount
           /\ \A s \in Seats : s # seat => total_committed'[s] = total_committed[s]
           /\ StillIn' = StillIn
<1>1. /\ \A s \in Seats : InOpening(s) /\ status[s] \in PlayerStatus
      /\ status \in [Seats -> PlayerStatus]
      /\ stack[seat] \in Nat /\ stacks[seat] \in Nat
      /\ total_committed \in [Seats -> Nat] /\ total_committed[seat] \in Nat
      /\ stack[seat] = stacks[seat] - total_committed[seat]
    BY LeftInOpening DEF AwardInv, Inv, TypeOK
<1>2. Lesser(amount, stack[seat]) \in Nat /\ Lesser(amount, stack[seat]) <= amount
    BY <1>1 DEF Lesser
<1>3. /\ total_committed'[seat] = total_committed[seat] + Lesser(amount, stack[seat])
      /\ \A s \in Seats : s # seat => total_committed'[s] = total_committed[s]
    BY <1>1 DEF Pay, Commit
<1>4. /\ \A s \in Seats : s # seat => status'[s] = status[s]
      /\ status'[seat] = IF stack[seat] = Lesser(amount, stack[seat]) THEN "AllIn" ELSE status[seat]
    BY <1>1 DEF Pay
<1>5. stacks' = stacks /\ LargestPost \in Nat /\ LargestPost' = LargestPost
    BY RulesAssumption DEF args, LargestPost
<1>6. \A s \in Seats : s # seat => InOpening(s)'
    BY <1>1, <1>4, <1>5 DEF InOpening
<1>7. InOpening(seat)'
    <2>1. CASE stack[seat] = Lesser(amount, stack[seat])
        <3>1. stacks[seat] <= total_committed[seat] + amount
            BY <1>1, <1>2, <2>1
        <3>2. stacks[seat] <= LargestPost
            BY <1>1, <1>5, <3>1
        <3> QED
            BY <1>4, <1>5, <2>1, <3>2 DEF InOpening
    <2>2. CASE stack[seat] # Lesser(amount, stack[seat])
        BY <1>1, <1>4, <1>5, <2>2 DEF InOpening
    <2> QED
        BY <2>1, <2>2
<1>8. \A s \in Seats : InOpening(s)'
    BY <1>6, <1>7
<1>9. StillIn' = StillIn
    <2>1. \A s \in Seats : s \in StillIn <=> stacks[s] > 0
        BY <1>1 DEF InOpening, StillIn, SeatsWith
    <2>2. \A s \in Seats : s \in StillIn' <=> stacks[s] > 0
        BY <1>8, <1>5 DEF InOpening, StillIn, SeatsWith
    <2>3. StillIn \subseteq Seats /\ StillIn' \subseteq Seats
        BY DEF StillIn, SeatsWith
    <2> QED
        BY <2>1, <2>2, <2>3
<1> QED
    BY <1>1, <1>2, <1>3, <1>8, <1>9

\* Nothing but the statuses and the commitments matters to AwardInv.
LEMMA OpeningStepAward ==
    ASSUME AwardInv, pc \in Opening, pc' \in Opening, UNCHANGED args,
           \A s \in Seats : InOpening(s)', OpeningPosts'
    PROVE  AwardInv'
<1>1. TwoContenders'
    BY DEF AwardInv, TwoContenders, Contenders, args
<1>2. ContestedAwardIsPosts'
    BY DEF ContestedAwardIsPosts, Opening
<1> QED
    BY <1>1, <1>2 DEF AwardInv

\* post_antes: an ante is all that is taken of a seat.
LEMMA AntesAward ==
    ASSUME Inv, AwardInv, PostAnte
    PROVE  AwardInv'
<1>1. /\ pc = "antes" /\ pc \in Opening /\ pc' \in Opening /\ UNCHANGED args
      /\ current \in Seats /\ TypeOK
    BY DEF PostAnte, Opening, Inv, TypeOK
<1>2. Ante \in Nat /\ SmallBlind \in Nat /\ BigBlind \in Nat /\ Ante <= LargestPost
    BY RulesAssumption DEF LargestPost
<1>3. /\ total_committed \in [Seats -> Nat] /\ current \in 0 .. (N - 1)
      /\ \A s \in Seats : total_committed[s] <= IF s < current THEN Ante ELSE 0
    BY <1>1 DEF AwardInv, OpeningPosts, TypeOK, Seats
<1>4. total_committed[current] = 0
    BY <1>1, <1>3 DEF Seats
<1>5. /\ \A s \in Seats : InOpening(s)'
      /\ total_committed'[current] <= Ante
      /\ \A s \in Seats : s # current => total_committed'[s] = total_committed[s]
    <2>1. CASE status[current] = "Active"
        <3>1. stacks[current] > 0 /\ Pay(current, Lesser(Ante, stack[current]))
            BY <1>1, <2>1 DEF AwardInv, InOpening, PostAnte
        <3> QED
            BY <1>1, <1>2, <1>4, <3>1, PostInOpening
    <2>2. CASE status[current] # "Active"
        <3>1. UNCHANGED <<stacks, status, total_committed>>
            BY <1>1, <2>2 DEF PostAnte, players, args
        <3>2. \A s \in Seats : InOpening(s)'
            BY <1>1, <3>1 DEF AwardInv, InOpening, LargestPost
        <3> QED
            BY <1>2, <1>4, <3>1, <3>2
    <2> QED
        BY <2>1, <2>2
<1>6. /\ \A s \in Seats : total_committed'[s] <= IF s <= current THEN Ante ELSE 0
      /\ \A s \in Seats : s \in 0 .. (N - 1)
    <2>1. \A s \in Seats : s \in 0 .. (N - 1)
        BY DEF Seats
    <2>2. ASSUME NEW s \in Seats
          PROVE  total_committed'[s] <= IF s <= current THEN Ante ELSE 0
        <3>1. s \in Int /\ current \in Int /\ total_committed[s] \in Nat
            BY <1>3, <2>1
        <3>2. total_committed[s] <= IF s < current THEN Ante ELSE 0
            BY <1>3
        <3>3. CASE s = current
            BY <1>5, <3>1, <3>3
        <3>4. CASE s # current
            BY <1>2, <1>5, <3>1, <3>2, <3>4
        <3> QED
            BY <3>3, <3>4
    <2> QED
        BY <2>1, <2>2
<1>7. OpeningPosts'
    <2>1. CASE current = N - 1
        <3>1. pc' = "small_blind" /\ N \in Nat
            BY <2>1, SeatsAssumption DEF PostAnte
        <3>2. \A s \in Seats : total_committed'[s] <= Ante
            BY <1>6, <2>1, <3>1
        <3> QED
            BY <3>1, <3>2 DEF OpeningPosts
    <2>2. CASE current # N - 1
        <3>1. pc' = "antes" /\ current' = current + 1
            BY <2>2 DEF PostAnte, NextSeat
        <3>2. \A s \in Seats : s <= current <=> s < current'
            BY <1>3, <1>6, <3>1
        <3>3. \A s \in Seats : total_committed'[s] <= IF s < current' THEN Ante ELSE 0
            BY <1>6, <3>2
        <3> QED
            BY <3>1, <3>3 DEF OpeningPosts
    <2> QED
        BY <2>1, <2>2
<1> QED
    BY <1>1, <1>5, <1>7, OpeningStepAward

\* post_blinds: the blinds come from two seats.
LEMMA BlindsAward ==
    ASSUME Inv, AwardInv, PostSmallBlind \/ PostBigBlind
    PROVE  AwardInv'
<1>1. /\ pc \in Opening /\ pc' \in Opening /\ UNCHANGED args /\ TypeOK
    BY DEF PostSmallBlind, PostBigBlind, Opening, Inv
<1>2. /\ Ante \in Nat /\ SmallBlind \in Nat /\ BigBlind \in Nat
      /\ Ante + SmallBlind <= LargestPost /\ Ante + BigBlind <= LargestPost /\ LargestPost \in Nat
      /\ total_committed \in [Seats -> Nat]
    BY <1>1, RulesAssumption DEF TypeOK, LargestPost
<1>3. /\ StillIn \in SUBSET Seats /\ StillIn # {} /\ dealer \in Seats
      /\ \A s \in StillIn : s \in Seats /\ stacks[s] > 0
    BY <1>1, LeftInOpening DEF TypeOK
<1>4. sb_seat \in StillIn /\ sb_seat \in Seats
    BY <1>3, FirstAfterType DEF sb_seat
<1>5. bb_seat \in StillIn /\ bb_seat \in Seats
    BY <1>3, <1>4, FirstAfterType DEF bb_seat
<1>6. sb_seat # bb_seat
    BY <1>1, LeftInOpening, BigBlindIsNotSmallBlind
<1>7. CASE PostSmallBlind
    <2>1. \A s \in Seats : total_committed[s] <= Ante
        BY <1>7 DEF PostSmallBlind, AwardInv, OpeningPosts
    <2>2. total_committed[sb_seat] + SmallBlind <= LargestPost
        BY <1>2, <1>4, <2>1
    <2> DEFINE seat == sb_seat
    <2>3. Pay(seat, Lesser(SmallBlind, stack[seat]))
        BY <1>7 DEF PostSmallBlind
    <2> HIDE DEF seat
    <2>4. seat \in Seats /\ stacks[seat] > 0 /\ total_committed[seat] + SmallBlind <= LargestPost
        BY <1>3, <1>4, <2>2 DEF seat
    <2>5. /\ \A s \in Seats : InOpening(s)'
          /\ total_committed'[seat] <= total_committed[seat] + SmallBlind
          /\ \A s \in Seats : s # seat => total_committed'[s] = total_committed[s]
          /\ StillIn' = StillIn
        BY <1>1, <1>2, <2>3, <2>4, PostInOpening
    <2>6. sb_seat' = sb_seat
        BY <1>1, <2>5 DEF sb_seat, args
    <2>7. total_committed'[seat] \in Int
        BY <1>2, <2>3, <2>4 DEF Pay, Commit, Lesser, TypeOK, Inv
    <2>8. \A s \in Seats : total_committed'[s] <= Ante + IF s = seat THEN SmallBlind ELSE 0
        BY <1>2, <2>1, <2>4, <2>5, <2>7
    <2>9. OpeningPosts'
        BY <1>7, <2>6, <2>8 DEF OpeningPosts, PostSmallBlind, seat
    <2> QED
        BY <1>1, <2>5, <2>9, OpeningStepAward
<1>8. CASE PostBigBlind
    <2>1. total_committed[bb_seat] <= Ante
        BY <1>2, <1>5, <1>6, <1>8 DEF PostBigBlind, AwardInv, OpeningPosts
    <2>2. total_committed[bb_seat] + BigBlind <= LargestPost
        BY <1>2, <1>5, <2>1
    <2>3. \A s \in Seats : InOpening(s)'
        BY <1>1, <1>2, <1>3, <1>5, <1>8, <2>2, PostInOpening DEF PostBigBlind
    <2>4. OpeningPosts'
        BY <1>8 DEF OpeningPosts, PostBigBlind
    <2> QED
        BY <1>1, <2>3, <2>4, OpeningStepAward
<1> QED
    BY <1>7, <1>8

\* The betting opens, or every seat that is in is all in with its post.
LEMMA OpenAward == ASSUME AwardInv, OpenBetting PROVE AwardInv'
<1>1. pc = "open" /\ stacks' = stacks /\ seat_kinds' = seat_kinds /\ status' = DeadHandsFolded
    BY DEF OpenBetting, args
<1>2. TwoContenders'
    BY <1>1 DEF AwardInv, TwoContenders, Contenders
<1>3. pc' = "betting" \/ (pc' = "award" /\ SeatsWith(DeadHandsFolded, {"Active"}) = {})
    BY DEF OpenBetting
<1>4. ASSUME SeatsWith(DeadHandsFolded, {"Active"}) = {}, NEW s \in StillIn'
      PROVE  stacks'[s] <= LargestPost'
    <2>1. s \in Seats /\ DeadHandsFolded[s] = "AllIn"
        BY <1>1, <1>4 DEF StillIn, SeatsWith
    <2>2. status[s] = "AllIn" /\ InOpening(s)
        BY <1>1, <2>1 DEF DeadHandsFolded, AwardInv, Opening
    <2> QED
        BY <1>1, <2>2 DEF InOpening, LargestPost
<1>5. ContestedAwardIsPosts'
    BY <1>3, <1>4 DEF ContestedAwardIsPosts
<1> QED
    BY <1>2, <1>3, <1>5 DEF AwardInv, Opening, OpeningPosts

\* run_betting_round goes to the award when players_still_in() == 1.
LEMMA ActAward == ASSUME AwardInv, Act PROVE AwardInv'
<1>1. PICK b : AfterAction(b)
    BY DEF Act, Fold, Check, Call, Raise, AllIn, AllInUnderneath, AllInFullRaise, AllInShortRaise
<1>2. stacks' = stacks /\ seat_kinds' = seat_kinds
    BY <1>1 DEF AfterAction, args
<1>3. TwoContenders'
    BY <1>2 DEF AwardInv, TwoContenders, Contenders
<1>4. pc' = "betting" \/ (pc' = "award" /\ OneLeft(status'))
    BY <1>1 DEF AfterAction
<1>5. ContestedAwardIsPosts'
    BY <1>4 DEF ContestedAwardIsPosts, OneLeft, StillIn, SeatsWith
<1> QED
    BY <1>3, <1>4, <1>5 DEF AwardInv, Opening, OpeningPosts

\* No other step leads to the opening or to the award.
LEMMA OtherAward ==
    ASSUME AwardInv,
           SkipSettled \/ EndRound \/ DealStreet \/ GoToShowdown \/ Showdown \/ AwardUncontested
    PROVE  AwardInv'
<1>1. /\ stacks' = stacks /\ seat_kinds' = seat_kinds
      /\ pc' \in {"betting", "street", "showdown", "done"}
    BY DEF SkipSettled, EndRound, DealStreet, GoToShowdown, Showdown, AwardUncontested, args
<1>2. TwoContenders'
    BY <1>1 DEF AwardInv, TwoContenders, Contenders
<1> QED
    BY <1>1, <1>2 DEF AwardInv, Opening, OpeningPosts, ContestedAwardIsPosts

\* Whatever is proved of a state holds after a stutter.
LEMMA StutterAward == ASSUME AwardInv, UNCHANGED vars PROVE AwardInv'
<1>1. UNCHANGED <<stacks, dealer, seat_kinds, status, total_committed, pc, current>>
    BY DEF vars, args, players
<1>2. StillIn' = StillIn
    BY <1>1 DEF StillIn, SeatsWith
<1>3. sb_seat' = sb_seat
    BY <1>1, <1>2 DEF sb_seat
<1>4. OpeningPosts' /\ TwoContenders' /\ ContestedAwardIsPosts'
    BY <1>1, <1>2, <1>3 DEF AwardInv, OpeningPosts, TwoContenders, Contenders,
       ContestedAwardIsPosts, LargestPost
<1>5. (\A s \in Seats : InOpening(s)') <=> (\A s \in Seats : InOpening(s))
    BY <1>1 DEF InOpening, LargestPost
<1> QED
    BY <1>1, <1>4, <1>5 DEF AwardInv

\* award_uncontested pays the lowest seat that is in.  When there are several, none
\* of them had more than an ante and a blind: whatever was bet is played for.
THEOREM ContestedAwardsArePosts ==
    ASSUME MinContenders >= 2 PROVE Spec => []ContestedAwardIsPosts
<1>1. Inv /\ AwardInv /\ [Next]_vars => AwardInv'
    BY AntesAward, BlindsAward, OpenAward, ActAward, OtherAward, StutterAward DEF Next
<1>2. AwardInv => ContestedAwardIsPosts
    BY DEF AwardInv
<1> QED
    BY InitAward, Invariance, <1>1, <1>2, PTL DEF Spec

-----------------------------------------------------------------------------
(* Sums of finite families *)

\* F[a] chips for every a in A, and how many they are.
Piles(A, F) == UNION {{a} \X (1 .. F[a]) : a \in A}
Sum(A, F) == Cardinality(Piles(A, F))

\* A chip is in the pile it is numbered in.
LEMMA PilesMember ==
    ASSUME NEW A, NEW F \in [A -> Nat]
    PROVE  \A p : p \in Piles(A, F) <=> p \in A \X Nat /\ 1 <= p[2] /\ p[2] <= F[p[1]]
BY DEF Piles

\* A finite sum is a natural.
LEMMA SumType ==
    ASSUME NEW A, IsFiniteSet(A), NEW F \in [A -> Nat]
    PROVE  IsFiniteSet(Piles(A, F)) /\ Sum(A, F) \in Nat
BY PilesFinite DEF Piles, Sum

\* What is in the parts B[a].
Merge(A, B) == UNION {B[a] : a \in A}

\* A set that falls into disjoint parts has as many elements as the parts have
\* together.
LEMMA CountByParts ==
    ASSUME NEW A, IsFiniteSet(A), NEW F \in [A -> Nat], NEW B,
           \A a \in A : IsFiniteSet(B[a]) /\ Cardinality(B[a]) = F[a],
           \A a, b \in A : a # b => B[a] \cap B[b] = {}
    PROVE  /\ IsFiniteSet(Merge(A, B))
           /\ Cardinality(Merge(A, B)) = Sum(A, F)
<1> DEFINE P == Piles(A, F)
           U == Merge(A, B)
           g == [a \in A |-> CHOOSE m : m \in Bijection(1 .. F[a], B[a])]
           h == [p \in P |-> g[p[1]][p[2]]]
<1>1. \A p : p \in P <=> p \in A \X Nat /\ 1 <= p[2] /\ p[2] <= F[p[1]]
    BY PilesMember
<1>2. ASSUME NEW a \in A PROVE g[a] \in Bijection(1 .. F[a], B[a])
    <2>1. ExistsBijection(1 .. F[a], B[a])
        BY FS_CardinalityType
    <2> QED
        BY <2>1 DEF ExistsBijection
<1> HIDE DEF P, g
<1> USE DEF Merge
<1>3. \A a \in A : \A k \in 1 .. F[a] : g[a][k] \in B[a]
    BY <1>2 DEF Bijection, Injection
<1>4. \A a \in A : \A j, k \in 1 .. F[a] : g[a][j] = g[a][k] => j = k
    BY <1>2 DEF Bijection, Injection, IsInjective
<1>5. \A a \in A : \A x \in B[a] : \E k \in 1 .. F[a] : g[a][k] = x
    BY <1>2 DEF Bijection, Surjection
<1>6. \A p \in P : p[1] \in A /\ p[2] \in 1 .. F[p[1]] /\ p = <<p[1], p[2]>>
    BY <1>1
<1>7. h \in [P -> U]
    BY <1>3, <1>6
<1>8. ASSUME NEW p \in P, NEW q \in P, h[p] = h[q] PROVE p = q
    <2>1. h[p] \in B[p[1]] /\ h[q] \in B[q[1]]
        BY <1>3, <1>6
    <2>2. p[1] = q[1]
        BY <1>6, <1>8, <2>1
    <2>3. p[2] = q[2]
        BY <1>4, <1>6, <1>8, <2>2
    <2> QED
        BY <1>6, <2>2, <2>3
<1>9. ASSUME NEW x \in U PROVE \E p \in P : h[p] = x
    <2>1. PICK a \in A : x \in B[a]
        OBVIOUS
    <2>2. PICK k \in 1 .. F[a] : g[a][k] = x
        BY <1>5, <2>1
    <2>3. <<a, k>> \in P
        BY <1>1, <2>2
    <2> QED
        BY <2>2, <2>3
<1>10. h \in Bijection(P, U)
    <2> HIDE DEF h, U
    <2> QED
        BY <1>7, <1>8, <1>9 DEF Bijection, Injection, Surjection, IsInjective
<1>11. IsFiniteSet(P)
    BY SumType DEF P
<1>12. IsFiniteSet(U) /\ Cardinality(U) = Cardinality(P)
    BY <1>10, <1>11, FS_Bijection DEF ExistsBijection
<1> QED
    BY <1>12 DEF P, Sum

\* F and G are the same table, by rows and by columns.
Transposed(A, B, F, G) ==
    /\ F \in [A -> [B -> Nat]] /\ G \in [B -> [A -> Nat]]
    /\ \A a \in A, b \in B : F[a][b] = G[b][a]

\* The sum of the sums of the rows of a table.
SumOfSums(A, B, F) == Sum(A, [a \in A |-> Sum(B, F[a])])

\* Summing over one index and then over the other comes to the same.
LEMMA SumSwap ==
    ASSUME NEW A, IsFiniteSet(A), NEW B, IsFiniteSet(B),
           NEW F, NEW G, Transposed(A, B, F, G)
    PROVE  SumOfSums(A, B, F) = SumOfSums(B, A, G)
<1> DEFINE T == {t \in A \X B \X Nat : 1 <= t[3] /\ t[3] <= F[t[1]][t[2]]}
           R == [a \in A |-> {t \in T : t[1] = a}]
           C == [b \in B |-> {t \in T : t[2] = b}]
<1> USE DEF Transposed
<1>1. ASSUME NEW a \in A
      PROVE  IsFiniteSet(R[a]) /\ Cardinality(R[a]) = Sum(B, F[a]) /\ Sum(B, F[a]) \in Nat
    <2> DEFINE P == Piles(B, F[a])
               h == [p \in P |-> <<a, p[1], p[2]>>]
    <2>1. F[a] \in [B -> Nat]
        OBVIOUS
    <2>2. \A p : p \in P <=> p \in B \X Nat /\ 1 <= p[2] /\ p[2] <= F[a][p[1]]
        BY <2>1, PilesMember
    <2>3. IsFiniteSet(P) /\ Sum(B, F[a]) \in Nat
        BY <2>1, SumType
    <2> HIDE DEF P
    <2>4. h \in [P -> R[a]]
        BY <2>2
    <2>5. \A p, q \in P : h[p] = h[q] => p = q
        BY <2>2
    <2>6. \A t \in R[a] : \E p \in P : h[p] = t
        <3> SUFFICES ASSUME NEW t \in R[a] PROVE \E p \in P : h[p] = t
            OBVIOUS
        <3>1. t = <<a, t[2], t[3]>> /\ t[2] \in B /\ t[3] \in Nat /\ 1 <= t[3] /\ t[3] <= F[a][t[2]]
            OBVIOUS
        <3>2. <<t[2], t[3]>> \in P
            BY <2>2, <3>1
        <3> QED
            BY <3>1, <3>2
    <2>7. h \in Bijection(P, R[a])
        <3> HIDE DEF h, R
        <3> QED
            BY <2>4, <2>5, <2>6 DEF Bijection, Injection, Surjection, IsInjective
    <2> QED
        BY <2>3, <2>7, FS_Bijection DEF ExistsBijection, Sum, P
<1>2. ASSUME NEW b \in B
      PROVE  IsFiniteSet(C[b]) /\ Cardinality(C[b]) = Sum(A, G[b]) /\ Sum(A, G[b]) \in Nat
    <2> DEFINE P == Piles(A, G[b])
               h == [p \in P |-> <<p[1], b, p[2]>>]
    <2>1. G[b] \in [A -> Nat]
        OBVIOUS
    <2>2. \A p : p \in P <=> p \in A \X Nat /\ 1 <= p[2] /\ p[2] <= G[b][p[1]]
        BY <2>1, PilesMember
    <2>3. IsFiniteSet(P) /\ Sum(A, G[b]) \in Nat
        BY <2>1, SumType
    <2> HIDE DEF P
    <2>4. h \in [P -> C[b]]
        BY <2>2
    <2>5. \A p, q \in P : h[p] = h[q] => p = q
        BY <2>2
    <2>6. \A t \in C[b] : \E p \in P : h[p] = t
        <3> SUFFICES ASSUME NEW t \in C[b] PROVE \E p \in P : h[p] = t
            OBVIOUS
        <3>1. t = <<t[1], b, t[3]>> /\ t[1] \in A /\ t[3] \in Nat /\ 1 <= t[3] /\ t[3] <= G[b][t[1]]
            OBVIOUS
        <3>2. <<t[1], t[3]>> \in P
            BY <2>2, <3>1
        <3> QED
            BY <3>1, <3>2
    <2>7. h \in Bijection(P, C[b])
        <3> HIDE DEF h, C
        <3> QED
            BY <2>4, <2>5, <2>6 DEF Bijection, Injection, Surjection, IsInjective
    <2> QED
        BY <2>3, <2>7, FS_Bijection DEF ExistsBijection, Sum, P
<1>3. Merge(A, R) = T /\ Merge(B, C) = T
    BY DEF Merge
<1>4. /\ \A a, b \in A : a # b => R[a] \cap R[b] = {}
      /\ \A a, b \in B : a # b => C[a] \cap C[b] = {}
    OBVIOUS
<1> DEFINE SR == [a \in A |-> Sum(B, F[a])]
           SC == [b \in B |-> Sum(A, G[b])]
<1>5. SR \in [A -> Nat] /\ \A a \in A : IsFiniteSet(R[a]) /\ Cardinality(R[a]) = SR[a]
    BY <1>1
<1>6. SC \in [B -> Nat] /\ \A b \in B : IsFiniteSet(C[b]) /\ Cardinality(C[b]) = SC[b]
    BY <1>2
<1> HIDE DEF R, C, SR, SC
<1>7. Cardinality(Merge(A, R)) = Sum(A, SR)
    BY <1>4, <1>5, CountByParts
<1>8. Cardinality(Merge(B, C)) = Sum(B, SC)
    BY <1>4, <1>6, CountByParts
<1> QED
    BY <1>3, <1>7, <1>8 DEF SR, SC, SumOfSums

\* The total over the seats is such a sum.
LEMMA TotalIsSum == \A f : Total(f) = Sum(Seats, f)
BY DEF Total, SumOver, Sum, Piles

\* A sum grows with its terms and with what is summed over.
LEMMA SumMonotone ==
    ASSUME NEW A, IsFiniteSet(A), NEW F \in [A -> Nat],
           NEW B, IsFiniteSet(B), NEW G \in [B -> Nat],
           A \subseteq B, \A a \in A : F[a] <= G[a]
    PROVE  Sum(A, F) <= Sum(B, G)
<1>1. Piles(A, F) \in SUBSET Piles(B, G)
    <2>1. \A p : p \in Piles(A, F) <=> p \in A \X Nat /\ 1 <= p[2] /\ p[2] <= F[p[1]]
        BY PilesMember
    <2>2. \A p : p \in Piles(B, G) <=> p \in B \X Nat /\ 1 <= p[2] /\ p[2] <= G[p[1]]
        BY PilesMember
    <2>3. ASSUME NEW p \in Piles(A, F) PROVE p \in Piles(B, G)
        <3>1. p[1] \in A /\ p \in A \X Nat /\ p[2] \in Nat /\ p[2] <= F[p[1]] /\ 1 <= p[2]
            BY <2>1
        <3>2. F[p[1]] \in Nat /\ G[p[1]] \in Nat /\ F[p[1]] <= G[p[1]] /\ p \in B \X Nat
            BY <3>1
        <3> QED
            BY <2>2, <3>1, <3>2
    <2> QED
        BY <2>3
<1>2. IsFiniteSet(Piles(B, G))
    BY SumType
<1> QED
    BY <1>1, <1>2, FS_Subset DEF Sum

\* A sum of zeros is zero.
LEMMA SumOfZeros ==
    ASSUME NEW A, NEW F, \A a \in A : F[a] = 0
    PROVE  Sum(A, F) = 0
<1>1. Piles(A, F) = {}
    BY DEF Piles
<1> QED
    BY <1>1, FS_EmptySet DEF Sum

\* No seat has more than all seats together.
LEMMA PartOfTotal ==
    ASSUME NEW f \in [Seats -> Nat], NEW s \in Seats
    PROVE  f[s] <= Total(f)
<1> DEFINE h == [k \in 1 .. f[s] |-> <<s, k>>]
<1>1. \A p : p \in Piles(Seats, f) <=> p \in Seats \X Nat /\ 1 <= p[2] /\ p[2] <= f[p[1]]
    BY PilesMember
<1>2. h \in Injection(1 .. f[s], Piles(Seats, f))
    <2>1. h \in [1 .. f[s] -> Piles(Seats, f)]
        BY <1>1
    <2>2. \A j, k \in 1 .. f[s] : h[j] = h[k] => j = k
        OBVIOUS
    <2> QED
        BY <2>1, <2>2 DEF Injection, IsInjective
<1>3. IsFiniteSet(Piles(Seats, f))
    BY SeatsFinite, SumType
<1>4. Cardinality(1 .. f[s]) <= Sum(Seats, f)
    <2> HIDE DEF h
    <2> QED
        BY <1>2, <1>3, FS_Injection DEF Sum
<1>5. Cardinality(1 .. f[s]) = f[s]
    <2>1. 1 \in Int /\ f[s] \in Nat
        OBVIOUS
    <2> QED
        BY <2>1, FS_Interval
<1> QED
    BY <1>4, <1>5, TotalIsSum

-----------------------------------------------------------------------------
(* The layers of the pot *)

\* The commitment level below, the seats that reach a level, and the chips of
\* one slice: what those seats committed between the two levels.
Below(level) == Max({0} \union {l \in Levels : l < level})
Above(level) == {s \in Seats : total_committed[s] >= level}
Layer(level) == Above(level) \X ((Below(level) + 1) .. level)

\* Between a level and the one below there is no other.
LEMMA BelowType ==
    ASSUME total_committed \in [Seats -> Nat], NEW level \in Levels
    PROVE  /\ level \in Nat /\ Below(level) \in Nat /\ Below(level) < level
           /\ \A l \in Levels : l < level => l <= Below(level)
<1> DEFINE B == {0} \union {l \in Levels : l < level}
<1>1. level \in Nat /\ level # 0 /\ Levels \subseteq Nat
    BY LevelsFinite DEF Levels
<1>2. B \subseteq 0 .. level /\ B # {} /\ \A x \in B : x < level
    <2>1. \A x \in B : x \in Nat /\ x < level
        BY <1>1
    <2>2. 0 \in B
        OBVIOUS
    <2> HIDE DEF B
    <2> QED
        BY <1>1, <2>1, <2>2
<1>3. Max(B) \in B /\ \A y \in B : Max(B) >= y
    <2> HIDE DEF B
    <2> QED
        BY <1>1, <1>2, MaxType
<1>4. Below(level) \in B /\ \A y \in B : Below(level) >= y
    BY <1>3 DEF Below
<1> QED
    BY <1>1, <1>2, <1>4

\* build_showdown_pots' amount of a slice is the number of its chips.
LEMMA SliceCounts ==
    ASSUME total_committed \in [Seats -> Nat], NEW level \in Levels
    PROVE  IsFiniteSet(Layer(level)) /\ Cardinality(Layer(level)) = Slice(level)
<1> DEFINE I == (Below(level) + 1) .. level
<1>1. IsFiniteSet(I) /\ Cardinality(I) = level - Below(level)
    <2>1. Below(level) \in Nat /\ level \in Nat /\ Below(level) < level
        BY BelowType
    <2>2. Below(level) + 1 \in Int /\ level \in Int /\ ~ (Below(level) + 1 > level)
        BY <2>1
    <2>3. Cardinality(I) = level - (Below(level) + 1) + 1 /\ IsFiniteSet(I)
        BY <2>2, FS_Interval
    <2> QED
        BY <2>1, <2>3
<1>2. IsFiniteSet(Above(level)) /\ Cardinality(Above(level)) \in Nat
    BY SeatsFinite DEF Above
<1>3. /\ IsFiniteSet(Above(level) \X I)
      /\ Cardinality(Above(level) \X I) = Cardinality(Above(level)) * Cardinality(I)
    <2> HIDE DEF I
    <2> QED
        BY <1>1, <1>2, FS_Product
<1>4. Slice(level) = (level - Below(level)) * Cardinality(Above(level))
    BY DEF Slice, Below, Above
<1>5. level - Below(level) \in Nat
    BY BelowType
<1> QED
    BY <1>1, <1>2, <1>3, <1>4, <1>5 DEF Layer

\* Every chip a seat committed is in exactly one layer.
LEMMA ChipInLayer ==
    ASSUME total_committed \in [Seats -> Nat], NEW s \in Seats, NEW k \in Nat,
           1 <= k, k <= total_committed[s]
    PROVE  \E l \in Levels :
             /\ <<s, k>> \in Layer(l)
             /\ \A m \in Levels : k <= m => l <= m
<1> DEFINE K == {l \in Levels : k <= l}
<1>1. total_committed[s] \in K /\ K \subseteq Nat
    BY LevelsFinite DEF Levels
<1>2. PICK l \in K : \A m \in K : l <= m
    BY <1>1, LeastNatural
<1>3. l \in Levels /\ Below(l) \in Nat /\ Below(l) < l /\ l \in Nat
    BY <1>2, BelowType
<1>4. Below(l) = 0 \/ Below(l) \in Levels
    <2> DEFINE B == {0} \union {m \in Levels : m < l}
    <2>1. B \subseteq 0 .. l /\ B # {}
        <3>1. \A x \in B : x \in Nat /\ x <= l
            BY <1>3, LevelsFinite
        <3>2. 0 \in B
            OBVIOUS
        <3> HIDE DEF B
        <3> QED
            BY <3>1, <3>2
    <2>2. Max(B) \in B
        <3> HIDE DEF B
        <3> QED
            BY <1>3, <2>1, MaxType
    <2> QED
        BY <2>2 DEF Below
<1>5. Below(l) < k
    BY <1>1, <1>2, <1>3, <1>4
<1>6. l <= total_committed[s]
    BY <1>1, <1>2
<1>7. <<s, k>> \in Layer(l)
    BY <1>2, <1>3, <1>5, <1>6 DEF Layer, Above
<1> QED
    BY <1>2, <1>3, <1>7

\* Two layers have no chip in common.
LEMMA LayersDisjoint ==
    ASSUME total_committed \in [Seats -> Nat], NEW l \in Levels, NEW m \in Levels, l # m
    PROVE  Layer(l) \cap Layer(m) = {}
<1>1. l \in Nat /\ m \in Nat /\ Below(l) \in Nat /\ Below(m) \in Nat
    BY BelowType
<1>2. l < m => l <= Below(m)
    BY BelowType
<1>3. m < l => m <= Below(l)
    BY BelowType
<1>4. ASSUME NEW p, p \in Layer(l), p \in Layer(m) PROVE FALSE
    <2>1. p[2] \in (Below(l) + 1) .. l /\ p[2] \in (Below(m) + 1) .. m
        BY <1>4 DEF Layer
    <2> QED
        BY <1>1, <1>2, <1>3, <2>1
<1> QED
    BY <1>4

\* The slices up to the level of a seat hold what each seat committed up to
\* that level; all slices hold everything that was committed.
LEMMA LayersUpTo ==
    ASSUME total_committed \in [Seats -> Nat], NEW h \in Nat,
           h \in Levels \union {0} \/ \A s \in Seats : total_committed[s] <= h
    PROVE  Sum({l \in Levels : l <= h}, [l \in {l \in Levels : l <= h} |-> Slice(l)])
             = Total([t \in Seats |-> Lesser(h, total_committed[t])])
<1> DEFINE A == {l \in Levels : l <= h}
           F == [l \in A |-> Slice(l)]
           B == [l \in A |-> Layer(l)]
           f == [t \in Seats |-> Lesser(h, total_committed[t])]
<1>1. IsFiniteSet(A) /\ F \in [A -> Nat]
    <2>1. A \in SUBSET Levels
        OBVIOUS
    <2> QED
        BY <2>1, LevelsFinite, SliceType, FS_Subset
<1>2. \A l \in A : IsFiniteSet(B[l]) /\ Cardinality(B[l]) = F[l]
    BY SliceCounts
<1>3. \A l, m \in A : l # m => B[l] \cap B[m] = {}
    BY LayersDisjoint
<1>4. Cardinality(Merge(A, B)) = Sum(A, F)
    <2> HIDE DEF A, B, F
    <2> QED
        BY <1>1, <1>2, <1>3, CountByParts
<1>5. f \in [Seats -> Nat]
    BY DEF Lesser
<1>6. \A p : p \in Piles(Seats, f) <=> p \in Seats \X Nat /\ 1 <= p[2] /\ p[2] <= f[p[1]]
    BY <1>5, PilesMember
<1>7. ASSUME NEW p \in Piles(Seats, f) PROVE p \in Merge(A, B)
    <2>1. /\ p \in Seats \X Nat /\ p = <<p[1], p[2]>> /\ p[1] \in Seats /\ p[2] \in Nat
          /\ 1 <= p[2] /\ p[2] <= f[p[1]]
        BY <1>6
    <2>2. p[2] <= h /\ p[2] <= total_committed[p[1]]
        BY <2>1 DEF Lesser
    <2>3. PICK l \in Levels : /\ <<p[1], p[2]>> \in Layer(l)
                              /\ \A m \in Levels : p[2] <= m => l <= m
        BY <2>1, <2>2, ChipInLayer
    <2>4. l <= h
        <3>1. l <= total_committed[p[1]]
            BY <2>3 DEF Layer, Above
        <3>2. l \in Nat
            BY LevelsFinite
        <3> QED
            BY <2>1, <2>2, <2>3, <3>1, <3>2
    <2> QED
        BY <2>1, <2>3, <2>4 DEF Merge
<1>8. ASSUME NEW p \in Merge(A, B) PROVE p \in Piles(Seats, f)
    <2>1. PICK l \in A : p \in Layer(l)
        BY DEF Merge
    <2>2. l \in Nat /\ Below(l) \in Nat /\ l <= h
        BY <2>1, BelowType
    <2>3. /\ p[1] \in Seats /\ total_committed[p[1]] >= l /\ p[2] \in (Below(l) + 1) .. l
          /\ p = <<p[1], p[2]>>
        BY <2>1 DEF Layer, Above
    <2>4. p[2] \in Nat /\ 1 <= p[2] /\ p[2] <= f[p[1]] /\ p \in Seats \X Nat
        BY <2>2, <2>3 DEF Lesser
    <2> QED
        BY <1>6, <2>4
<1>9. Merge(A, B) = Piles(Seats, f)
    BY <1>7, <1>8
<1> QED
    BY <1>4, <1>9, TotalIsSum DEF Sum

-----------------------------------------------------------------------------
(* Pots and shares *)

\* The slices that build_showdown_pots puts into the pot of a level.
Merged(level) ==
    IF level = Max(PotLevels) THEN {level} \union (Levels \ PotLevels) ELSE {level}
SliceOf == [l \in Levels |-> Slice(l)]

\* A pot is the sum of its slices.
LEMMA PotIsSum ==
    ASSUME total_committed \in [Seats -> Nat], NEW level \in PotLevels
    PROVE  /\ Merged(level) \in SUBSET Levels /\ IsFiniteSet(Merged(level))
           /\ SliceOf \in [Levels -> Nat]
           /\ PotAmount(level) = Cardinality(Piles(Merged(level), SliceOf))
           /\ IsFiniteSet(Piles(Merged(level), SliceOf))
<1>1. Merged(level) \in SUBSET Levels
    BY DEF Merged, PotLevels
<1>2. IsFiniteSet(Merged(level))
    BY <1>1, LevelsFinite, FS_Subset
<1>3. SliceOf \in [Levels -> Nat]
    BY SliceType DEF SliceOf
<1> DEFINE G == [m \in Merged(level) |-> Slice(m)]
<1>4. G \in [Merged(level) -> Nat]
    BY <1>1, SliceType
<1>5. Piles(Merged(level), G) = UNION {{m} \X (1 .. Slice(m)) : m \in Merged(level)}
    BY DEF Piles
<1>6. Piles(Merged(level), SliceOf) = Piles(Merged(level), G)
    BY <1>1 DEF Piles, SliceOf
<1>7. PotAmount(level) = Cardinality(UNION {{m} \X (1 .. Slice(m)) : m \in Merged(level)})
    BY DEF PotAmount, Merged, SumOver
<1>8. IsFiniteSet(Piles(Merged(level), G))
    <2> HIDE DEF G
    <2> QED
        BY <1>2, <1>4, SumType
<1> QED
    BY <1>1, <1>2, <1>3, <1>5, <1>6, <1>7, <1>8

\* There is a highest pot when there is one.
LEMMA HighestPot ==
    ASSUME total_committed \in [Seats -> Nat], PotLevels # {}
    PROVE  Max(PotLevels) \in PotLevels /\ \A l \in PotLevels : Max(PotLevels) >= l
<1>1. Total(total_committed) \in Nat
    BY TotalType
<1>2. PotLevels \subseteq 0 .. Total(total_committed)
    <2>1. \A s \in Seats : total_committed[s] \in Nat /\ total_committed[s] <= Total(total_committed)
        BY PartOfTotal
    <2> QED
        BY <1>1, <2>1 DEF PotLevels, Levels
<1> QED
    BY <1>1, <1>2, MaxType

\* The pots hold every committed chip: a slice nobody is eligible for is in the
\* highest pot that has an eligible seat.
LEMMA PotsHoldAll ==
    ASSUME total_committed \in [Seats -> Nat], PotLevels # {}
    PROVE  Sum(PotLevels, [l \in PotLevels |-> PotAmount(l)]) = Total(total_committed)
<1> DEFINE A == PotLevels
           F == [l \in A |-> PotAmount(l)]
           B == [l \in A |-> Piles(Merged(l), SliceOf)]
<1>1. A \in SUBSET Levels /\ IsFiniteSet(A) /\ F \in [A -> Nat]
    <2>1. A \in SUBSET Levels
        BY DEF PotLevels
    <2> QED
        BY <2>1, LevelsFinite, PotAmountType, FS_Subset
<1>2. \A l \in A : IsFiniteSet(B[l]) /\ Cardinality(B[l]) = F[l]
    BY PotIsSum
<1>3. ASSUME NEW l \in A PROVE \A p : p \in B[l] <=>
            p \in Levels \X Nat /\ 1 <= p[2] /\ p[2] <= Slice(p[1]) /\ p[1] \in Merged(l)
    <2>1. Merged(l) \subseteq Levels /\ SliceOf \in [Levels -> Nat]
        BY PotIsSum
    <2>2. \A p : p \in Piles(Merged(l), SliceOf) <=>
                   p \in Merged(l) \X Nat /\ 1 <= p[2] /\ p[2] <= SliceOf[p[1]]
        BY <2>1 DEF Piles
    <2> QED
        BY <2>1, <2>2 DEF SliceOf
<1>4. \A l, m \in A : l # m => Merged(l) \cap Merged(m) = {}
    BY DEF Merged
<1>5. \A l, m \in A : l # m => B[l] \cap B[m] = {}
    BY <1>3, <1>4
<1>6. Cardinality(Merge(A, B)) = Sum(A, F)
    <2> HIDE DEF A, B, F
    <2> QED
        BY <1>1, <1>2, <1>5, CountByParts
<1>7. \A m \in Levels : \E l \in A : m \in Merged(l)
    BY HighestPot DEF Merged
<1>8. \A p : p \in Merge(A, B) <=> \E l \in A : p \in B[l]
    BY DEF Merge
<1>9. \A p : p \in Piles(Levels, SliceOf) <=>
               p \in Levels \X Nat /\ 1 <= p[2] /\ p[2] <= Slice(p[1])
    <2>1. SliceOf \in [Levels -> Nat]
        BY SliceType DEF SliceOf
    <2> QED
        BY <2>1, PilesMember DEF SliceOf
<1>10. Merge(A, B) = Piles(Levels, SliceOf)
    <2>1. ASSUME NEW p \in Merge(A, B) PROVE p \in Piles(Levels, SliceOf)
        BY <1>3, <1>8, <1>9
    <2>2. ASSUME NEW p \in Piles(Levels, SliceOf) PROVE p \in Merge(A, B)
        BY <1>3, <1>7, <1>8, <1>9
    <2> QED
        BY <2>1, <2>2
<1>11. Sum(Levels, SliceOf) = Total(total_committed)
    <2> DEFINE h == Total(total_committed)
    <2>1. h \in Nat /\ \A s \in Seats : total_committed[s] <= h
        BY TotalType, PartOfTotal
    <2> HIDE DEF h
    <2>2. Levels = {l \in Levels : l <= h}
        BY <2>1 DEF Levels
    <2>3. [t \in Seats |-> Lesser(h, total_committed[t])] = total_committed
        BY <2>1 DEF Lesser
    <2>4. Sum({l \in Levels : l <= h}, [l \in {l \in Levels : l <= h} |-> Slice(l)])
             = Total([t \in Seats |-> Lesser(h, total_committed[t])])
        BY <2>1, LayersUpTo
    <2> QED
        BY <2>2, <2>3, <2>4 DEF SliceOf
<1> QED
    BY <1>6, <1>10, <1>11 DEF Sum

\* Every pot has a winner, and every winner was eligible.
LEMMA WinnersExist ==
    ASSUME NEW level \in PotLevels, NEW r \in [Seats -> Nat]
    PROVE  Winners(level, r) # {} /\ Winners(level, r) \in SUBSET Seats
<1> DEFINE E == Eligible(level)
           V == {r[s] : s \in E}
<1>1. E # {} /\ E \in SUBSET Seats
    BY DEF PotLevels, Eligible
<1>2. Total(r) \in Nat /\ \A s \in Seats : r[s] <= Total(r)
    BY TotalType, PartOfTotal
<1>3. V \subseteq 0 .. Total(r) /\ V # {}
    BY <1>1, <1>2
<1>4. Max(V) \in V /\ \A y \in V : Max(V) >= y
    <2> HIDE DEF V
    <2> QED
        BY <1>2, <1>3, MaxType
<1>5. PICK s \in E : Max(V) = r[s]
    BY <1>4
<1>6. s \in Winners(level, r)
    BY <1>1, <1>4, <1>5 DEF Winners
<1> QED
    BY <1>1, <1>6 DEF Winners

\* Division with a remainder loses nothing.
LEMMA DivMod == \A a \in Nat, n \in Nat \ {0} : n * (a \div n) + (a % n) = a
OBVIOUS

\* resolve_showdown pays out a pot to the last chip.
LEMMA SharesArePot ==
    ASSUME total_committed \in [Seats -> Nat], dealer \in Seats,
           NEW level \in PotLevels, NEW r \in [Seats -> Nat]
    PROVE  Sum(Seats, [s \in Seats |-> Share(level, r, s)]) = PotAmount(level)
<1> DEFINE W == Winners(level, r)
           n == Cardinality(W)
           a == PotAmount(level)
           q == a \div n
           w == FirstAfter(dealer, W)
           e == [s \in Seats |-> IF s \in W THEN q ELSE 0]
           f == [s \in Seats |-> Share(level, r, s)]
<1>1. W # {} /\ W \in SUBSET Seats
    BY WinnersExist
<1>2. IsFiniteSet(W) /\ n \in Nat \ {0}
    BY <1>1, SeatsFinite, FS_EmptySet
<1>3. a \in Nat
    BY PotAmountType
<1>4. q \in Nat /\ a % n \in Nat /\ n * q + (a % n) = a
    <2> HIDE DEF a, n
    <2> QED
        BY <1>2, <1>3, Arithmetic, DivMod
<1>5. w \in W
    BY <1>1, FirstAfterType
<1>6. f = [e EXCEPT ![w] = @ + (a % n)]
    <2>1. \A s \in Seats : Share(level, r, s) =
            IF s \notin W THEN 0 ELSE q + IF s = w THEN a % n ELSE 0
        BY DEF Share
    <2> HIDE DEF W, n, a, q, w
    <2> QED
        BY <1>1, <1>4, <1>5, <2>1
<1> HIDE DEF n, a, q, w, W, f
<1>7. Total(f) = Total(e) + (a % n)
    <2>1. e \in [Seats -> Nat] /\ w \in Seats
        BY <1>1, <1>4, <1>5
    <2> HIDE DEF e
    <2> QED
        BY <1>4, <1>6, <2>1, TotalUpdate
<1>8. Total(e) = n * q
    <2>1. Piles(Seats, e) = W \X (1 .. q)
        <3>1. e \in [Seats -> Nat]
            BY <1>4
        <3>2. \A p : p \in Piles(Seats, e) <=> p \in Seats \X Nat /\ 1 <= p[2] /\ p[2] <= e[p[1]]
            BY <3>1, PilesMember
        <3>3. \A p : p \in Piles(Seats, e) <=> p \in W \X (1 .. q)
            BY <1>1, <1>4, <3>2
        <3> QED
            BY <3>3
    <2>2. IsFiniteSet(1 .. q) /\ Cardinality(1 .. q) = q
        <3>1. 1 \in Int /\ q \in Int
            BY <1>4
        <3> QED
            BY <1>4, <3>1, FS_Interval
    <2>3. Cardinality(W \X (1 .. q)) = Cardinality(W) * Cardinality(1 .. q)
        BY <1>2, <2>2, FS_Product
    <2> QED
        BY <2>1, <2>2, <2>3, TotalIsSum DEF Sum, n
<1> QED
    BY <1>4, <1>7, <1>8, TotalIsSum DEF f, a

\* Every committed chip is paid out at a showdown, whatever side pots, splits,
\* odd chips and dead money there are.
LEMMA PayoutTotal ==
    ASSUME total_committed \in [Seats -> Nat], dealer \in Seats,
           PotLevels # {}, NEW r \in [Seats -> Nat]
    PROVE  Total(Payout(r)) = Total(total_committed)
<1> DEFINE F == [s \in Seats |-> [l \in PotLevels |-> Share(l, r, s)]]
           G == [l \in PotLevels |-> [s \in Seats |-> Share(l, r, s)]]
<1>1. IsFiniteSet(Seats) /\ IsFiniteSet(PotLevels)
    <2>1. PotLevels \in SUBSET Levels
        BY DEF PotLevels
    <2> QED
        BY <2>1, SeatsFinite, LevelsFinite, FS_Subset
<1>2. F \in [Seats -> [PotLevels -> Nat]] /\ G \in [PotLevels -> [Seats -> Nat]]
    BY ShareType
<1>3. \A s \in Seats, l \in PotLevels : F[s][l] = G[l][s]
    OBVIOUS
<1>4. Payout(r) = [s \in Seats |-> Sum(PotLevels, F[s])]
    <2>1. ASSUME NEW s \in Seats
          PROVE  SumOver(PotLevels, LAMBDA l : Share(l, r, s)) = Sum(PotLevels, F[s])
        <3>1. UNION {{l} \X (1 .. Share(l, r, s)) : l \in PotLevels} = Piles(PotLevels, F[s])
            BY DEF Piles
        <3> QED
            BY <3>1 DEF SumOver, Sum
    <2> HIDE DEF F
    <2> QED
        BY <2>1 DEF Payout
<1>5. \A l \in PotLevels : Sum(Seats, G[l]) = PotAmount(l)
    BY SharesArePot
<1> HIDE DEF F, G
<1>6. SumOfSums(Seats, PotLevels, F) = SumOfSums(PotLevels, Seats, G)
    <2>1. Transposed(Seats, PotLevels, F, G)
        BY <1>2, <1>3 DEF Transposed
    <2> QED
        BY <1>1, <2>1, SumSwap
<1>7. [l \in PotLevels |-> Sum(Seats, G[l])] = [l \in PotLevels |-> PotAmount(l)]
    BY <1>5
<1> QED
    BY <1>4, <1>6, <1>7, PotsHoldAll, TotalIsSum DEF SumOfSums

-----------------------------------------------------------------------------
(* Who is paid what *)

\* A payout is the sum of the shares.
LEMMA PayoutIsSum ==
    ASSUME total_committed \in [Seats -> Nat], NEW r, NEW s \in Seats
    PROVE  /\ Payout(r)[s] = Sum(PotLevels, [l \in PotLevels |-> Share(l, r, s)])
           /\ [l \in PotLevels |-> Share(l, r, s)] \in [PotLevels -> Nat]
           /\ IsFiniteSet(PotLevels) /\ PotLevels \in SUBSET Levels
<1> DEFINE F == [l \in PotLevels |-> Share(l, r, s)]
<1>1. UNION {{l} \X (1 .. Share(l, r, s)) : l \in PotLevels} = Piles(PotLevels, F)
    BY DEF Piles
<1>2. SumOver(PotLevels, LAMBDA l : Share(l, r, s)) = Sum(PotLevels, F)
    BY <1>1 DEF SumOver, Sum
<1>3. Payout(r)[s] = Sum(PotLevels, F)
    <2> HIDE DEF F
    <2> QED
        BY <1>2 DEF Payout
<1>4. PotLevels \in SUBSET Levels
    BY DEF PotLevels
<1> QED
    BY <1>3, <1>4, LevelsFinite, ShareType, FS_Subset

\* A seat that wins no pot is paid nothing.
LEMMA PaidNothing ==
    ASSUME total_committed \in [Seats -> Nat], NEW r, NEW s \in Seats,
           \A l \in PotLevels : s \notin Winners(l, r)
    PROVE  Payout(r)[s] = 0
<1> DEFINE F == [l \in PotLevels |-> Share(l, r, s)]
<1>1. \A l \in PotLevels : F[l] = 0
    BY DEF Share
<1>2. Sum(PotLevels, F) = 0
    <2> HIDE DEF F
    <2> QED
        BY <1>1, SumOfZeros
<1> QED
    BY <1>2, PayoutIsSum

\* The chips of one slice, as a pile.
LEMMA OneSlice ==
    ASSUME total_committed \in [Seats -> Nat], NEW level \in Levels
    PROVE  Cardinality(Piles({level}, SliceOf)) = Slice(level)
<1>1. Slice(level) \in Nat
    BY SliceType
<1>2. Piles({level}, SliceOf) = {level} \X (1 .. Slice(level))
    BY DEF Piles, SliceOf
<1>3. IsFiniteSet({level}) /\ Cardinality({level}) = 1
    BY FS_Singleton
<1>4. IsFiniteSet(1 .. Slice(level)) /\ Cardinality(1 .. Slice(level)) = Slice(level)
    <2>1. 1 \in Int /\ Slice(level) \in Int
        BY <1>1
    <2> QED
        BY <1>1, <2>1, FS_Interval
<1> DEFINE I == 1 .. Slice(level)
<1>5. Piles({level}, SliceOf) = {level} \X I /\ IsFiniteSet(I) /\ Cardinality(I) = Slice(level)
    BY <1>2, <1>4
<1> HIDE DEF I
<1>6. Cardinality({level} \X I) = Cardinality({level}) * Cardinality(I)
    BY <1>3, <1>5, FS_Product
<1>7. \A n \in Nat : 1 * n = n
    OBVIOUS
<1>8. Cardinality({level}) * Cardinality(I) = Slice(level)
    BY <1>1, <1>3, <1>5, <1>7
<1> QED
    BY <1>5, <1>6, <1>8

\* A pot holds its own slice, and nothing else unless it is the highest one.
LEMMA PotAndSlice ==
    ASSUME total_committed \in [Seats -> Nat], NEW level \in PotLevels
    PROVE  /\ Slice(level) <= PotAmount(level)
           /\ level # Max(PotLevels) => PotAmount(level) = Slice(level)
<1>1. level \in Levels /\ level \in Merged(level)
    BY DEF PotLevels, Merged
<1>2. Cardinality(Piles({level}, SliceOf)) = Slice(level)
    BY <1>1, OneSlice
<1>3. Piles({level}, SliceOf) \in SUBSET Piles(Merged(level), SliceOf)
    BY <1>1 DEF Piles
<1>4. Slice(level) <= PotAmount(level)
    <2> DEFINE P == Piles({level}, SliceOf)
               Q == Piles(Merged(level), SliceOf)
    <2>1. P \in SUBSET Q /\ IsFiniteSet(Q) /\ Cardinality(P) = Slice(level) /\ Cardinality(Q) = PotAmount(level)
        BY <1>2, <1>3, PotIsSum
    <2> HIDE DEF P, Q
    <2>2. Cardinality(P) <= Cardinality(Q)
        BY <2>1, FS_Subset
    <2> QED
        BY <2>1, <2>2
<1>5. level # Max(PotLevels) => Merged(level) = {level}
    BY DEF Merged
<1> QED
    BY <1>2, <1>4, <1>5, PotIsSum

\* Nobody is paid more from a pot than there is in it.
LEMMA ShareBound ==
    ASSUME total_committed \in [Seats -> Nat], dealer \in Seats,
           NEW level \in PotLevels, NEW r \in [Seats -> Nat], NEW s \in Seats
    PROVE  Share(level, r, s) <= PotAmount(level)
<1> DEFINE f == [t \in Seats |-> Share(level, r, t)]
<1>1. f \in [Seats -> Nat]
    BY ShareType
<1>2. Total(f) = PotAmount(level)
    BY SharesArePot, TotalIsSum
<1>3. f[s] <= Total(f)
    <2> HIDE DEF f
    <2> QED
        BY <1>1, PartOfTotal
<1> QED
    BY <1>2, <1>3

\* The only winner of a pot takes it.
LEMMA SoleWinner ==
    ASSUME total_committed \in [Seats -> Nat], dealer \in Seats,
           NEW level \in PotLevels, NEW r, NEW s \in Seats, Winners(level, r) = {s}
    PROVE  Share(level, r, s) = PotAmount(level)
<1>1. FirstAfter(dealer, {s}) = s
    BY FirstAfterType
<1>2. Cardinality({s}) = 1
    BY FS_Singleton
<1>3. PotAmount(level) \in Nat
    BY PotAmountType
<1>4. Share(level, r, s) = (PotAmount(level) \div 1) + (PotAmount(level) % 1)
    BY <1>1, <1>2 DEF Share
<1>5. 1 * (PotAmount(level) \div 1) + (PotAmount(level) % 1) = PotAmount(level)
    BY <1>3, DivMod
<1>6. PotAmount(level) \div 1 \in Nat
    BY <1>3, Arithmetic
<1> QED
    BY <1>4, <1>5, <1>6

\* What each seat committed up to the commitment of s.
UpTo(s) == Total([t \in Seats |-> Lesser(total_committed[s], total_committed[t])])

\* The slices up to the commitment of s.
LEMMA SlicesUpTo ==
    ASSUME total_committed \in [Seats -> Nat], NEW s \in Seats
    PROVE  Sum({l \in Levels : l <= total_committed[s]},
               [l \in {l \in Levels : l <= total_committed[s]} |-> Slice(l)]) = UpTo(s)
<1>1. total_committed[s] \in Levels \union {0} /\ total_committed[s] \in Nat
    BY DEF Levels
<1> QED
    BY <1>1, LayersUpTo DEF UpTo

\* A seat whose every eligible pot is its own is paid at least what each seat
\* committed up to its commitment.
LEMMA PaidAtLeast ==
    ASSUME total_committed \in [Seats -> Nat], dealer \in Seats, NEW r, NEW s \in Seats,
           \A l \in Levels : l <= total_committed[s] => l \in PotLevels /\ Winners(l, r) = {s}
    PROVE  Payout(r)[s] >= UpTo(s)
<1> DEFINE A == {l \in Levels : l <= total_committed[s]}
           F == [l \in A |-> Slice(l)]
           G == [l \in PotLevels |-> Share(l, r, s)]
<1>1. A \subseteq PotLevels /\ A \in SUBSET Levels
    OBVIOUS
<1>2. IsFiniteSet(A) /\ F \in [A -> Nat]
    BY <1>1, LevelsFinite, SliceType, FS_Subset
<1>3. /\ Payout(r)[s] = Sum(PotLevels, G) /\ G \in [PotLevels -> Nat] /\ IsFiniteSet(PotLevels)
    BY PayoutIsSum
<1>4. \A l \in A : F[l] <= G[l]
    <2> SUFFICES ASSUME NEW l \in A PROVE Slice(l) <= Share(l, r, s)
        BY <1>1
    <2>1. l \in PotLevels /\ Winners(l, r) = {s}
        OBVIOUS
    <2> QED
        BY <2>1, SoleWinner, PotAndSlice
<1>5. Sum(A, F) = UpTo(s)
    BY SlicesUpTo
<1> HIDE DEF A, F, G
<1>6. Sum(A, F) <= Sum(PotLevels, G) /\ Sum(A, F) \in Nat /\ Sum(PotLevels, G) \in Nat
    BY <1>1, <1>2, <1>3, <1>4, SumMonotone, SumType
<1> QED
    BY <1>3, <1>5, <1>6

\* A seat that is covered is paid at most what each seat committed up to its
\* commitment: the pots it is eligible for hold no slice above.
LEMMA PaidAtMost ==
    ASSUME total_committed \in [Seats -> Nat], dealer \in Seats, NEW r \in [Seats -> Nat],
           NEW s \in Seats, NEW t \in Seats, status[t] # "Folded",
           total_committed[s] < total_committed[t]
    PROVE  Payout(r)[s] <= UpTo(s)
<1> DEFINE A == {l \in Levels : l <= total_committed[s]}
           F == [l \in A |-> Slice(l)]
           G == [l \in PotLevels |-> Share(l, r, s)]
           P == {l \in PotLevels : l <= total_committed[s]}
           H == [l \in P |-> Share(l, r, s)]
<1>1. A \in SUBSET Levels /\ P \subseteq A /\ P \in SUBSET PotLevels
    BY DEF PotLevels
<1>2. IsFiniteSet(A) /\ F \in [A -> Nat] /\ IsFiniteSet(P) /\ H \in [P -> Nat]
    BY <1>1, LevelsFinite, SliceType, PayoutIsSum, ShareType, FS_Subset
<1>3. Payout(r)[s] = Sum(PotLevels, G)
    BY PayoutIsSum
<1>4. total_committed[t] \in PotLevels
    BY DEF PotLevels, Levels, Eligible
<1>5. \A l \in P : H[l] <= F[l]
    <2> SUFFICES ASSUME NEW l \in P PROVE Share(l, r, s) <= Slice(l)
        BY <1>1
    <2>1. l \in PotLevels /\ l # Max(PotLevels)
        <3>1. l \in Nat /\ Max(PotLevels) >= total_committed[t] /\ Max(PotLevels) \in Nat
            BY <1>1, <1>4, HighestPot, LevelsFinite DEF PotLevels
        <3> QED
            BY <3>1
    <2>2. PotAmount(l) = Slice(l) /\ Share(l, r, s) <= PotAmount(l)
        BY <2>1, PotAndSlice, ShareBound
    <2> QED
        BY <2>2
<1>6. Piles(PotLevels, G) = Piles(P, H)
    <2>1. \A l \in PotLevels \ P : G[l] = 0
        <3> SUFFICES ASSUME NEW l \in PotLevels, ~ (l <= total_committed[s]) PROVE s \notin Winners(l, r)
            BY DEF Share
        <3>1. l \in Nat
            BY LevelsFinite DEF PotLevels
        <3> QED
            BY <3>1 DEF Winners, Eligible
    <2>2. \A l \in P : G[l] = H[l]
        OBVIOUS
    <2> HIDE DEF P, G, H
    <2> QED
        BY <1>1, <2>1, <2>2 DEF Piles
<1>7. Sum(A, F) = UpTo(s)
    BY SlicesUpTo
<1> HIDE DEF A, F, P, H, G
<1>8. Sum(P, H) <= Sum(A, F)
    BY <1>1, <1>2, <1>5, SumMonotone
<1> QED
    BY <1>3, <1>6, <1>7, <1>8 DEF Sum

-----------------------------------------------------------------------------
(* The stakes: the way to the showdown *)

\* A seat that is in has chips left or chips in the pot; the others have none in
\* or have folded.
SeatStakes ==
    \A s \in Seats :
        /\ status[s] = "Active" => stack[s] > 0
        /\ status[s] = "AllIn" => total_committed[s] > 0
        /\ status[s] = "Out" => total_committed[s] = 0
        /\ bet_this_street[s] <= total_committed[s]

\* Who is in, and since when the seats in have put chips in.
StakesInv ==
    /\ SeatStakes
    /\ pc \in Opening => TwoContenders /\ Contenders \subseteq StillIn
    /\ pc \in Opening => street = "Preflop"
    /\ pc \in {"betting", "street", "showdown"} => TwoStillIn
    /\ pc = "open" \/ (pc = "betting" /\ street = "Preflop") => current_bet > 0
    /\ pc \in {"street", "showdown"} \/ (pc = "betting" /\ street # "Preflop") =>
         \A s \in StillIn : total_committed[s] > 0
    /\ pc # "done" => rank = NoChips

\* init_state.
LEMMA InitStakes == ASSUME MinContenders >= 2, Init PROVE StakesInv
<1>1. TypeOK
    BY InitInv DEF Inv
<1>2. SeatStakes
    BY <1>1 DEF Init, init_state, SeatStakes, TypeOK
<1>3. TwoContenders
    BY ContendersAtStart
<1>4. Contenders \subseteq StillIn
    BY DEF Init, init_state, Contenders, StillIn, SeatsWith
<1>5. pc \in {"antes", "small_blind"} /\ street = "Preflop" /\ rank = NoChips
    BY DEF Init, init_state, NoChips
<1> QED
    BY <1>2, <1>3, <1>4, <1>5 DEF StakesInv

\* Chips move from the stack of a seat that is in to its bets, all of them only
\* if it is all in from then on.
LEMMA CommitStakes ==
    ASSUME TypeOK, SeatStakes, NEW seat \in StillIn, NEW amount \in Nat, amount <= stack[seat],
           Commit(seat, amount),
           \/ status' = status /\ (amount < stack[seat] \/ status[seat] = "AllIn")
           \/ status' = [status EXCEPT ![seat] = "AllIn"] /\ amount = stack[seat]
    PROVE  /\ SeatStakes' /\ StillIn' = StillIn
           /\ \A s \in Seats : total_committed'[s] >= total_committed[s]
<1>1. seat \in Seats /\ status[seat] \in {"Active", "AllIn"}
    BY DEF StillIn, SeatsWith
<1>2. \A s \in Seats :
        /\ stack'[s] = IF s = seat THEN stack[s] - amount ELSE stack[s]
        /\ total_committed'[s] = IF s = seat THEN total_committed[s] + amount ELSE total_committed[s]
        /\ bet_this_street'[s] = IF s = seat THEN bet_this_street[s] + amount ELSE bet_this_street[s]
    BY <1>1 DEF TypeOK, Commit
<1>3. \A s \in Seats : stack[s] \in Nat /\ total_committed[s] \in Nat /\ bet_this_street[s] \in Nat
    BY DEF TypeOK
<1>4. \A s \in Seats : s # seat => status'[s] = status[s]
    BY DEF TypeOK
<1>5. \/ status'[seat] = status[seat] /\ (amount < stack[seat] \/ status[seat] = "AllIn")
      \/ status'[seat] = "AllIn" /\ amount = stack[seat]
    BY <1>1 DEF TypeOK
<1>6. SeatStakes'
    <2> SUFFICES ASSUME NEW s \in Seats
                 PROVE  /\ status'[s] = "Active" => stack'[s] > 0
                        /\ status'[s] = "AllIn" => total_committed'[s] > 0
                        /\ status'[s] = "Out" => total_committed'[s] = 0
                        /\ bet_this_street'[s] <= total_committed'[s]
        BY DEF SeatStakes
    <2>1. CASE s # seat
        BY <1>2, <1>4, <2>1 DEF SeatStakes
    <2>2. CASE s = seat
        BY <1>1, <1>2, <1>3, <1>5, <2>2 DEF SeatStakes
    <2> QED
        BY <2>1, <2>2
<1>7. StillIn' = StillIn
    BY <1>1, <1>4, <1>5 DEF StillIn, SeatsWith
<1>8. \A s \in Seats : total_committed'[s] >= total_committed[s]
    BY <1>2, <1>3
<1> QED
    BY <1>6, <1>7, <1>8

\* A post or a call.
LEMMA PayStakes ==
    ASSUME TypeOK, SeatStakes, NEW seat \in StillIn, NEW owed \in Nat,
           Pay(seat, Lesser(owed, stack[seat]))
    PROVE  /\ SeatStakes' /\ StillIn' = StillIn
           /\ \A s \in Seats : total_committed'[s] >= total_committed[s]
<1> DEFINE amount == Lesser(owed, stack[seat])
<1>1. seat \in Seats /\ stack[seat] \in Nat
    BY DEF StillIn, SeatsWith, TypeOK
<1>2. amount \in Nat /\ amount <= stack[seat]
    BY <1>1 DEF Lesser
<1>3. /\ Commit(seat, amount)
      /\ status' = IF stack[seat] = amount THEN [status EXCEPT ![seat] = "AllIn"] ELSE status
    BY DEF Pay
<1> HIDE DEF amount
<1>4. \/ status' = status /\ amount < stack[seat]
      \/ status' = [status EXCEPT ![seat] = "AllIn"] /\ amount = stack[seat]
    BY <1>1, <1>2, <1>3
<1> QED
    BY <1>2, <1>3, <1>4, CommitStakes

\* post_antes and post_blinds.
LEMMA PostsStakes ==
    ASSUME Inv, StakesInv, PostAnte \/ PostSmallBlind \/ PostBigBlind PROVE StakesInv'
<1>1. /\ TypeOK /\ SeatStakes /\ pc \in Opening /\ pc' \in Opening
      /\ TwoContenders /\ Contenders \subseteq StillIn /\ street = "Preflop" /\ rank = NoChips
    BY DEF Inv, StakesInv, Opening, PostAnte, PostSmallBlind, PostBigBlind
<1>2. UNCHANGED <<args, street, rank>>
    BY DEF PostAnte, PostSmallBlind, PostBigBlind
<1>3. StillIn # {} /\ StillIn \in SUBSET Seats /\ dealer \in Seats
    BY <1>1 DEF TwoContenders, StillIn, SeatsWith, TypeOK
<1>4. sb_seat \in StillIn
    BY <1>3, FirstAfterType DEF sb_seat
<1>5. bb_seat \in StillIn
    BY <1>3, <1>4, FirstAfterType DEF bb_seat
<1>6. SeatStakes' /\ StillIn' = StillIn
    <2>1. CASE PostAnte /\ status[current] # "Active"
        BY <1>1, <2>1 DEF PostAnte, players, SeatStakes, StillIn, SeatsWith
    <2>2. CASE PostAnte /\ status[current] = "Active"
        <3>1. current \in StillIn /\ Pay(current, Lesser(Ante, stack[current])) /\ Ante \in Nat
            BY <1>1, <2>2, RulesAssumption DEF PostAnte, StillIn, SeatsWith, TypeOK
        <3> QED
            BY <1>1, <3>1, PayStakes
    <2>3. CASE PostSmallBlind
        BY <1>1, <1>4, <2>3, PayStakes, RulesAssumption DEF PostSmallBlind
    <2>4. CASE PostBigBlind
        BY <1>1, <1>5, <2>4, PayStakes, RulesAssumption DEF PostBigBlind
    <2> QED
        BY <2>1, <2>2, <2>3, <2>4
<1>7. Contenders' = Contenders /\ (TwoContenders' <=> TwoContenders)
    BY <1>2 DEF args, Contenders, TwoContenders
<1>8. pc' = "open" => current_bet' > 0
    BY RulesAssumption DEF PostAnte, PostSmallBlind, PostBigBlind
<1>9. pc' \in Opening /\ pc' \notin {"betting", "street", "showdown", "done"}
    BY <1>1 DEF Opening
<1> QED
    BY <1>1, <1>2, <1>6, <1>7, <1>8, <1>9 DEF StakesInv

\* The dead hands are folded; the contenders stay in.
LEMMA OpenStakes == ASSUME Inv, StakesInv, OpenBetting PROVE StakesInv'
<1>1. /\ TypeOK /\ SeatStakes /\ pc = "open" /\ TwoContenders /\ Contenders \subseteq StillIn
      /\ street = "Preflop" /\ rank = NoChips /\ current_bet > 0
    BY DEF Inv, StakesInv, Opening, OpenBetting
<1>2. /\ UNCHANGED <<args, street, rank, current_bet, stack, total_committed, bet_this_street>>
      /\ pc' \in {"award", "betting"}
    BY DEF OpenBetting, betting
<1>3. \A s \in Seats : \/ status'[s] = status[s]
                       \/ seat_kinds[s] = "DeadHand" /\ status'[s] = "Folded"
    <2>1. \A s \in Seats : status'[s] = IF seat_kinds[s] = "DeadHand" /\ status[s] # "Out"
                                       THEN "Folded" ELSE status[s]
        BY DEF OpenBetting, DeadHandsFolded
    <2> QED
        BY <2>1
<1>4. SeatStakes'
    BY <1>1, <1>2, <1>3 DEF SeatStakes
<1>5. Contenders \subseteq StillIn'
    BY <1>1, <1>3 DEF Contenders, StillIn, SeatsWith
<1>6. TwoStillIn'
    BY <1>1, <1>5 DEF TwoContenders, TwoStillIn
<1>7. pc' \notin Opening /\ pc' \notin {"street", "showdown", "done", "open"}
    BY <1>2 DEF Opening
<1>8. street' = "Preflop" /\ rank' = NoChips /\ current_bet' > 0
    BY <1>1, <1>2
<1> QED
    BY <1>4, <1>6, <1>7, <1>8 DEF StakesInv

\* apply_action, seat by seat.
LEMMA ActSeatStakes ==
    ASSUME Inv, SeatStakes, Act
    PROVE  /\ SeatStakes'
           /\ current \in StillIn
           /\ StillIn' = StillIn \/ StillIn' = StillIn \ {current}
           /\ \A s \in Seats : total_committed'[s] >= total_committed[s]
           /\ current_bet' >= current_bet
<1>1. TypeOK /\ Prompted /\ current \in Seats
    BY DEF Inv, TypeOK, Act, Fold, Check, Call, Raise, AllIn
<1>2. status[current] = "Active" /\ current \in StillIn
    BY <1>1 DEF Prompted, Settled, StillIn, SeatsWith
<1>3. /\ stack[current] \in Nat /\ current_bet \in Nat /\ stack[current] > 0
      /\ bet_this_street[current] \in Nat /\ min_raise_increment \in Nat
      /\ \A s \in Seats : total_committed[s] \in Nat
    BY <1>1, <1>2 DEF TypeOK, SeatStakes
<1>4. CASE Fold
    <2>1. /\ UNCHANGED <<stack, bet_this_street, total_committed, current_bet>>
          /\ status' = [status EXCEPT ![current] = "Folded"]
        BY <1>4 DEF Fold, betting
    <2>2. \A s \in Seats : status'[s] = IF s = current THEN "Folded" ELSE status[s]
        BY <1>1, <2>1 DEF TypeOK
    <2>3. SeatStakes'
        BY <2>1, <2>2 DEF SeatStakes
    <2>4. StillIn' = StillIn \ {current}
        BY <1>1, <2>2 DEF StillIn, SeatsWith
    <2> QED
        BY <1>2, <1>3, <2>1, <2>3, <2>4
<1>5. CASE Check
    BY <1>2, <1>3, <1>5 DEF Check, players, betting, SeatStakes, StillIn, SeatsWith
<1>6. CASE Call
    <2>1. Owed(current) \in Nat
        BY <1>3 DEF Owed, SaturatingSub
    <2>2. Pay(current, Lesser(Owed(current), stack[current])) /\ current_bet' = current_bet
        BY <1>6 DEF Call, betting
    <2> QED
        BY <1>1, <1>2, <1>3, <2>1, <2>2, PayStakes
<1>7. CASE Raise
    <2>1. PICK amount \in 0 .. AllInTotal(current) :
            /\ normalize_action(current, amount) = "Raise"
            /\ Commit(current, SaturatingSub(amount, bet_this_street[current]))
            /\ current_bet' = RaisedTo(current, amount)
        BY <1>7 DEF Raise, RaiseDispatchedAs
    <2>2. amount \in Nat
        BY <1>3 DEF AllInTotal
    <2> DEFINE paid == SaturatingSub(amount, bet_this_street[current])
    <2>3. paid \in Nat /\ paid < stack[current]
        BY <1>3, <2>1, <2>2 DEF normalize_action, SaturatingSub
    <2>4. current_bet' \in Nat /\ current_bet' >= current_bet
        <3>1. RaisedTo(current, amount) \in Nat /\ RaisedTo(current, amount) - current_bet \in Nat
            BY <1>1, <2>1, <2>2, RaiseCovered
        <3> QED
            BY <1>3, <2>1, <3>1
    <2>5. status' = status
        BY <1>7 DEF Raise
    <2>6. Commit(current, paid)
        BY <2>1
    <2> HIDE DEF paid
    <2>7. paid <= stack[current]
        BY <1>3, <2>3
    <2> QED
        BY <1>1, <1>2, <1>3, <2>1, <2>3, <2>4, <2>5, <2>6, <2>7, CommitStakes
<1>8. CASE AllIn
    <2>1. Commit(current, stack[current]) /\ status' = [status EXCEPT ![current] = "AllIn"]
        BY <1>8 DEF AllIn
    <2>2. \/ current_bet' = current_bet
          \/ current_bet' = AllInTotal(current) /\ AllInTotal(current) > current_bet
        <3>1. AllInTotal(current) \in Nat
            BY <1>3 DEF AllInTotal
        <3> HIDE DEF AllInTotal
        <3>2. CASE AllInUnderneath
            BY <3>2 DEF AllInUnderneath, betting
        <3>3. CASE AllInFullRaise
            <4>1. AllInTotal(current) - current_bet > 0 /\ current_bet' = AllInTotal(current)
                BY <3>3 DEF AllInFullRaise
            <4> QED
                BY <1>3, <3>1, <4>1
        <3>4. CASE AllInShortRaise
            <4>1. AllInTotal(current) - current_bet > 0 /\ current_bet' = AllInTotal(current)
                BY <3>4 DEF AllInShortRaise
            <4> QED
                BY <1>3, <3>1, <4>1
        <3> QED
            BY <1>8, <3>2, <3>3, <3>4 DEF AllIn
    <2>3. current_bet' >= current_bet
        BY <1>3, <2>2 DEF AllInTotal
    <2>4. stack[current] <= stack[current]
        BY <1>3
    <2> QED
        BY <1>1, <1>2, <1>3, <2>1, <2>3, <2>4, CommitStakes
<1> QED
    BY <1>4, <1>5, <1>6, <1>7, <1>8 DEF Act

\* apply_action and what follows it: the round goes on only between two seats.
LEMMA ActStakes == ASSUME Inv, StakesInv, Act PROVE StakesInv'
<1>1. TypeOK /\ SeatStakes /\ Prompted /\ rank = NoChips /\ TwoStillIn
    BY DEF Inv, StakesInv, Act, Fold, Check, Call, Raise, AllIn, Prompted
<1>2. PICK b \in BOOLEAN : AfterAction(b)
    <2>1. CASE Fold \/ Check \/ Call \/ Raise
        BY <2>1 DEF Fold, Check, Call, Raise
    <2>2. CASE AllIn
        BY <2>2, AllInResponds
    <2> QED
        BY <2>1, <2>2 DEF Act
<1>3. /\ pc = "betting" /\ pc' \in {"award", "betting"} /\ UNCHANGED <<street, rank>>
      /\ pc' = "betting" => ~ OneLeft(status')
    BY <1>1, <1>2 DEF AfterAction, Prompted
<1>4. /\ SeatStakes' /\ current \in StillIn
      /\ StillIn' = StillIn \/ StillIn' = StillIn \ {current}
      /\ \A s \in Seats : total_committed'[s] >= total_committed[s]
      /\ current_bet' >= current_bet
    BY <1>1, ActSeatStakes
<1>5. StillIn' # {} /\ StillIn' \in SUBSET Seats /\ StillIn \subseteq Seats
    BY <1>1, <1>4 DEF TwoStillIn, StillIn, SeatsWith
<1>6. pc' = "betting" => TwoStillIn'
    <2> SUFFICES ASSUME pc' = "betting" PROVE TwoStillIn'
        OBVIOUS
    <2>1. Cardinality(StillIn') # 1
        BY <1>3 DEF OneLeft, StillIn, SeatsWith
    <2> QED
        BY <1>5, <2>1, NotOneIsTwo DEF TwoStillIn
<1>7. street = "Preflop" => current_bet' > 0
    <2>1. current_bet \in Nat /\ current_bet' \in Nat
        BY <1>1, FoldCheckInv, CallInv, RaiseInv, AllInInv DEF Act, Inv, TypeOK
    <2> QED
        BY <1>3, <1>4, <2>1 DEF StakesInv
<1>8. street # "Preflop" => \A s \in StillIn' : total_committed'[s] > 0
    <2>1. \A s \in Seats : total_committed[s] \in Nat /\ total_committed'[s] \in Nat
        BY <1>1, FoldCheckInv, CallInv, RaiseInv, AllInInv DEF Act, Inv, TypeOK
    <2> QED
        BY <1>3, <1>4, <1>5, <2>1 DEF StakesInv
<1>9. pc' \notin Opening /\ pc' \notin {"street", "showdown", "done", "open"}
    BY <1>3 DEF Opening
<1> QED
    BY <1>1, <1>3, <1>4, <1>6, <1>7, <1>8, <1>9 DEF StakesInv

\* The end of a round, the streets, and the steps that end the hand.
LEMMA OtherStakes ==
    ASSUME Inv, StakesInv,
           \/ SkipSettled \/ EndRound \/ DealStreet \/ GoToShowdown
           \/ Showdown \/ AwardUncontested \/ UNCHANGED vars
    PROVE  StakesInv'
<1>1. TypeOK /\ SeatStakes
    BY DEF Inv, StakesInv
<1>2. CASE SkipSettled \/ GoToShowdown \/ UNCHANGED vars
    <2>1. UNCHANGED <<args, stack, bet_this_street, total_committed, status, street,
                      current_bet, rank>>
        BY <1>2 DEF SkipSettled, GoToShowdown, vars, players, betting
    <2>2. pc' = pc \/ (pc = "street" /\ pc' = "showdown")
        BY <1>2 DEF SkipSettled, GoToShowdown, vars
    <2>3. /\ StillIn' = StillIn /\ Contenders' = Contenders
        BY <2>1 DEF args, StillIn, SeatsWith, Contenders
    <2>4. SeatStakes'
        BY <1>1, <2>1 DEF SeatStakes
    <2>5. (TwoStillIn' <=> TwoStillIn) /\ (TwoContenders' <=> TwoContenders)
        BY <2>3 DEF TwoStillIn, TwoContenders
    <2>6. pc # "street" \/ pc' = "street" \/ pc' \notin Opening
        BY <2>2 DEF Opening
    <2> QED
        BY <2>1, <2>2, <2>3, <2>4, <2>5, <2>6 DEF StakesInv
<1>3. CASE EndRound
    <2>1. /\ UNCHANGED <<stack, total_committed, status, street, rank>>
          /\ pc = "betting" /\ pc' = "street" /\ bet_this_street' = NoChips /\ AllSettled
        BY <1>3 DEF EndRound, CollectBets, NoChips
    <2>2. SeatStakes'
        BY <1>1, <2>1 DEF SeatStakes, NoChips, TypeOK
    <2>3. StillIn' = StillIn /\ StillIn \subseteq Seats /\ TwoStillIn /\ rank = NoChips
        BY <2>1 DEF StillIn, SeatsWith, StakesInv
    <2>4. ASSUME NEW s \in StillIn PROVE total_committed[s] > 0
        <3>1. CASE street # "Preflop"
            BY <2>1, <3>1 DEF StakesInv
        <3>2. CASE street = "Preflop" /\ status[s] = "Active"
            <4>1. bet_this_street[s] = current_bet /\ current_bet > 0
                BY <2>1, <2>3, <3>2 DEF AllSettled, Settled, StakesInv
            <4> QED
                BY <1>1, <2>3, <4>1 DEF SeatStakes, TypeOK
        <3>3. CASE status[s] = "AllIn"
            BY <1>1, <2>3, <3>3 DEF SeatStakes
        <3> QED
            BY <3>1, <3>2, <3>3 DEF StillIn, SeatsWith
    <2>5. pc' \notin Opening
        BY <2>1 DEF Opening
    <2> QED
        BY <2>1, <2>2, <2>3, <2>4, <2>5 DEF StakesInv, TwoStillIn
<1>4. CASE DealStreet
    <2>1. /\ UNCHANGED <<stack, total_committed, status, rank>> /\ bet_this_street' = NoChips
          /\ pc = "street" /\ pc' \in {"street", "betting"}
        BY <1>4 DEF DealStreet, NoChips
    <2>2. street' # "Preflop"
        BY <1>1, <1>4 DEF DealStreet, NextStreet, TypeOK, Street
    <2>3. SeatStakes'
        BY <1>1, <2>1 DEF SeatStakes, NoChips, TypeOK
    <2>4. /\ StillIn' = StillIn /\ TwoStillIn /\ rank = NoChips
          /\ \A s \in StillIn : total_committed[s] > 0
        BY <2>1 DEF StillIn, SeatsWith, StakesInv
    <2>5. pc' \notin Opening
        BY <2>1 DEF Opening
    <2> QED
        BY <2>1, <2>2, <2>3, <2>4, <2>5 DEF StakesInv, TwoStillIn
<1>5. CASE Showdown \/ AwardUncontested
    <2>1. UNCHANGED <<total_committed, status>> /\ pc' = "done"
        BY <1>5 DEF Showdown, AwardUncontested
    <2>2. \A s \in Seats : stack'[s] >= stack[s] /\ stack[s] \in Nat
        <3>1. CASE Showdown
            <4>1. chip_deltas' \in [Seats -> Nat]
                BY <1>1, <3>1, PayoutType DEF Showdown, TypeOK
            <4> QED
                BY <1>1, <3>1, <4>1 DEF Showdown, TypeOK
        <3>2. CASE AwardUncontested
            <4> DEFINE total == pot + Total(bet_this_street)
            <4>1. total \in Nat /\ stack' = [stack EXCEPT ![Min(StillIn)] = @ + total]
                BY <1>1, <3>2, TotalType DEF AwardUncontested, TypeOK
            <4> HIDE DEF total
            <4> QED
                BY <1>1, <4>1 DEF TypeOK
        <3> QED
            BY <1>5, <3>1, <3>2
    <2>3. \A s \in Seats : stack'[s] \in Nat
        BY <1>5, ShowdownInv, AwardUncontestedInv DEF Inv, TypeOK
    <2>4. \A s \in Seats : bet_this_street'[s] <= total_committed[s]
        BY <1>1, <1>5 DEF Showdown, AwardUncontested, SeatStakes, TypeOK
    <2>5. SeatStakes'
        BY <1>1, <2>1, <2>2, <2>3, <2>4 DEF SeatStakes
    <2>6. pc' \notin Opening
        BY <2>1 DEF Opening
    <2> QED
        BY <2>1, <2>5, <2>6 DEF StakesInv
<1> QED
    BY <1>2, <1>3, <1>4, <1>5

\* The stakes at every step of a hand between two contenders.
LEMMA StakesStep == Inv /\ StakesInv /\ [Next]_vars => StakesInv'
BY PostsStakes, OpenStakes, ActStakes, OtherStakes DEF Next

-----------------------------------------------------------------------------
(* The theorems *)

\* A showdown has a pot with an eligible seat.
LEMMA ShowdownHasPot ==
    ASSUME TypeOK, StakesInv, pc = "showdown" PROVE PotLevels # {}
<1>1. PICK s \in StillIn : total_committed[s] > 0
    BY DEF StakesInv, TwoStillIn
<1>2. s \in Seats /\ status[s] # "Folded" /\ total_committed[s] \in Nat
    BY DEF StillIn, SeatsWith, TypeOK
<1>3. total_committed[s] \in Levels /\ s \in Eligible(total_committed[s])
    BY <1>1, <1>2 DEF Levels, Eligible
<1> QED
    BY <1>3 DEF PotLevels

\* A payout that takes the whole pot to one seat.
LEMMA WholePot ==
    ASSUME TypeOK, PotAccounting, NotPaidYet, AwardUncontested
    PROVE  /\ Min(StillIn) \in StillIn
           /\ chip_deltas' = [s \in Seats |-> IF s = Min(StillIn) THEN Total(total_committed) ELSE 0]
           /\ Total(chip_deltas') = Total(total_committed)
<1> DEFINE winner == Min(StillIn)
           total == Total(total_committed)
<1>1. winner \in StillIn /\ winner \in Seats
    <2>1. StillIn \subseteq Nat /\ StillIn # {} /\ StillIn \subseteq Seats
        BY DEF AwardUncontested, StillIn, SeatsWith, Seats
    <2> QED
        BY <2>1, MinType
<1>2. total \in Nat /\ total = pot + Total(bet_this_street)
    BY TotalType DEF TypeOK, PotAccounting, AwardUncontested
<1>3. chip_deltas' = [s \in Seats |-> IF s = winner THEN total ELSE 0]
    BY <1>2 DEF AwardUncontested
<1> HIDE DEF winner, total
<1>4. NoChips \in [Seats -> Nat] /\ Total(NoChips) = 0
    BY TotalZero DEF NoChips
<1>5. chip_deltas' = [NoChips EXCEPT ![winner] = @ + total]
    BY <1>1, <1>2, <1>3 DEF NoChips
<1>6. Total([NoChips EXCEPT ![winner] = @ + total]) = 0 + total
    BY <1>1, <1>2, <1>4, TotalUpdate
<1>7. Total(chip_deltas') = total
    BY <1>2, <1>5, <1>6
<1> QED
    BY <1>1, <1>3, <1>7 DEF winner, total

\* A hand ends in resolve_showdown or in award_uncontested.
LEMMA HandGoesOn ==
    ASSUME [Next]_vars, ~ (Showdown \/ AwardUncontested \/ UNCHANGED vars)
    PROVE  pc' # "done"
BY AllInResponds DEF Next, Act, PostAnte, PostSmallBlind, PostBigBlind, OpenBetting,
   Fold, Check, Call, Raise, AfterAction, SkipSettled, EndRound, DealStreet, GoToShowdown, Prompted

\* The hand is zero-sum: what resolve_showdown or award_uncontested pays out is
\* what the seats committed, for every number of seats, stacks, antes, blinds
\* and answers of the agents, in a hand between two live seats with chips.
THEOREM EveryChipIsPaid == ASSUME MinContenders >= 2 PROVE Spec => []ChipsConserved
<1>1. Init => StakesInv /\ ChipsConserved
    BY InitStakes DEF Init, ChipsConserved
<1>2. ASSUME Inv, StakesInv, ChipsConserved, [Next]_vars PROVE ChipsConserved'
    <2>1. CASE Showdown
        <3>1. /\ TypeOK /\ pc = "showdown" /\ chip_deltas' = Payout(rank')
              /\ rank' \in [Seats -> Nat] /\ total_committed' = total_committed
            BY <1>2, <2>1, RulesAssumption DEF Showdown, Inv
        <3>2. Total(Payout(rank')) = Total(total_committed)
            BY <1>2, <3>1, ShowdownHasPot, PayoutTotal DEF TypeOK
        <3> QED
            BY <3>1, <3>2 DEF ChipsConserved
    <2>2. CASE AwardUncontested
        <3>1. Total(chip_deltas') = Total(total_committed) /\ total_committed' = total_committed
            BY <1>2, <2>2, WholePot DEF Inv, AwardUncontested
        <3> QED
            BY <3>1 DEF ChipsConserved
    <2>3. CASE UNCHANGED vars
        BY <1>2, <2>3 DEF vars, players, ChipsConserved
    <2>4. CASE ~ (Showdown \/ AwardUncontested \/ UNCHANGED vars)
        BY <1>2, <2>4, HandGoesOn DEF ChipsConserved
    <2> QED
        BY <2>1, <2>2, <2>3, <2>4
<1> QED
    BY <1>1, <1>2, StakesStep, Invariance, PTL DEF Spec

\* ShowdownFair of a payout d for the ranks r.
Fair(d, r) ==
    /\ \A s \in Seats : s \notin StillIn => d[s] = 0
    /\ \A s, t \in StillIn : total_committed[s] <= total_committed[t] /\ r[s] < r[t] => d[s] = 0
    /\ \A s \in StillIn : (\A t \in StillIn \ {s} : r[t] < r[s]) => d[s] >= UpTo(s)

\* SidePotsCapped of a payout d.
Capped(d) ==
    \A s, t \in StillIn : total_committed[s] < total_committed[t] => d[s] <= UpTo(s)

\* The sum in both properties.
LEMMA UpToIsSum ==
    ASSUME NEW s
    PROVE  SumOver(Seats, LAMBDA t : Lesser(total_committed[s], total_committed[t])) = UpTo(s)
<1> DEFINE f == [t \in Seats |-> Lesser(total_committed[s], total_committed[t])]
<1>1. UNION {{t} \X (1 .. Lesser(total_committed[s], total_committed[t])) : t \in Seats}
        = UNION {{t} \X (1 .. f[t]) : t \in Seats}
    OBVIOUS
<1> QED
    BY <1>1 DEF SumOver, Total, UpTo

\* The two properties in these words.
LEMMA FairAndCapped ==
    /\ ShowdownFair <=> ((pc = "done" /\ \A s \in Seats : rank[s] \in Ranks) => Fair(chip_deltas, rank))
    /\ SidePotsCapped <=> ((pc = "done" /\ \E s \in Seats : rank[s] \in Ranks) => Capped(chip_deltas))
<1> DEFINE up(s) == SumOver(Seats, LAMBDA t : Lesser(total_committed[s], total_committed[t]))
<1>1. \A s : up(s) = UpTo(s)
    BY UpToIsSum
<1>2. ShowdownFair <=>
        ((pc = "done" /\ \A s \in Seats : rank[s] \in Ranks) =>
            /\ \A s \in Seats : s \notin StillIn => chip_deltas[s] = 0
            /\ \A s, t \in StillIn :
                  total_committed[s] <= total_committed[t] /\ rank[s] < rank[t] => chip_deltas[s] = 0
            /\ \A s \in StillIn :
                  (\A t \in StillIn \ {s} : rank[t] < rank[s]) => chip_deltas[s] >= up(s))
    BY DEF ShowdownFair
<1>3. SidePotsCapped <=>
        ((pc = "done" /\ \E s \in Seats : rank[s] \in Ranks) =>
            \A s, t \in StillIn : total_committed[s] < total_committed[t] => chip_deltas[s] <= up(s))
    BY DEF SidePotsCapped
<1> HIDE DEF up
<1> QED
    BY <1>1, <1>2, <1>3 DEF Fair, Capped

\* A seat that is not in has nothing to win: it has folded or put nothing in.
LEMMA EligibleAreIn ==
    ASSUME TypeOK, SeatStakes, NEW level \in PotLevels
    PROVE  Eligible(level) = {s \in StillIn : total_committed[s] >= level} /\ level > 0
<1>1. level \in Nat /\ level > 0
    BY LevelsFinite DEF PotLevels, Levels, TypeOK
<1>2. \A s \in Seats : status[s] \in {"Active", "AllIn", "Folded", "Out"} /\ total_committed[s] \in Nat
    BY DEF TypeOK, PlayerStatus
<1>3. \A s \in Seats : total_committed[s] >= level => status[s] # "Out"
    BY <1>1, <1>2 DEF SeatStakes
<1> QED
    BY <1>1, <1>2, <1>3 DEF Eligible, StillIn, SeatsWith

\* resolve_showdown is fair.
LEMMA PayoutFair ==
    ASSUME TypeOK, SeatStakes, NEW r \in [Seats -> Nat]
    PROVE  Fair(Payout(r), r)
<1>1. /\ total_committed \in [Seats -> Nat] /\ dealer \in Seats /\ StillIn \subseteq Seats
      /\ \A s \in Seats : total_committed[s] \in Nat /\ r[s] \in Nat
    BY DEF TypeOK, StillIn, SeatsWith
<1>2. ASSUME NEW s \in Seats, s \notin StillIn PROVE Payout(r)[s] = 0
    <2>1. \A l \in PotLevels : s \notin Winners(l, r)
        BY <1>2, EligibleAreIn DEF Winners
    <2> QED
        BY <1>1, <2>1, PaidNothing
<1>3. ASSUME NEW s \in StillIn, NEW t \in StillIn,
             total_committed[s] <= total_committed[t], r[s] < r[t]
      PROVE  Payout(r)[s] = 0
    <2>1. ASSUME NEW l \in PotLevels, s \in Winners(l, r) PROVE FALSE
        <3>1. l \in Nat /\ total_committed[s] >= l
            BY <1>1, <2>1, EligibleAreIn, LevelsFinite DEF Winners, PotLevels
        <3>2. t \in Eligible(l)
            BY <1>1, <1>3, <3>1, EligibleAreIn
        <3>3. r[t] <= r[s]
            BY <2>1, <3>2 DEF Winners
        <3> QED
            BY <1>1, <1>3, <3>3
    <2> QED
        BY <1>1, <2>1, PaidNothing
<1>4. ASSUME NEW s \in StillIn, \A t \in StillIn \ {s} : r[t] < r[s]
      PROVE  Payout(r)[s] >= UpTo(s)
    <2>1. ASSUME NEW l \in Levels, l <= total_committed[s]
          PROVE  l \in PotLevels /\ Winners(l, r) = {s}
        <3>1. s \in Eligible(l)
            BY <1>1, <2>1, LevelsFinite DEF Eligible, StillIn, SeatsWith
        <3>2. l \in PotLevels
            BY <2>1, <3>1 DEF PotLevels
        <3>3. \A t \in Eligible(l) : t \in StillIn /\ t \in Seats /\ (t # s => r[t] < r[s])
            BY <1>1, <1>4, <3>2, EligibleAreIn
        <3>4. \A t \in Eligible(l) : r[t] <= r[s]
            BY <1>1, <3>3
        <3>5. \A t \in Eligible(l) : t # s => ~ (r[s] <= r[t])
            BY <1>1, <3>3
        <3>6. Winners(l, r) = {s}
            BY <3>1, <3>4, <3>5 DEF Winners
        <3> QED
            BY <3>2, <3>6
    <2> QED
        BY <1>1, <2>1, PaidAtLeast
<1> QED
    BY <1>2, <1>3, <1>4 DEF Fair

\* resolve_showdown keeps a seat out of the side pots it did not cover.
LEMMA PayoutCapped ==
    ASSUME TypeOK, NEW r \in [Seats -> Nat]
    PROVE  Capped(Payout(r))
<1> SUFFICES ASSUME NEW s \in StillIn, NEW t \in StillIn, total_committed[s] < total_committed[t]
             PROVE  Payout(r)[s] <= UpTo(s)
    BY DEF Capped
<1>1. /\ total_committed \in [Seats -> Nat] /\ dealer \in Seats /\ s \in Seats /\ t \in Seats
      /\ status[t] # "Folded"
    BY DEF TypeOK, StillIn, SeatsWith
<1> QED
    BY <1>1, PaidAtMost

\* What the two properties say once a showdown has been resolved.
LEMMA ShowdownPays ==
    ASSUME Inv, StakesInv, Showdown
    PROVE  ShowdownFair' /\ SidePotsCapped'
<1>1. /\ TypeOK /\ SeatStakes /\ chip_deltas' = Payout(rank')
      /\ rank' \in [Seats -> Nat] /\ total_committed' = total_committed /\ status' = status
    BY RulesAssumption DEF Showdown, Inv, StakesInv
<1>2. StillIn' = StillIn
    BY <1>1 DEF StillIn, SeatsWith
<1>3. Fair(chip_deltas', rank') /\ Capped(chip_deltas')
    BY <1>1, PayoutFair, PayoutCapped
<1>4. \A s : UpTo(s)' = UpTo(s)
    BY <1>1 DEF UpTo
<1>5. Fair(chip_deltas, rank)' /\ Capped(chip_deltas)'
    BY <1>1, <1>2, <1>3, <1>4 DEF Fair, Capped
<1>6. /\ Fair(chip_deltas, rank)' => ShowdownFair'
      /\ Capped(chip_deltas)' => SidePotsCapped'
    BY FairAndCapped, PTL
<1> QED
    BY <1>5, <1>6

\* The two properties hold before there is a payout and stay as they are.
LEMMA PaysFairly ==
    ASSUME Inv, StakesInv, ShowdownFair, SidePotsCapped, [Next]_vars
    PROVE  ShowdownFair' /\ SidePotsCapped'
<1>1. CASE Showdown
    BY <1>1, ShowdownPays
<1>2. CASE AwardUncontested
    <2>1. rank' = NoChips
        BY <1>2 DEF AwardUncontested, StakesInv
    <2>2. \A s \in Seats : rank'[s] \notin Ranks
        BY <2>1, RulesAssumption DEF NoChips
    <2>3. 0 \in Seats
        BY SeatsAssumption DEF Seats
    <2> QED
        BY <2>2, <2>3 DEF ShowdownFair, SidePotsCapped
<1>3. CASE UNCHANGED vars
    <2>1. UNCHANGED <<pc, rank, chip_deltas, total_committed, status>>
        BY <1>3 DEF vars, players
    <2>2. StillIn' = StillIn /\ \A s : UpTo(s)' = UpTo(s)
        BY <2>1 DEF StillIn, SeatsWith, UpTo
    <2>3. /\ Fair(chip_deltas, rank) => Fair(chip_deltas, rank)'
          /\ Capped(chip_deltas) => Capped(chip_deltas)'
        BY <2>1, <2>2 DEF Fair, Capped
    <2>4. /\ Fair(chip_deltas, rank)' => ShowdownFair'
          /\ Capped(chip_deltas)' => SidePotsCapped'
        BY FairAndCapped, PTL
    <2>5. ShowdownFair'
        <3>1. CASE pc = "done" /\ \A s \in Seats : rank[s] \in Ranks
            BY <3>1, <2>3, <2>4, FairAndCapped
        <3>2. CASE ~ (pc = "done" /\ \A s \in Seats : rank[s] \in Ranks)
            BY <3>2, <2>1 DEF ShowdownFair
        <3> QED
            BY <3>1, <3>2
    <2>6. SidePotsCapped'
        <3>1. CASE pc = "done" /\ \E s \in Seats : rank[s] \in Ranks
            BY <3>1, <2>3, <2>4, FairAndCapped
        <3>2. CASE ~ (pc = "done" /\ \E s \in Seats : rank[s] \in Ranks)
            BY <3>2, <2>1 DEF SidePotsCapped
        <3> QED
            BY <3>1, <3>2
    <2> QED
        BY <2>5, <2>6
<1>4. CASE ~ (Showdown \/ AwardUncontested \/ UNCHANGED vars)
    BY <1>4, HandGoesOn DEF ShowdownFair, SidePotsCapped
<1> QED
    BY <1>1, <1>2, <1>3, <1>4

\* At the start nothing has been paid.
LEMMA NothingPaidAtStart == Init => ShowdownFair /\ SidePotsCapped
BY DEF Init, ShowdownFair, SidePotsCapped

\* Whatever the commitments, folds and ranks: a seat that is out or beaten by a
\* seat that covers it is paid nothing at a showdown, and the best hand is paid
\* at least what each seat put in up to its own commitment.
THEOREM ShowdownsAreFair == ASSUME MinContenders >= 2 PROVE Spec => []ShowdownFair
<1>1. Inv /\ StakesInv /\ ShowdownFair /\ SidePotsCapped /\ [Next]_vars
        => ShowdownFair' /\ SidePotsCapped'
    BY PaysFairly
<1> QED
    BY <1>1, InitStakes, NothingPaidAtStart, StakesStep, Invariance, PTL DEF Spec

\* A seat that a live opponent covers is paid at most its own commitment from
\* every seat: build_showdown_pots gives it no chip of a slice above it.
THEOREM SidePotsAreCapped == ASSUME MinContenders >= 2 PROVE Spec => []SidePotsCapped
<1>1. Inv /\ StakesInv /\ ShowdownFair /\ SidePotsCapped /\ [Next]_vars
        => ShowdownFair' /\ SidePotsCapped'
    BY PaysFairly
<1> QED
    BY <1>1, InitStakes, NothingPaidAtStart, StakesStep, Invariance, PTL DEF Spec
=============================================================================
