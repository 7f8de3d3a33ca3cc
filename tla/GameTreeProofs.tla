--------------------------- MODULE GameTreeProofs ---------------------------
(***************************************************************************)
(* The solver's stepper plays the engine's hands: for every number of      *)
(* seats, stacks, blinds, antes and rules, a hand of GameTree is a hand of *)
(* Engine::run_hand.                                                       *)
(***************************************************************************)
EXTENDS GameTree, HandEngineProofs

\* The part of the types that the control of the tree depends on.
TreeTypes ==
    /\ dealer \in Seats /\ current \in Seats /\ scan \in Seats
    /\ status \in [Seats -> PlayerStatus]

\* The seats the search of advance has passed over are settled.
Passed == \A s \in Seats : Distance(current, s) < Distance(current, scan) => Settled(s)

\* A decision node is at a seat that has a decision to make.
NodeHasDecision == pc = "betting" => ~ Settled(current)

TreeInv ==
    /\ TreeTypes
    /\ pc \in Opening \union {"betting", "scan", "collect", "street", "showdown", "award", "done"}
    /\ pc \in Opening => TwoContenders /\ Contenders \subseteq StillIn /\ street = "Preflop"
    /\ pc \in Opening => has_responded = [s \in Seats |-> FALSE]
    /\ street \in Street \union {"Showdown"}
    /\ pc \notin {"showdown", "done"} => street # "Showdown"
    /\ pc = "showdown" => street = "Showdown"
    /\ NodeHasDecision
    /\ pc = "scan" => Passed
    /\ pc = "collect" => AllSettled
    /\ pc \in {"betting", "scan", "collect", "street"} => TwoStillIn

-----------------------------------------------------------------------------
(* The tree's own invariant *)

\* Two distinct seats still in are more than one (the guard of run_streets).
LEMMA TwoIsMoreThanOne ==
    ASSUME NEW S \in SUBSET Seats, NEW x \in S, NEW y \in S, x # y
    PROVE  Cardinality(S) > 1
<1>1. IsFiniteSet(S) /\ Cardinality(S) \in Nat
    BY SeatsFinite
<1>2. Cardinality({x, y}) = 2
    <2>1. IsFiniteSet({x}) /\ Cardinality({x}) = 1
        BY FS_Singleton
    <2>2. {x, y} = {x} \union {y} /\ y \notin {x}
        OBVIOUS
    <2>3. Cardinality({x} \union {y}) = Cardinality({x}) + 1
        BY <2>1, <2>2, FS_AddElement
    <2> QED
        BY <2>1, <2>2, <2>3
<1>3. Cardinality({x, y}) <= Cardinality(S)
    <2>1. {x, y} \in SUBSET S
        OBVIOUS
    <2> QED
        BY <1>1, <2>1, FS_Subset
<1> QED
    BY <1>1, <1>2, <1>3

LEMMA TreeInitInv == ASSUME MinContenders >= 2 PROVE TreeInit => TreeInv
<1> SUFFICES ASSUME TreeInit PROVE TreeInv
    OBVIOUS
<1>1. Init /\ scan = 0 /\ 0 \in Seats
    BY SeatsAssumption DEF TreeInit, Seats
<1>2. TwoContenders
    BY <1>1, ContendersAtStart
<1>3. TreeTypes
    BY <1>1, RulesAssumption DEF TreeTypes, Init, init_state, PlayerStatus, Seats
<1>4. Contenders \subseteq StillIn
    BY <1>1 DEF Contenders, StillIn, SeatsWith, Init, init_state
<1>5. pc \in Opening /\ street = "Preflop" /\ has_responded = [s \in Seats |-> FALSE]
    BY <1>1 DEF Init, init_state, Opening
<1> QED
    BY <1>2, <1>3, <1>4, <1>5 DEF TreeInv, Opening, Street, NodeHasDecision

\* Where a search goes round the table: the next seat is one further away, and
\* only the actor is N away.
LEMMA Around ==
    ASSUME NEW from \in Seats
    PROVE  /\ \A s \in Seats : NextSeat(s) \in Seats /\ Distance(from, s) \in 1 .. N
           /\ \A s \in Seats : Distance(from, s) = N => s = from
           /\ Distance(from, NextSeat(from)) = 1
           /\ \A s \in Seats : s # from =>
                Distance(from, NextSeat(s)) = Distance(from, s) + 1
           /\ \A s, t \in Seats : Distance(from, s) = Distance(from, t) => s = t
BY SeatsAssumption DEF Seats, NextSeat, Distance

\* Antes and blinds take nobody out of the hand.
LEMMA OpeningInv ==
    ASSUME TreeInv, PostAnte \/ PostSmallBlind \/ PostBigBlind, UNCHANGED scan
    PROVE  TreeInv'
<1>1. \/ status' = status
      \/ \E s : status' = [status EXCEPT ![s] = "AllIn"]
    BY DEF PostAnte, PostSmallBlind, PostBigBlind, Pay, players
<1>2. status' \in [Seats -> PlayerStatus] /\ StillIn \subseteq StillIn'
    BY <1>1 DEF TreeInv, TreeTypes, PlayerStatus, StillIn, SeatsWith
<1>3. TreeTypes'
    BY <1>2, Around DEF TreeInv, TreeTypes, PostAnte, PostSmallBlind, PostBigBlind, args
<1>4. /\ pc \in Opening /\ pc' \in Opening
      /\ UNCHANGED <<stacks, seat_kinds, street, has_responded>>
    BY DEF PostAnte, PostSmallBlind, PostBigBlind, Opening, args
<1>5. TwoContenders' /\ Contenders' \subseteq StillIn'
    BY <1>2, <1>4 DEF TreeInv, TwoContenders, Contenders
<1> QED
    BY <1>3, <1>4, <1>5 DEF TreeInv, Opening, NodeHasDecision, Street

\* The dead hands fold, the contenders stay, and the first seat to act is one
\* that can.
LEMMA OpenInv == ASSUME TreeInv, OpenBetting, UNCHANGED scan PROVE TreeInv'
<1> DEFINE active == SeatsWith(DeadHandsFolded, {"Active"})
<1>1. status' \in [Seats -> PlayerStatus] /\ active \in SUBSET Seats
    BY DEF OpenBetting, DeadHandsFolded, TreeInv, TreeTypes, PlayerStatus, SeatsWith
<1>2. bb_seat \in Seats
    <2>1. StillIn \in SUBSET Seats /\ dealer \in Seats
        BY DEF StillIn, SeatsWith, TreeInv, TreeTypes
    <2>2. sb_seat \in Seats
        BY <2>1, FirstAfterType DEF sb_seat
    <2> QED
        BY <2>1, <2>2, FirstAfterType DEF bb_seat
<1>3. TwoStillIn'
    <2>1. PICK x \in Contenders, y \in Contenders : x # y
        BY DEF TreeInv, TwoContenders, OpenBetting, Opening
    <2>2. Contenders \subseteq StillIn
        BY DEF TreeInv, OpenBetting, Opening
    <2>3. Contenders \subseteq StillIn'
        BY <2>2 DEF OpenBetting, DeadHandsFolded, Contenders, StillIn, SeatsWith
    <2> QED
        BY <2>1, <2>3 DEF TwoStillIn
<1>4. CASE active = {}
    BY <1>1, <1>4 DEF OpenBetting, TreeInv, TreeTypes, NodeHasDecision, Opening, args
<1>5. CASE active # {}
    <2>1. pc' = "betting" /\ current' = FirstAfter(bb_seat, active)
        BY <1>5 DEF OpenBetting
    <2>2. current' \in active
        BY <1>1, <1>2, <1>5, <2>1, FirstAfterType
    <2>3. current' \in Seats /\ status'[current'] = "Active"
        BY <1>1, <2>2 DEF SeatsWith, OpenBetting
    <2>4. has_responded' = [s \in Seats |-> FALSE]
        BY DEF TreeInv, OpenBetting, Opening
    <2>5. NodeHasDecision'
        BY <2>3, <2>4 DEF NodeHasDecision, Settled
    <2> QED
        BY <1>1, <1>3, <2>1, <2>3, <2>5 DEF OpenBetting, TreeInv, TreeTypes, Opening, args
<1> QED
    BY <1>4, <1>5

\* An action of the current seat: the others' statuses are untouched.
LEMMA ApplyInv ==
    ASSUME TreeInv, Deciding, NEW b, AfterApply(b),
           status' \in [Seats -> PlayerStatus],
           \A s \in Seats \ {current} : status'[s] = status[s]
    PROVE  TreeInv'
<1>1. current' = current /\ scan' = NextSeat(current) /\ current \in Seats
      /\ pc' \in {"award", "scan"} /\ UNCHANGED <<dealer, street>>
    BY DEF AfterApply, TreeInv, TreeTypes, args
<1>2. TreeTypes'
    BY <1>1, Around DEF TreeTypes, TreeInv
<1>3. Passed'
    <2>1. \A s \in Seats : Distance(current, s) \in 1 .. N
        BY <1>1, Around
    <2>2. Distance(current, NextSeat(current)) = 1
        BY <1>1, Around
    <2>3. \A s \in Seats : ~ (Distance(current', s) < Distance(current', scan'))
        BY <1>1, <2>1, <2>2, SeatsAssumption
    <2> QED
        BY <2>3 DEF Passed, Distance
<1>4. pc' = "scan" => TwoStillIn'
    <2> SUFFICES ASSUME pc' = "scan" PROVE TwoStillIn'
        OBVIOUS
    <2>1. Cardinality(StillIn') # 1
        BY DEF AfterApply, OneLeft, StillIn, SeatsWith
    <2>2. StillIn' \in SUBSET Seats
        BY DEF StillIn, SeatsWith
    <2>3. PICK x \in StillIn : x # current
        BY DEF TreeInv, Deciding, TwoStillIn
    <2>4. x \in StillIn'
        BY <2>3 DEF StillIn, SeatsWith
    <2> QED
        BY <2>1, <2>2, <2>4, NotOneIsTwo DEF TwoStillIn
<1> QED
    BY <1>1, <1>2, <1>3, <1>4 DEF TreeInv, Opening, NodeHasDecision, Deciding

LEMMA ActInv == ASSUME TreeInv, TreeAct PROVE TreeInv'
<1>1. \E b : AfterApply(b)
    BY DEF TreeAct, TreeFold, TreeCheck, TreeCall, TreeRaise, TreeAllIn
<1>2. Deciding
    BY DEF TreeAct, TreeFold, TreeCheck, TreeCall, TreeRaise, TreeAllIn
<1>3. status' = status \/ \E v \in PlayerStatus : status' = [status EXCEPT ![current] = v]
    BY DEF TreeAct, TreeFold, TreeCheck, TreeCall, TreeRaise, TreeAllIn, Pay, players,
           PlayerStatus
<1>4. /\ status' \in [Seats -> PlayerStatus]
      /\ \A s \in Seats \ {current} : status'[s] = status[s]
    BY <1>3 DEF TreeInv, TreeTypes
<1> QED
    BY <1>1, <1>2, <1>4, ApplyInv

\* advance looks at every seat before it closes the round.
LEMMA ScanInv == ASSUME TreeInv, Scan PROVE TreeInv'
<1>1. current \in Seats /\ scan \in Seats /\ Passed /\ TwoStillIn /\ pc = "scan"
    BY DEF TreeInv, TreeTypes, Scan
<1>2. \A s \in Seats : Settled(s)' <=> Settled(s)
    BY DEF Settled, Scan, players, betting
<1>3. TwoStillIn' /\ UNCHANGED <<dealer, status, street, has_responded>>
    BY <1>1 DEF TwoStillIn, StillIn, SeatsWith, Scan, players, args
<1>4. CASE ~ Settled(scan)
    <2>1. pc' = "betting" /\ current' = scan /\ scan' = scan
        BY <1>4 DEF Scan
    <2>2. NodeHasDecision'
        BY <1>1, <1>2, <1>4, <2>1 DEF NodeHasDecision, Settled
    <2> QED
        BY <1>1, <1>3, <2>1, <2>2 DEF TreeInv, TreeTypes, Opening
<1>5. CASE Settled(scan) /\ scan = current
    <2>1. pc' = "collect" /\ current' = current /\ scan' = scan
        BY <1>5 DEF Scan
    <2>2. \A s \in Seats : Distance(current, s) \in 1 .. N /\ (Distance(current, s) = N => s = current)
        BY <1>1, Around
    <2>3. Distance(current, current) = N
        BY <1>1, SeatsAssumption DEF Distance, Seats
    <2>4. \A s \in Seats : Settled(s)
        BY <1>1, <1>5, <2>2, <2>3, SeatsAssumption DEF Passed
    <2>5. AllSettled'
        BY <1>2, <2>4 DEF AllSettled
    <2> QED
        BY <1>1, <1>3, <2>1, <2>5 DEF TreeInv, TreeTypes, Opening, NodeHasDecision
<1>6. CASE Settled(scan) /\ scan # current
    <2>1. pc' = "scan" /\ current' = current /\ scan' = NextSeat(scan)
        BY <1>1, <1>6 DEF Scan
    <2>2. scan' \in Seats /\ Distance(current, scan') = Distance(current, scan) + 1
        BY <1>1, <1>6, <2>1, Around
    <2>3. \A s \in Seats : Distance(current, s) \in 1 .. N
                            /\ (Distance(current, s) = Distance(current, scan) => s = scan)
        BY <1>1, Around
    <2>4. \A s \in Seats : Distance(current, s) < Distance(current, scan') => Settled(s)
        BY <1>1, <1>6, <2>2, <2>3, SeatsAssumption DEF Passed
    <2>5. Passed'
        BY <1>2, <2>1, <2>4 DEF Passed, Distance
    <2> QED
        BY <1>1, <1>3, <2>1, <2>2, <2>5 DEF TreeInv, TreeTypes, Opening, NodeHasDecision
<1> QED
    BY <1>4, <1>5, <1>6

\* Dealing a street: the first seat to act can act and has not answered.
LEMMA StreetInv == ASSUME TreeInv, TreeStreet PROVE TreeInv'
<1>1. pc = "street" /\ TwoStillIn /\ street \in {"Preflop", "Flop", "Turn"}
    BY DEF TreeInv, TreeStreet, Street
<1>2. street' \in {"Flop", "Turn", "River"}
    BY <1>1 DEF TreeStreet, NextStreet
<1>3. TwoStillIn' /\ UNCHANGED <<dealer, status, scan>>
    BY <1>1 DEF TwoStillIn, StillIn, SeatsWith, TreeStreet, args
<1>4. CASE Cardinality(ActiveSeats) >= 2
    <2>1. pc' = "betting" /\ current' = FirstAfter(dealer, ActiveSeats)
          /\ has_responded' = [s \in Seats |-> FALSE]
        BY <1>4 DEF TreeStreet
    <2>2. ActiveSeats \in SUBSET Seats /\ ActiveSeats # {}
        BY <1>4, FS_EmptySet DEF ActiveSeats, SeatsWith
    <2>3. current' \in ActiveSeats
        BY <2>1, <2>2, FirstAfterType DEF TreeInv, TreeTypes
    <2>4. current' \in Seats /\ NodeHasDecision'
        BY <1>3, <2>1, <2>3 DEF ActiveSeats, SeatsWith, NodeHasDecision, Settled
    <2> QED
        BY <1>2, <1>3, <2>1, <2>4 DEF TreeInv, TreeTypes, Opening, Street
<1>5. CASE ~ (Cardinality(ActiveSeats) >= 2)
    <2>1. UNCHANGED <<pc, current>>
        BY <1>5 DEF TreeStreet
    <2> QED
        BY <1>1, <1>2, <1>3, <2>1 DEF TreeInv, TreeTypes, Opening, Street, NodeHasDecision
<1> QED
    BY <1>4, <1>5

LEMMA TreeNextInv == ASSUME TreeInv, [TreeNext]_treeVars PROVE TreeInv'
<1>1. CASE TreeOpening
    BY <1>1, OpeningInv, OpenInv DEF TreeOpening
<1>2. CASE TreeAct
    BY <1>2, ActInv
<1>3. CASE Scan
    BY <1>3, ScanInv
<1>4. CASE Collect
    BY <1>4 DEF Collect, TreeInv, TreeTypes, TwoStillIn, StillIn, SeatsWith, Opening,
                NodeHasDecision, args
<1>5. CASE TreeStreet
    BY <1>5, StreetInv
<1>6. CASE TreeShowdown
    BY <1>6 DEF TreeShowdown, TreeInv, TreeTypes, Opening, NodeHasDecision, args, players
<1>7. CASE TreePayout
    BY <1>7 DEF TreePayout, Showdown, AwardUncontested, TreeInv, TreeTypes, Opening,
                NodeHasDecision, args
<1>8. CASE UNCHANGED treeVars
    <2>1. UNCHANGED <<pc, dealer, current, scan, status, stacks, seat_kinds, street,
                      has_responded, bet_this_street, current_bet>>
        BY <1>8 DEF treeVars, vars, args, players, betting
    <2> QED
        BY <2>1 DEF TreeInv, TreeTypes, Opening, NodeHasDecision, TwoStillIn, StillIn, SeatsWith,
                    Passed, Settled, AllSettled, TwoContenders, Contenders, Distance
<1> QED
    BY <1>1, <1>2, <1>3, <1>4, <1>5, <1>6, <1>7, <1>8 DEF TreeNext

-----------------------------------------------------------------------------
(* The refinement *)

\* While the tree is where the engine can be, the mapping changes nothing but
\* the seat, and that only once the round is over.
LEMMA MapsHere ==
    ASSUME pc \notin {"scan", "collect", "street"}, street # "Showdown"
    PROVE  enginePc = pc /\ engineCurrent = current /\ engineStreet = street
BY DEF enginePc, engineCurrent, engineStreet, RoundOver

\* The instance counts like the tree does.
LEMMA SameCardinality == \A S : Engine!Cardinality(S) = Cardinality(S)
BY DEF Cardinality, Engine!Cardinality, IsFiniteSet, Engine!IsFiniteSet

\* The initial states of the tree are those of the engine.
LEMMA InitMaps == TreeInit => Engine!Init
<1> SUFFICES ASSUME TreeInit PROVE Engine!Init
    OBVIOUS
<1>1. pc \notin {"scan", "collect", "street"} /\ street # "Showdown"
    BY DEF TreeInit, Init, init_state
<1>2. enginePc = pc /\ engineCurrent = current /\ engineStreet = street
    BY <1>1, MapsHere
<1> QED
    BY <1>2, SameCardinality DEF TreeInit, Init, init_state, Engine!Init, Engine!init_state, Seats, Engine!Seats,
                SeatKind, Engine!SeatKind

\* Seats, tallies and statuses are not mapped: the engine's operators on them
\* mean the same in the instance.
LEMMA SameSeats ==
    /\ Engine!Seats = Seats
    /\ \A f, S : Engine!FirstAfter(f, S) = FirstAfter(f, S)
    /\ \A s : Engine!NextSeat(s) = NextSeat(s)
    /\ Engine!StillIn = StillIn /\ Engine!ActiveSeats = ActiveSeats
    /\ \A st, w : Engine!SeatsWith(st, w) = SeatsWith(st, w)
    /\ \A s : Engine!Settled(s) <=> Settled(s)
    /\ Engine!AllSettled <=> AllSettled
    /\ \A st : Engine!OneLeft(st) <=> OneLeft(st)
BY SameCardinality DEF Seats, FirstAfter, Distance, NextSeat, StillIn, ActiveSeats, SeatsWith,
    Settled, AllSettled, OneLeft,
    Engine!Seats, Engine!FirstAfter, Engine!Distance, Engine!NextSeat, Engine!StillIn,
    Engine!ActiveSeats, Engine!SeatsWith, Engine!Settled, Engine!AllSettled, Engine!OneLeft

LEMMA SameBlinds == Engine!sb_seat = sb_seat /\ Engine!bb_seat = bb_seat
BY SameSeats DEF sb_seat, bb_seat, Engine!sb_seat, Engine!bb_seat

LEMMA SameTotal == \A f : Engine!Total(f) = Total(f)
BY SameSeats, SameCardinality DEF Total, SumOver, Engine!Total, Engine!SumOver

\* Posting and folding dead hands are the engine's own steps.
LEMMA OpeningMaps == ASSUME TreeInv, TreeOpening PROVE Engine!Next
<1>1. /\ pc \in Opening /\ street = "Preflop"
      /\ pc' \in Opening \union {"betting", "award"} /\ street' = "Preflop"
    BY DEF TreeInv, TreeOpening, PostAnte, PostSmallBlind, PostBigBlind, OpenBetting, Opening
<1>2. enginePc = pc /\ engineCurrent = current /\ engineStreet = street
    BY <1>1 DEF enginePc, engineCurrent, engineStreet, RoundOver, Opening
<1>3. (enginePc = pc /\ engineCurrent = current /\ engineStreet = street)'
    BY <1>1 DEF enginePc, engineCurrent, engineStreet, RoundOver, Opening
<1>4. CASE PostAnte
    <2>1. Engine!PostAnte
        BY <1>2, <1>3, <1>4 DEF PostAnte, Pay, Commit, Lesser, NextSeat, args, players, betting,
            Engine!PostAnte, Engine!Pay, Engine!Commit, Engine!Lesser, Engine!NextSeat,
            Engine!args, Engine!players, Engine!betting
    <2> QED
        BY <2>1 DEF Engine!Next
<1>5. CASE PostSmallBlind
    <2>1. Engine!PostSmallBlind
        BY <1>2, <1>3, <1>5, SameBlinds DEF PostSmallBlind, Pay, Commit, Lesser, args, betting,
            Engine!PostSmallBlind, Engine!Pay, Engine!Commit, Engine!Lesser,
            Engine!args, Engine!betting
    <2> QED
        BY <2>1 DEF Engine!Next
<1>6. CASE PostBigBlind
    <2>1. Engine!PostBigBlind
        BY <1>2, <1>3, <1>6, SameBlinds DEF PostBigBlind, Pay, Commit, Lesser, args, betting,
            Engine!PostBigBlind, Engine!Pay, Engine!Commit, Engine!Lesser,
            Engine!args, Engine!betting
    <2> QED
        BY <2>1 DEF Engine!Next
<1>7. CASE OpenBetting
    <2>1. Engine!DeadHandsFolded = DeadHandsFolded
        BY SameSeats DEF DeadHandsFolded, Engine!DeadHandsFolded
    <2>2. Engine!OpenBetting
        BY <1>2, <1>3, <1>7, <2>1, SameBlinds, SameSeats DEF OpenBetting, args, betting,
            Engine!OpenBetting, Engine!args, Engine!betting
    <2> QED
        BY <2>2 DEF Engine!Next
<1> QED
    BY <1>4, <1>5, <1>6, <1>7 DEF TreeOpening

\* At a decision both offer the same actions and dispatch them alike.
LEMMA SameRules ==
    ASSUME TreeInv, Deciding
    PROVE  /\ enginePc = pc /\ engineCurrent = current /\ engineStreet = street
           /\ Engine!Prompted
           /\ Engine!legal = legal
           /\ \A s : Engine!AllInTotal(s) = AllInTotal(s) /\ Engine!Owed(s) = Owed(s)
           /\ \A k, a : Engine!RaiseDispatchedAs(k, a) <=> RaiseDispatchedAs(k, a)
           /\ \A k, l : Engine!Dispatched(k, l) <=> Dispatched(k, l)
<1>1. enginePc = pc /\ engineCurrent = current /\ engineStreet = street
    BY DEF TreeInv, Deciding, enginePc, engineCurrent, engineStreet, RoundOver
<1>2. Engine!Prompted
    BY <1>1, SameSeats DEF TreeInv, NodeHasDecision, Deciding, Engine!Prompted
<1>3. \A s : Engine!AllInTotal(s) = AllInTotal(s) /\ Engine!Owed(s) = Owed(s)
    BY DEF AllInTotal, Owed, SaturatingSub, Engine!AllInTotal, Engine!Owed, Engine!SaturatingSub
<1>4. Engine!MinRaiseTotal = MinRaiseTotal /\ \A a, b : Engine!Lesser(a, b) = Lesser(a, b)
    BY DEF MinRaiseTotal, Lesser, Engine!MinRaiseTotal, Engine!Lesser
<1>5. \A s, b : Engine!compute_legal_actions(s, b) = compute_legal_actions(s, b)
    BY <1>3, <1>4 DEF compute_legal_actions, Engine!compute_legal_actions
<1>6. Engine!legal = legal
    BY <1>1, <1>5 DEF legal, Engine!legal
<1>7. \A a : Engine!IsLegalRaise(a) <=> IsLegalRaise(a)
    BY <1>6 DEF IsLegalRaise, Engine!IsLegalRaise
<1>8. \A s, a : Engine!normalize_action(s, a) = normalize_action(s, a)
    BY <1>3, <1>4 DEF normalize_action, Engine!normalize_action, SaturatingSub,
                      Engine!SaturatingSub
<1>9. \A k, a : Engine!RaiseDispatchedAs(k, a) <=> RaiseDispatchedAs(k, a)
    BY <1>1, <1>7, <1>8 DEF RaiseDispatchedAs, Engine!RaiseDispatchedAs
<1>10. \A k, l : Engine!Dispatched(k, l) <=> Dispatched(k, l)
    BY <1>1, <1>3, <1>9 DEF Dispatched, Engine!Dispatched
<1> QED
    BY <1>1, <1>2, <1>3, <1>6, <1>9, <1>10

\* apply_action ends where an iteration of run_betting_round does.
LEMMA AfterMaps ==
    ASSUME TreeInv, Deciding, NEW b, AfterApply(b) PROVE Engine!AfterAction(b)
<1>1. enginePc = pc /\ engineCurrent = current /\ engineStreet = street
    BY SameRules
<1>2. street' = street /\ engineStreet' = engineStreet /\ street # "Showdown"
    BY DEF AfterApply, engineStreet, TreeInv, Deciding
<1>3. has_responded' = Engine!RespondedAfter(b)
    BY <1>1, SameSeats DEF AfterApply, RespondedAfter, Engine!RespondedAfter
<1>4. CASE OneLeft(status')
    <2>1. pc' = "award" /\ current' = current
        BY <1>4 DEF AfterApply
    <2>2. enginePc' = "award" /\ engineCurrent' = current
        BY <1>2, <2>1 DEF enginePc, engineCurrent, RoundOver
    <2> QED
        BY <1>1, <1>2, <1>3, <1>4, <2>2, SameSeats
           DEF AfterApply, Engine!AfterAction, args, Engine!args
<1>5. CASE ~ OneLeft(status')
    <2>1. pc' = "scan" /\ current' = current /\ scan' = NextSeat(current)
        BY <1>5 DEF AfterApply
    <2>2. enginePc' = "betting" /\ engineCurrent' = NextSeat(current)
        <3>1. NextSeat(current)' = NextSeat(current)
            BY <2>1 DEF NextSeat
        <3> QED
            BY <1>2, <2>1, <3>1 DEF enginePc, engineCurrent, RoundOver
    <2> QED
        BY <1>1, <1>2, <1>3, <1>5, <2>2, SameSeats
           DEF AfterApply, Engine!AfterAction, args, Engine!args
<1> QED
    BY <1>4, <1>5

LEMMA ActMaps == ASSUME TreeInv, TreeAct PROVE Engine!Act
<1>1. Deciding
    BY DEF TreeAct, TreeFold, TreeCheck, TreeCall, TreeRaise, TreeAllIn
<1>2. CASE TreeFold
    <2>1. Engine!AfterAction(FALSE)
        BY <1>1, <1>2, AfterMaps DEF TreeFold
    <2>2. Engine!Fold
        BY <1>1, <1>2, <2>1, SameRules DEF TreeFold, betting, Engine!Fold, Engine!betting
    <2> QED
        BY <2>2 DEF Engine!Act
<1>3. CASE TreeCheck
    <2>1. Engine!AfterAction(FALSE)
        BY <1>1, <1>3, AfterMaps DEF TreeCheck
    <2>2. Engine!Check
        BY <1>1, <1>3, <2>1, SameRules DEF TreeCheck, players, betting, Engine!Check,
           Engine!players, Engine!betting
    <2> QED
        BY <2>2 DEF Engine!Act
<1>4. CASE TreeCall
    <2>1. Engine!AfterAction(FALSE)
        BY <1>1, <1>4, AfterMaps DEF TreeCall
    <2>2. Engine!Call
        BY <1>1, <1>4, <2>1, SameRules DEF TreeCall, betting, Pay, Commit, Lesser, Engine!Call,
           Engine!betting, Engine!Pay, Engine!Commit, Engine!Lesser
    <2> QED
        BY <2>2 DEF Engine!Act
<1>5. CASE TreeRaise
    <2>1. Engine!AfterAction(TRUE)
        BY <1>1, <1>5, AfterMaps DEF TreeRaise
    <2>2. Engine!Raise
        BY <1>1, <1>5, <2>1, SameRules DEF TreeRaise, Commit, RaisedTo, SaturatingSub,
           Engine!Raise, Engine!Commit, Engine!RaisedTo, Engine!SaturatingSub
    <2> QED
        BY <2>2 DEF Engine!Act
<1>6. CASE TreeAllIn
    <2>1. /\ Engine!Prompted
          /\ Engine!Dispatched("AllIn", Engine!legal.all_in_amount > 0)
          /\ Engine!Commit(engineCurrent, stack[engineCurrent])
          /\ status' = [status EXCEPT ![engineCurrent] = "AllIn"]
        BY <1>1, <1>6, SameRules DEF TreeAllIn, Commit, Engine!Commit
    <2>2. Engine!AllInTotal(engineCurrent) = AllInTotal(current)
        BY <1>1, SameRules
    <2>3. \A b : AfterApply(b) => Engine!AfterAction(b)
        BY <1>1, AfterMaps
    <2>4. Engine!AllInUnderneath \/ Engine!AllInFullRaise \/ Engine!AllInShortRaise
        BY <1>6, <2>2, <2>3 DEF TreeAllIn, betting, Engine!betting, Engine!AllInUnderneath,
           Engine!AllInFullRaise, Engine!AllInShortRaise
    <2>5. Engine!AllIn
        BY <2>1, <2>4 DEF Engine!AllIn
    <2> QED
        BY <2>5 DEF Engine!Act
<1> QED
    BY <1>2, <1>3, <1>4, <1>5, <1>6 DEF TreeAct

\* The search of advance is the engine's walk over settled seats.
LEMMA ScanMaps == ASSUME TreeInv, Scan PROVE Engine!SkipSettled \/ UNCHANGED Engine!vars
<1>1. /\ pc = "scan" /\ street # "Showdown" /\ street' = street /\ enginePc = "betting"
      /\ UNCHANGED <<args, players, betting, pot, board, has_responded, chip_deltas, rank>>
      /\ engineStreet = street /\ engineStreet' = street
    BY DEF Scan, TreeInv, enginePc, engineStreet
<1>2. /\ UNCHANGED <<stacks, dealer, seat_kinds>>
      /\ UNCHANGED <<stack, bet_this_street, total_committed, status>>
      /\ UNCHANGED <<current_bet, min_raise_increment, cumulative_short_increment>>
    BY <1>1 DEF args, players, betting
<1>3. AllSettled' <=> AllSettled
    BY <1>1, <1>2 DEF AllSettled, Settled
<1>4. enginePc' = "betting"
    BY <1>1 DEF Scan, enginePc
<1>5. CASE AllSettled
    <2>1. current' = current
        BY <1>1, <1>5 DEF Scan, AllSettled, TreeInv, TreeTypes
    <2>2. pc' \in {"scan", "collect"}
        BY <1>1, <1>5 DEF Scan, AllSettled, TreeInv, TreeTypes
    <2>3. engineCurrent' = engineCurrent
        BY <1>1, <1>3, <1>5, <2>1, <2>2 DEF engineCurrent, RoundOver, NextSeat
    <2> QED
        BY <1>1, <1>2, <1>4, <2>3 DEF Engine!vars, Engine!args, Engine!players, Engine!betting
<1>6. CASE ~ AllSettled /\ ~ Settled(scan)
    <2>1. engineCurrent = scan /\ engineCurrent' = scan
        BY <1>1, <1>6 DEF Scan, engineCurrent, RoundOver
    <2> QED
        BY <1>1, <1>2, <1>4, <2>1 DEF Engine!vars, Engine!args, Engine!players, Engine!betting
<1>7. CASE ~ AllSettled /\ Settled(scan)
    <2>1. scan # current
        <3>1. pc' # "collect"
            BY <1>3, <1>7, ScanInv DEF TreeInv
        <3> QED
            BY <1>7, <3>1 DEF Scan
    <2>2. pc' = "scan" /\ scan' = NextSeat(scan) /\ current' = current
        BY <1>1, <1>7, <2>1 DEF Scan
    <2>3. engineCurrent = scan /\ engineCurrent' = NextSeat(scan)
        BY <1>1, <1>3, <1>7, <2>2 DEF engineCurrent, RoundOver
    <2>4. Engine!SkipSettled
        BY <1>1, <1>2, <1>4, <1>7, <2>3, SameSeats DEF Engine!SkipSettled, Engine!args,
           Engine!players, Engine!betting
    <2> QED
        BY <2>4
<1> QED
    BY <1>5, <1>6, <1>7

\* Closing a round and dealing streets; two seats are still in, so the engine
\* does not leave its loop over the streets early.
LEMMA RoundMaps ==
    ASSUME TreeInv, Collect \/ TreeStreet \/ TreeShowdown PROVE Engine!Next
<1>1. CASE Collect
    <2>1. /\ pc = "collect" /\ pc' = "street" /\ AllSettled /\ current' = current
          /\ enginePc = "betting" /\ enginePc' = "street" /\ engineStreet' = engineStreet
        BY <1>1 DEF Collect, TreeInv, enginePc, engineStreet
    <2>2. engineCurrent' = engineCurrent
        BY <2>1 DEF engineCurrent, RoundOver, NextSeat
    <2>3. Engine!CollectBets
        BY <1>1, SameTotal, SameSeats DEF Collect, CollectBets, Engine!CollectBets
    <2>4. Engine!EndRound
        BY <1>1, <2>1, <2>2, <2>3, SameSeats DEF Collect, Engine!EndRound, args, betting,
           Engine!args, Engine!betting
    <2> QED
        BY <2>4 DEF Engine!Next
<1>2. CASE TreeStreet
    <2>1. /\ pc = "street" /\ street \in {"Preflop", "Flop", "Turn"} /\ enginePc = "street"
          /\ engineStreet = street
        BY <1>2 DEF TreeStreet, TreeInv, Street, enginePc, engineStreet
    <2>2. street' \in {"Flop", "Turn", "River"} /\ engineStreet' = street'
        BY <1>2, <2>1 DEF TreeStreet, NextStreet, engineStreet
    <2>3. Cardinality(StillIn) > 1
        <3>1. PICK x \in StillIn, y \in StillIn : x # y
            BY <2>1 DEF TreeInv, TwoStillIn
        <3>2. StillIn \in SUBSET Seats
            BY DEF StillIn, SeatsWith
        <3> QED
            BY <3>1, <3>2, TwoIsMoreThanOne
    <2>4. engineCurrent = NextSeat(current)
        BY <2>1 DEF engineCurrent, RoundOver
    <2>5. CASE Cardinality(ActiveSeats) >= 2
        <3>1. /\ pc' = "betting" /\ enginePc' = "betting"
              /\ engineCurrent' = FirstAfter(dealer, ActiveSeats)
            BY <1>2, <2>2, <2>5 DEF TreeStreet, enginePc, engineCurrent, RoundOver
        <3>2. Engine!DealStreet
            BY <1>2, <2>1, <2>2, <2>3, <2>5, <3>1, SameSeats, SameCardinality
               DEF TreeStreet, Engine!DealStreet, NextStreet, Engine!NextStreet, CardsOn,
                   Engine!CardsOn, args, Engine!args
        <3> QED
            BY <3>2 DEF Engine!Next
    <2>6. CASE ~ (Cardinality(ActiveSeats) >= 2)
        <3>1. /\ pc' = "street" /\ enginePc' = enginePc /\ current' = current
              /\ engineCurrent' = engineCurrent
            BY <1>2, <2>1, <2>2, <2>4, <2>6
               DEF TreeStreet, enginePc, engineCurrent, RoundOver, NextSeat
        <3>2. Engine!DealStreet
            BY <1>2, <2>1, <2>2, <2>3, <2>6, <3>1, SameSeats, SameCardinality
               DEF TreeStreet, Engine!DealStreet, NextStreet, Engine!NextStreet, CardsOn,
                   Engine!CardsOn, args, Engine!args
        <3> QED
            BY <3>2 DEF Engine!Next
    <2> QED
        BY <2>5, <2>6
<1>3. CASE TreeShowdown
    <2>1. /\ enginePc = "street" /\ enginePc' = "showdown" /\ current' = current
          /\ engineStreet = "River" /\ engineStreet' = "River"
        BY <1>3 DEF TreeShowdown, enginePc, engineStreet
    <2>2. engineCurrent' = engineCurrent
        BY <1>3, <2>1 DEF TreeShowdown, engineCurrent, RoundOver, NextSeat
    <2>3. Engine!GoToShowdown
        BY <1>3, <2>1, <2>2 DEF TreeShowdown, Engine!GoToShowdown, args, betting, players,
           Engine!args, Engine!betting, Engine!players
    <2> QED
        BY <2>3 DEF Engine!Next
<1> QED
    BY <1>1, <1>2, <1>3

\* The pots and their winners are not mapped.
LEMMA SamePayout == \A r : Engine!Payout(r) = Payout(r)
<1>1. Engine!Levels = Levels
    BY SameSeats DEF Levels, Engine!Levels
<1>2. \A S : Engine!Max(S) = Max(S)
    BY DEF Max, Engine!Max
<1>3. \A l : Engine!Slice(l) = Slice(l)
    BY <1>1, <1>2, SameSeats, SameCardinality DEF Slice, Engine!Slice
<1>4. \A l : Engine!Eligible(l) = Eligible(l)
    BY SameSeats DEF Eligible, Engine!Eligible
<1>5. Engine!PotLevels = PotLevels
    BY <1>1, <1>4 DEF PotLevels, Engine!PotLevels
<1>6. \A l : Engine!PotAmount(l) = PotAmount(l)
    BY <1>1, <1>2, <1>3, <1>5, SameCardinality DEF PotAmount, Engine!PotAmount, SumOver,
       Engine!SumOver
<1>7. \A l, r : Engine!Winners(l, r) = Winners(l, r)
    BY <1>4 DEF Winners, Engine!Winners
<1>8. \A l, r, s : Engine!Share(l, r, s) = Share(l, r, s)
    BY <1>6, <1>7, SameSeats, SameCardinality DEF Share, Engine!Share
<1> QED
    BY <1>5, <1>8, SameSeats, SameCardinality DEF Payout, Engine!Payout, SumOver, Engine!SumOver

LEMMA PayoutMaps == ASSUME TreeInv, TreePayout PROVE Engine!Next
<1>1. CASE Showdown
    <2>1. /\ pc = "showdown" /\ pc' = "done" /\ enginePc = "showdown" /\ enginePc' = "done"
          /\ street = "Showdown" /\ street' = street /\ engineStreet' = engineStreet
          /\ current' = current
        BY <1>1 DEF Showdown, TreeInv, enginePc, engineStreet
    <2>2. engineCurrent' = engineCurrent
        BY <2>1 DEF engineCurrent, RoundOver, NextSeat
    <2>3. Engine!Showdown
        BY <1>1, <2>1, <2>2, SamePayout, SameSeats DEF Showdown, Engine!Showdown, args, betting,
           Engine!args, Engine!betting
    <2> QED
        BY <2>3 DEF Engine!Next
<1>2. CASE AwardUncontested
    <2>1. /\ pc = "award" /\ pc' = "done" /\ enginePc = "award" /\ enginePc' = "done"
          /\ street # "Showdown" /\ street' = street /\ engineStreet' = engineStreet
          /\ current' = current
        BY <1>2 DEF AwardUncontested, TreeInv, enginePc, engineStreet
    <2>2. engineCurrent' = engineCurrent
        BY <2>1 DEF engineCurrent, RoundOver
    <2>3. \A S : Engine!Min(S) = Min(S)
        BY DEF Min, Engine!Min
    <2>4. Engine!AwardUncontested
        BY <1>2, <2>1, <2>2, <2>3, SameTotal, SameSeats DEF AwardUncontested,
           Engine!AwardUncontested, args, betting, Engine!args, Engine!betting
    <2> QED
        BY <2>4 DEF Engine!Next
<1> QED
    BY <1>1, <1>2 DEF TreePayout

\* Every step of GameTree is a step of Engine::run_hand or changes nothing the
\* engine has.
LEMMA StepMaps ==
    ASSUME TreeInv, [TreeNext]_treeVars PROVE [Engine!Next]_(Engine!vars)
<1>1. CASE TreeOpening
    BY <1>1, OpeningMaps
<1>2. CASE TreeAct
    BY <1>2, ActMaps DEF Engine!Next
<1>3. CASE Scan
    BY <1>3, ScanMaps DEF Engine!Next
<1>4. CASE Collect \/ TreeStreet \/ TreeShowdown
    BY <1>4, RoundMaps
<1>5. CASE TreePayout
    BY <1>5, PayoutMaps
<1>6. CASE UNCHANGED treeVars
    <2>1. UNCHANGED <<pc, current, scan, street, status, has_responded, bet_this_street,
                      current_bet, vars>>
        BY <1>6 DEF treeVars, vars, players, betting
    <2>2. UNCHANGED <<enginePc, engineCurrent, engineStreet>>
        BY <2>1 DEF enginePc, engineCurrent, engineStreet, RoundOver, NextSeat, AllSettled,
                    Settled
    <2> QED
        BY <2>1, <2>2 DEF vars, args, players, betting, Engine!vars, Engine!args, Engine!players,
           Engine!betting
<1> QED
    BY <1>1, <1>2, <1>3, <1>4, <1>5, <1>6 DEF TreeNext

\* The tree implements the engine (the promise at the top of tree.rs that its
\* phase machine mirrors run_betting_round), for every number of seats and
\* every rule, when a hand is between at least two live seats with chips.
THEOREM TreeImplementsEngine ==
    ASSUME MinContenders >= 2 PROVE TreeSpec => ImplementsEngine
<1>1. TreeInit => TreeInv /\ Engine!Init
    BY TreeInitInv, InitMaps
<1>2. TreeInv /\ [TreeNext]_treeVars => TreeInv' /\ [Engine!Next]_(Engine!vars)
    BY TreeNextInv, StepMaps
<1> QED
    BY <1>1, <1>2, PTL DEF TreeSpec, ImplementsEngine, Engine!Spec
=============================================================================
