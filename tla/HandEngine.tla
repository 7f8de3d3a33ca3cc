----------------------------- MODULE HandEngine -----------------------------
(***************************************************************************)
(* One hand of Hold'em as Engine::run_hand plays it                        *)
(* (crates/poker-engine/src/game/engine.rs, with pot_calc.rs, state.rs,    *)
(* action.rs and rules.rs).                                                *)
(*                                                                         *)
(* The engine is single threaded: pc is the place in run_hand.  The source *)
(* of nondeterminism is the agents (any legal action at every prompt) and  *)
(* the cards (any ranking of the seats at showdown).  Cards are abstracted *)
(* to a rank per seat; the board to its number of cards.                   *)
(***************************************************************************)
EXTENDS Integers, FiniteSets, FiniteSetsExt

CONSTANTS
    N,              \* number of seats (stacks.len())
    StackSizes,     \* the stacks a seat may bring to the hand
    Dealers,        \* the seats the button may be on
    SmallBlind, BigBlind, Ante, Variant,    \* BettingRules
    MaxDead,        \* at most this many seats are SeatKind::DeadHand
    MinContenders,  \* at least this many Live seats have chips
    Disciplined,    \* TRUE: agents answer with a legal action; FALSE: with any
    Ranks           \* hand ranks the evaluator may return; 0 is no hand

ASSUME SeatsAssumption == N \in Nat \ {0}

ASSUME RulesAssumption ==
    /\ StackSizes \subseteq Nat /\ Dealers \subseteq 0 .. (N - 1)
    /\ SmallBlind \in Nat /\ BigBlind \in Nat \ {0} /\ Ante \in Nat
    /\ Variant \in {"NoLimit", "PotLimit", "FixedLimit"}
    /\ MaxDead \in Nat /\ MinContenders \in Nat /\ Disciplined \in BOOLEAN
    /\ Ranks \subseteq Nat \ {0} /\ Ranks # {}

Seats == 0 .. (N - 1)
SeatKind == {"Live", "DeadHand"}
PlayerStatus == {"Active", "Folded", "AllIn", "Out"}
Street == {"Preflop", "Flop", "Turn", "River"}

VARIABLES
    \* the arguments of run_hand, which no step changes
    stacks,         \* chips per seat going into the hand
    dealer,         \* the button
    seat_kinds,     \* Live or DeadHand, per seat
    \* GameState.players
    stack,              \* chips not yet committed
    bet_this_street,    \* chips committed on this street
    total_committed,    \* chips committed in this hand
    status,             \* PlayerStatus
    \* the rest of GameState
    pot,                        \* Pot::total()
    street, board,
    current_bet, min_raise_increment, cumulative_short_increment,
    \* locals of run_hand and run_betting_round
    pc, current, has_responded,
    chip_deltas,                \* the payout returned at the end
    rank                        \* the hand ranks the showdown compared

args == <<stacks, dealer, seat_kinds>>
players == <<stack, bet_this_street, total_committed, status>>
betting == <<current_bet, min_raise_increment, cumulative_short_increment>>
vars == <<args, players, betting, pot, street, board,
          pc, current, has_responded, chip_deltas, rank>>

-----------------------------------------------------------------------------
(* Helpers *)

\* The sum of the naturals f(x) for x in S, as the number of chips in piles of
\* f(x) chips.
SumOver(S, f(_)) == Cardinality(UNION {{x} \X (1 .. f(x)) : x \in S})
Total(f) == SumOver(Seats, LAMBDA s : f[s])

Lesser(a, b) == IF a <= b THEN a ELSE b
SaturatingSub(a, b) == IF a >= b THEN a - b ELSE 0

\* Steps from seat `from' to seat s, in 1..N, going left round the table.
Distance(from, s) == IF s > from THEN s - from ELSE s - from + N

\* The first seat of S strictly after `from', wrapping round.
FirstAfter(from, S) ==
    CHOOSE s \in S : \A t \in S : Distance(from, s) <= Distance(from, t)

\* Mutated NextSeat: the modulo is forgotten.
NextSeat_NoWrap(s) == s + 1

NextSeat(s) == IF s = N - 1 THEN 0 ELSE s + 1

SeatsWith(st, which) == {s \in Seats : st[s] \in which}
ActiveSeats == SeatsWith(status, {"Active"})
StillIn == SeatsWith(status, {"Active", "AllIn"})

\* sb_seat and bb_seat: when nobody is in, both are the dealer.
sb_seat == IF StillIn = {} THEN dealer ELSE FirstAfter(dealer, StillIn)
bb_seat == IF StillIn = {} THEN sb_seat ELSE FirstAfter(sb_seat, StillIn)

-----------------------------------------------------------------------------
(* Moving chips from a seat's stack to its bets *)

\* Mutated Commit: the hand's tally is forgotten.
Commit_NoTally(seat, amount) ==
    /\ stack' = [stack EXCEPT ![seat] = @ - amount]
    /\ bet_this_street' = [bet_this_street EXCEPT ![seat] = @ + amount]
    /\ UNCHANGED total_committed

\* The amount leaves the stack and joins both tallies of the seat.
Commit(seat, amount) ==
    /\ stack' = [stack EXCEPT ![seat] = @ - amount]
    /\ bet_this_street' = [bet_this_street EXCEPT ![seat] = @ + amount]
    /\ total_committed' = [total_committed EXCEPT ![seat] = @ + amount]

\* A post or call that empties the stack puts the seat all in.
Pay(seat, amount) ==
    /\ Commit(seat, amount)
    /\ status' = IF stack[seat] = amount
                 THEN [status EXCEPT ![seat] = "AllIn"] ELSE status

-----------------------------------------------------------------------------
(* The opening: init_state, antes, blinds, dead hands *)

init_state ==
    /\ stack = stacks
    /\ bet_this_street = [s \in Seats |-> 0]
    /\ total_committed = [s \in Seats |-> 0]
    /\ status = [s \in Seats |-> IF stacks[s] > 0 THEN "Active" ELSE "Out"]
    /\ pot = 0
    /\ street = "Preflop"
    /\ board = 0
    /\ current_bet = 0
    /\ min_raise_increment = BigBlind
    /\ cumulative_short_increment = 0

Init ==
    /\ stacks \in [Seats -> StackSizes]
    /\ dealer \in Dealers
    /\ seat_kinds \in [Seats -> SeatKind]
    /\ Cardinality({s \in Seats : seat_kinds[s] = "DeadHand"}) <= MaxDead
    /\ Cardinality({s \in Seats : seat_kinds[s] = "Live" /\ stacks[s] > 0}) >= MinContenders
    /\ init_state
    /\ pc = IF Ante > 0 THEN "antes" ELSE "small_blind"
    /\ current = 0
    /\ has_responded = [s \in Seats |-> FALSE]
    /\ chip_deltas = [s \in Seats |-> 0]
    /\ rank = [s \in Seats |-> 0]

\* One turn of the loop of post_antes.
PostAnte ==
    /\ pc = "antes"
    /\ IF status[current] = "Active"
       THEN Pay(current, Lesser(Ante, stack[current]))
       ELSE UNCHANGED players
    /\ pc' = IF current = N - 1 THEN "small_blind" ELSE "antes"
    /\ current' = NextSeat(current)
    /\ UNCHANGED <<args, betting, pot, street, board, has_responded, chip_deltas, rank>>

PostSmallBlind ==
    /\ pc = "small_blind"
    /\ Pay(sb_seat, Lesser(SmallBlind, stack[sb_seat]))
    /\ pc' = "big_blind"
    /\ UNCHANGED <<args, betting, pot, street, board, current, has_responded, chip_deltas, rank>>

PostBigBlind ==
    /\ pc = "big_blind"
    /\ Pay(bb_seat, Lesser(BigBlind, stack[bb_seat]))
    /\ current_bet' = BigBlind
    /\ min_raise_increment' = BigBlind
    /\ pc' = "open"
    /\ UNCHANGED <<args, cumulative_short_increment, pot, street, board, current,
                   has_responded, chip_deltas, rank>>

\* A dead hand is folded once the blinds are in and the cards are dealt.
DeadHandsFolded ==
    [s \in Seats |-> IF seat_kinds[s] = "DeadHand" /\ status[s] # "Out"
                     THEN "Folded" ELSE status[s]]

\* bb_seat is evaluated on the statuses before the dead hands are folded
\* (canonical_bb).
OpenBetting ==
    /\ pc = "open"
    /\ status' = DeadHandsFolded
    /\ LET active == SeatsWith(DeadHandsFolded, {"Active"})
       IN  IF active = {}
           THEN pc' = "award" /\ UNCHANGED current
           ELSE pc' = "betting" /\ current' = FirstAfter(bb_seat, active)
    /\ UNCHANGED <<args, stack, bet_this_street, total_committed, betting, pot,
                   street, board, has_responded, chip_deltas, rank>>

-----------------------------------------------------------------------------
(* The betting round *)

Owed(seat) == SaturatingSub(current_bet, bet_this_street[seat])
MinRaiseTotal == current_bet + min_raise_increment

\* compute_legal_actions: the LegalActions offered to a seat.
compute_legal_actions(seat, can_reopen) ==
    LET owed  == Owed(seat)
        whole == stack[seat] + bet_this_street[seat]
    IN  [can_check |-> owed = 0,
         can_call  |-> owed > 0 /\ stack[seat] > owed,
         can_raise |-> /\ can_reopen
                       /\ IF Variant = "FixedLimit" THEN whole >= MinRaiseTotal
                                                    ELSE whole > MinRaiseTotal,
         min_raise |-> MinRaiseTotal,
         max_raise |-> CASE Variant = "NoLimit" -> whole
                         [] Variant = "PotLimit" -> Lesser(whole, owed + 2 * (pot + owed))
                         [] Variant = "FixedLimit" -> MinRaiseTotal,
         all_in_amount |-> stack[seat]]

legal == compute_legal_actions(current, ~has_responded[current])

\* is_legal on Raise(amount).
IsLegalRaise(amount) ==
    legal.can_raise /\ legal.min_raise <= amount /\ amount <= legal.max_raise

AllInTotal(seat) == bet_this_street[seat] + stack[seat]

\* Mutated normalize_action: the minimum raise is not enforced.
normalize_action_NoMinimum(seat, amount) ==
    IF SaturatingSub(amount, bet_this_street[seat]) >= stack[seat] THEN "AllIn" ELSE "Raise"

\* normalize_action on Raise(amount): the action that is really dispatched.
normalize_action(seat, amount) ==
    IF SaturatingSub(amount, bet_this_street[seat]) >= stack[seat] THEN "AllIn"
    ELSE IF amount >= MinRaiseTotal THEN "Raise"
    ELSE IF Owed(seat) = 0 THEN "Check" ELSE "Call"

\* The current seat's agent answers with a Raise(amount) that is dispatched as
\* `kind'.  Every amount above AllInTotal is dispatched as AllIn, like it.
RaiseDispatchedAs(kind, amount) ==
    /\ Disciplined => IsLegalRaise(amount)
    /\ normalize_action(current, amount) = kind

\* The agent answers with `kind', or with a raise dispatched as it.
Dispatched(kind, is_legal) ==
    \/ Disciplined => is_legal
    \/ \E amount \in 0 .. AllInTotal(current) : RaiseDispatchedAs(kind, amount)

\* Mutated Settled: a response is enough, the bet need not be matched.
Settled_NoMatch(s) == status[s] # "Active" \/ has_responded[s]

Settled(s) ==
    \/ status[s] # "Active"
    \/ bet_this_street[s] = current_bet /\ has_responded[s]

AllSettled == \A s \in Seats : Settled(s)

\* The seat to act is the one the loop of run_betting_round stops at.
Prompted == pc = "betting" /\ ~ Settled(current)

\* Mutated OneLeft: seats that are all in are not counted.
OneLeft_ActiveOnly(st) == Cardinality(SeatsWith(st, {"Active"})) = 1

\* players_still_in() == 1
OneLeft(st) == Cardinality(SeatsWith(st, {"Active", "AllIn"})) = 1

\* Mutated RespondedAfter: the acting seat's own response is not recorded.
RespondedAfter_NotRecorded(was_aggression) ==
    [s \in Seats |-> has_responded[s] /\ ~ was_aggression]

\* The acting seat has responded; after a full raise nobody else has.
RespondedAfter(was_aggression) ==
    [s \in Seats |-> s = current \/ (has_responded[s] /\ ~ was_aggression)]

\* What follows apply_action in run_betting_round: response flags, the check
\* for a last seat standing, and the move to the next seat.
AfterAction(was_aggression) ==
    /\ has_responded' = RespondedAfter(was_aggression)
    /\ IF OneLeft(status')
       THEN pc' = "award" /\ UNCHANGED current
       ELSE pc' = "betting" /\ current' = NextSeat(current)
    /\ UNCHANGED <<args, pot, street, board, chip_deltas, rank>>

Fold ==
    /\ Prompted
    /\ status' = [status EXCEPT ![current] = "Folded"]
    /\ AfterAction(FALSE)
    /\ UNCHANGED <<stack, bet_this_street, total_committed, betting>>

Check ==
    /\ Prompted
    /\ Dispatched("Check", legal.can_check)
    /\ UNCHANGED <<players, betting>>
    /\ AfterAction(FALSE)

Call ==
    /\ Prompted
    /\ Dispatched("Call", legal.can_call)
    /\ Pay(current, Lesser(Owed(current), stack[current]))
    /\ UNCHANGED betting
    /\ AfterAction(FALSE)

\* new_total: what the seat has in on this street once it has added what is
\* missing to `amount'; more than `amount' if the blind it posted was more.
RaisedTo(seat, amount) == bet_this_street[seat] + SaturatingSub(amount, bet_this_street[seat])

\* A raise that does not exhaust the stack.
Raise ==
    /\ Prompted
    /\ \E amount \in 0 .. AllInTotal(current) :
        /\ RaiseDispatchedAs("Raise", amount)
        /\ Commit(current, SaturatingSub(amount, bet_this_street[current]))
        /\ current_bet' = RaisedTo(current, amount)
        /\ min_raise_increment' = RaisedTo(current, amount) - current_bet
    /\ cumulative_short_increment' = 0
    /\ UNCHANGED status
    /\ AfterAction(TRUE)

\* All the chips of the seat: no raise, a full raise or a short raise.
AllInUnderneath ==
    /\ AllInTotal(current) <= current_bet
    /\ UNCHANGED betting
    /\ AfterAction(FALSE)

AllInFullRaise ==
    LET increment == AllInTotal(current) - current_bet
    IN  /\ increment > 0
        /\ increment >= min_raise_increment
        /\ current_bet' = AllInTotal(current)
        /\ min_raise_increment' = increment
        /\ cumulative_short_increment' = 0
        /\ AfterAction(TRUE)

\* Mutated AllInShortRaise: short all-ins are not added up.
AllInShortRaise_NotAdded ==
    LET increment == AllInTotal(current) - current_bet
    IN  /\ increment > 0
        /\ increment < min_raise_increment
        /\ current_bet' = AllInTotal(current)
        /\ UNCHANGED <<min_raise_increment, cumulative_short_increment>>
        /\ AfterAction(FALSE)

\* Mutated AllInShortRaise: a short all-in does not move the bet to call.
AllInShortRaise_BetKept ==
    /\ AllInTotal(current) > current_bet
    /\ AllInTotal(current) - current_bet < min_raise_increment
    /\ UNCHANGED betting
    /\ AfterAction(FALSE)

AllInShortRaise ==
    LET increment == AllInTotal(current) - current_bet
        shorts == cumulative_short_increment + increment
    IN  /\ increment > 0
        /\ increment < min_raise_increment
        /\ current_bet' = AllInTotal(current)
        /\ cumulative_short_increment' = shorts
        /\ UNCHANGED min_raise_increment
        /\ AfterAction(shorts >= min_raise_increment)

AllIn ==
    /\ Prompted
    /\ Dispatched("AllIn", legal.all_in_amount > 0)
    /\ Commit(current, stack[current])
    /\ status' = [status EXCEPT ![current] = "AllIn"]
    /\ AllInUnderneath \/ AllInFullRaise \/ AllInShortRaise

\* The loop passes over a seat that has nothing to do.
SkipSettled ==
    /\ pc = "betting"
    /\ ~ AllSettled
    /\ Settled(current)
    /\ current' = NextSeat(current)
    /\ UNCHANGED <<args, players, betting, pot, street, board, pc, has_responded, chip_deltas, rank>>

\* Mutated CollectBets: the bets are added to the pot and kept.
CollectBets_Kept ==
    /\ pot' = pot + Total(bet_this_street)
    /\ UNCHANGED bet_this_street

\* collect_street_bets
CollectBets ==
    /\ pot' = pot + Total(bet_this_street)
    /\ bet_this_street' = [s \in Seats |-> 0]

EndRound ==
    /\ pc = "betting"
    /\ AllSettled
    /\ CollectBets
    /\ pc' = "street"
    /\ UNCHANGED <<args, stack, total_committed, status, betting, street, board, current,
                   has_responded, chip_deltas, rank>>

-----------------------------------------------------------------------------
(* Streets *)

NextStreet == [Preflop |-> "Flop", Flop |-> "Turn", Turn |-> "River"]
CardsOn == [Flop |-> 3, Turn |-> 1, River |-> 1]

\* begin_street and deal_board_cards, then a betting round when at least two
\* seats can still bet.
DealStreet ==
    /\ pc = "street"
    /\ street # "River"
    /\ Cardinality(StillIn) > 1
    /\ street' = NextStreet[street]
    /\ board' = board + CardsOn[NextStreet[street]]
    /\ current_bet' = 0
    /\ min_raise_increment' = BigBlind
    /\ cumulative_short_increment' = 0
    /\ bet_this_street' = [s \in Seats |-> 0]
    /\ IF Cardinality(ActiveSeats) >= 2
       THEN /\ pc' = "betting"
            /\ current' = FirstAfter(dealer, ActiveSeats)
            /\ has_responded' = [s \in Seats |-> FALSE]
       ELSE UNCHANGED <<pc, current, has_responded>>
    /\ UNCHANGED <<args, stack, total_committed, status, pot, chip_deltas, rank>>

\* The loop over the streets ends; deal_remaining_board fills the board.
GoToShowdown ==
    /\ pc = "street"
    /\ street = "River" \/ Cardinality(StillIn) <= 1
    /\ board' = 5
    /\ pc' = "showdown"
    /\ UNCHANGED <<args, players, betting, pot, street, current, has_responded, chip_deltas, rank>>

-----------------------------------------------------------------------------
(* Showdown and awards *)

\* build_showdown_pots: one slice per commitment level.  Eligible sets shrink
\* as the level rises, so the slices nobody is eligible for are the topmost
\* ones; they merge into the highest pot that has an eligible seat, and are
\* dropped when there is none.
Levels == {total_committed[s] : s \in Seats} \ {0}
Slice(level) ==
    (level - Max({0} \union {l \in Levels : l < level}))
      * Cardinality({s \in Seats : total_committed[s] >= level})

\* Mutated Eligible: every live seat contends for every slice.
Eligible_AnyLevel(level) == {s \in Seats : total_committed[s] > 0 /\ status[s] # "Folded"}

Eligible(level) ==
    {s \in Seats : total_committed[s] >= level /\ status[s] # "Folded"}
PotLevels == {l \in Levels : Eligible(l) # {}}

\* Mutated PotAmount: slices without an eligible seat are dropped.
PotAmount_Dropped(level) == Slice(level)

PotAmount(level) ==
    LET merged == IF level = Max(PotLevels)
                  THEN {level} \union (Levels \ PotLevels) ELSE {level}
    IN  SumOver(merged, Slice)

\* resolve_showdown on one pot: equal shares, the odd chips to the first
\* winner left of the dealer.

\* Mutated Winners: every eligible seat shares the pot.
Winners_All(level, r) == Eligible(level)

Winners(level, r) ==
    {s \in Eligible(level) : \A t \in Eligible(level) : r[t] <= r[s]}

\* Mutated Share: the odd chips of a split are lost.
Share_NoOddChips(level, r, s) ==
    IF s \notin Winners(level, r) THEN 0
    ELSE PotAmount(level) \div Cardinality(Winners(level, r))

Share(level, r, s) ==
    LET winners == Winners(level, r)
        amount  == PotAmount(level)
        n       == Cardinality(winners)
    IN  IF s \notin winners THEN 0
        ELSE (amount \div n) + IF s = FirstAfter(dealer, winners) THEN amount % n ELSE 0

Payout(r) == [s \in Seats |-> SumOver(PotLevels, LAMBDA l : Share(l, r, s))]

\* resolve_showdown, whatever the cards are.
Showdown ==
    /\ pc = "showdown"
    /\ rank' \in [Seats -> Ranks]
    /\ chip_deltas' = Payout(rank')
    /\ stack' = [s \in Seats |-> stack[s] + chip_deltas'[s]]
    /\ pc' = "done"
    /\ UNCHANGED <<args, bet_this_street, total_committed, status, betting, pot, street,
                   board, current, has_responded>>

\* award_uncontested, reached from a betting round with one seat left and from
\* the opening when no seat can act: the lowest seat still in takes the pot.
AwardUncontested ==
    /\ pc = "award"
    /\ StillIn # {}
    /\ LET winner == Min(StillIn)
           total  == pot + Total(bet_this_street)
       IN  /\ chip_deltas' = [s \in Seats |-> IF s = winner THEN total ELSE 0]
           /\ stack' = [stack EXCEPT ![winner] = @ + total]
    /\ bet_this_street' = [s \in Seats |-> 0]
    /\ pot' = 0
    /\ pc' = "done"
    /\ UNCHANGED <<args, total_committed, status, betting, street, board, current,
                   has_responded, rank>>

\* build_result: the net result of a seat.
ChipDelta(s) == chip_deltas[s] - total_committed[s]

-----------------------------------------------------------------------------
Act == Fold \/ Check \/ Call \/ Raise \/ AllIn

Next ==
    \/ PostAnte \/ PostSmallBlind \/ PostBigBlind \/ OpenBetting
    \/ Act \/ SkipSettled \/ EndRound
    \/ DealStreet \/ GoToShowdown
    \/ Showdown \/ AwardUncontested

Spec == Init /\ [][Next]_vars

\* The engine runs to completion on its own thread: some step is always taken
\* while one is possible.  Which action an agent answers with is never assumed.
FairSpec == Spec /\ WF_vars(Next)

-----------------------------------------------------------------------------
(* Properties *)

TypeOK ==
    /\ stacks \in [Seats -> Nat] /\ dealer \in Seats /\ seat_kinds \in [Seats -> SeatKind]
    /\ stack \in [Seats -> Nat]
    /\ bet_this_street \in [Seats -> Nat]
    /\ total_committed \in [Seats -> Nat]
    /\ status \in [Seats -> PlayerStatus]
    /\ pot \in Nat /\ street \in Street /\ board \in 0 .. 5
    /\ current_bet \in Nat /\ min_raise_increment \in Nat
    /\ cumulative_short_increment \in Nat
    /\ pc \in {"antes", "small_blind", "big_blind", "open", "betting", "street",
               "showdown", "award", "done"}
    /\ current \in Seats
    /\ has_responded \in [Seats -> BOOLEAN]
    /\ chip_deltas \in [Seats -> Nat]

\* The chips a seat brought are in front of it, committed, or came back as a
\* payout: what build_result reports as chip_delta is what happened to the
\* stack (the table applies chip_delta to its own copy of the stacks).
SeatAccounting ==
    \A s \in Seats : stack[s] = stacks[s] + ChipDelta(s)

\* While the hand runs, the chips of the pot and of the street's bets are the
\* chips the seats committed, so collect_street_bets loses none.
PotAccounting ==
    pc # "done" => pot + Total(bet_this_street) = Total(total_committed)

\* The hand is zero-sum: every committed chip is paid out, whatever side pots,
\* splits, odd chips and dead money there were.
ChipsConserved ==
    pc = "done" => Total(chip_deltas) = Total(total_committed)

\* What an ante and a blind can take of a stack.
LargestPost == Ante + IF SmallBlind > BigBlind THEN SmallBlind ELSE BigBlind

\* A pot that several seats contend for is settled by a showdown, unless none of
\* them brought more than an ante and a blind: no chip that was bet, called or
\* raised goes to the lowest seat instead of the best hand.
ContestedAwardIsPosts ==
    pc = "award" /\ Cardinality(StillIn) # 1 => \A s \in StillIn : stacks[s] <= LargestPost

\* "Only one player with chips - award everything immediately": the pot is handed
\* out without a showdown only when one seat is left.
AwardIsUncontested ==
    pc = "award" => Cardinality(StillIn) = 1

\* When the betting is over, every seat still in has put in the largest live
\* commitment or is all in for less.
ContendersMatched ==
    pc = "showdown" =>
        \A s \in ActiveSeats, t \in StillIn : total_committed[t] <= total_committed[s]

\* At a showdown, a seat beaten by a seat that committed at least as much is
\* paid nothing, and so is a folded one; a seat that beats everybody takes at
\* least what each seat committed up to its own commitment.
ShowdownFair ==
    (pc = "done" /\ \A s \in Seats : rank[s] \in Ranks) =>
        /\ \A s \in Seats : s \notin StillIn => chip_deltas[s] = 0
        /\ \A s, t \in StillIn :
              total_committed[s] <= total_committed[t] /\ rank[s] < rank[t]
                => chip_deltas[s] = 0
        /\ \A s \in StillIn :
              (\A t \in StillIn \ {s} : rank[t] < rank[s])
                => chip_deltas[s] >=
                     SumOver(Seats, LAMBDA t : Lesser(total_committed[s], total_committed[t]))

\* A seat never collects from a side pot it did not cover: a seat that is
\* covered by a live opponent is paid at most its commitment from every seat.
SidePotsCapped ==
    pc = "done" /\ (\E s \in Seats : rank[s] \in Ranks) =>
        \A s, t \in StillIn : total_committed[s] < total_committed[t] =>
            chip_deltas[s] <=
                SumOver(Seats, LAMBDA u : Lesser(total_committed[s], total_committed[u]))

\* The bet of the last full raise, short all-ins since then taken off.
LastFullRaise == current_bet - cumulative_short_increment

\* When the bet grows: the seats that have acted are asked again exactly if it
\* has grown by a full raise since the last one, and only a raise that is full
\* by itself becomes the one that is counted from.
RaiseReopens ==
    (Act /\ current_bet' # current_bet) =>
        /\ (\E s \in Seats \ {current} : has_responded[s])
             => ((\A s \in Seats \ {current} : ~ has_responded'[s])
                  <=> current_bet' - LastFullRaise >= min_raise_increment)
        /\ LastFullRaise' = IF current_bet' - current_bet >= min_raise_increment
                            THEN current_bet' ELSE LastFullRaise

\* TDA rule 47A as the comments of GameState state it: the betting is re-opened
\* by a full raise, at once or by several short all-ins, and by nothing less.
ReopensOnFullRaise == [][RaiseReopens]_vars

\* No seat's bet exceeds the bet to call: otherwise the seat is never settled.
BetsCovered ==
    pc \in {"open", "betting"} => \A s \in Seats : bet_this_street[s] <= current_bet

\* "Previously-acted players must call the extra but cannot re-raise": a seat that
\* has answered since the last full raise does not push the bet up.
ActedSeatsCannotRaise ==
    [][ Act /\ has_responded[current] => current_bet' = current_bet ]_vars

\* The hand ends, whatever the agents answer: no round goes on for ever.
HandEnds == <>(pc = "done")
=============================================================================
