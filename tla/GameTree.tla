------------------------------ MODULE GameTree ------------------------------
(***************************************************************************)
(* The pausable hand stepper of the solver                                 *)
(* (crates/poker-engine/src/game/tree.rs).                                 *)
(*                                                                         *)
(* GameTree calls the methods of Engine that change the GameState (posting *)
(* blinds, dealing, applying an action, paying out): those operators come  *)
(* from HandEngine.  What it does by itself is the control around them:    *)
(* apply_action and advance replace run_betting_round and run_streets.     *)
(* Phase::Decision is pc = "betting", Phase::Terminal is pc = "done";      *)
(* "scan" and "collect" are places inside advance.                         *)
(*                                                                         *)
(* The comment at the top of tree.rs promises that this phase machine      *)
(* mirrors the engine's: the module shows that every hand the tree plays   *)
(* is a hand of the engine.                                                *)
(***************************************************************************)
EXTENDS HandEngine

VARIABLE scan       \* the seat the search of advance looks at

treeVars == <<vars, scan>>

TreeInit == Init /\ scan = 0

-----------------------------------------------------------------------------
(* GameTree::new: the opening, up to the first decision *)

TreeOpening ==
    /\ PostAnte \/ PostSmallBlind \/ PostBigBlind \/ OpenBetting
    /\ UNCHANGED scan

-----------------------------------------------------------------------------
(* apply_action *)

Deciding == pc = "betting"

\* Mutated AfterApply: a raise does not reopen the betting.
AfterApply_NoReset(was_aggression) ==
    /\ has_responded' = RespondedAfter(FALSE)
    /\ pc' = IF OneLeft(status') THEN "award" ELSE "scan"
    /\ scan' = NextSeat(current)
    /\ UNCHANGED <<args, pot, street, board, current, chip_deltas, rank>>

\* Mutated AfterApply: the actor's own response is not recorded.
AfterApply_NotRecorded(was_aggression) ==
    /\ has_responded' = RespondedAfter_NotRecorded(was_aggression)
    /\ pc' = IF OneLeft(status') THEN "award" ELSE "scan"
    /\ scan' = NextSeat(current)
    /\ UNCHANGED <<args, pot, street, board, current, chip_deltas, rank>>

\* Response flags, then the first two questions of advance: is one seat left,
\* and from where to look for the next one to act.
AfterApply(was_aggression) ==
    /\ has_responded' = RespondedAfter(was_aggression)
    /\ pc' = IF OneLeft(status') THEN "award" ELSE "scan"
    /\ scan' = NextSeat(current)
    /\ UNCHANGED <<args, pot, street, board, current, chip_deltas, rank>>

TreeFold ==
    /\ Deciding
    /\ status' = [status EXCEPT ![current] = "Folded"]
    /\ UNCHANGED <<stack, bet_this_street, total_committed, betting>>
    /\ AfterApply(FALSE)

TreeCheck ==
    /\ Deciding
    /\ Dispatched("Check", legal.can_check)
    /\ UNCHANGED <<players, betting>>
    /\ AfterApply(FALSE)

TreeCall ==
    /\ Deciding
    /\ Dispatched("Call", legal.can_call)
    /\ Pay(current, Lesser(Owed(current), stack[current]))
    /\ UNCHANGED betting
    /\ AfterApply(FALSE)

TreeRaise ==
    /\ Deciding
    /\ \E amount \in 0 .. AllInTotal(current) :
        /\ RaiseDispatchedAs("Raise", amount)
        /\ Commit(current, SaturatingSub(amount, bet_this_street[current]))
        /\ current_bet' = RaisedTo(current, amount)
        /\ min_raise_increment' = RaisedTo(current, amount) - current_bet
    /\ cumulative_short_increment' = 0
    /\ UNCHANGED status
    /\ AfterApply(TRUE)

\* The increment over the bet to call decides between no raise, a full one and
\* a short one.
TreeAllIn ==
    LET total     == AllInTotal(current)
        increment == total - current_bet
        shorts    == cumulative_short_increment + increment
    IN  /\ Deciding
        /\ Dispatched("AllIn", legal.all_in_amount > 0)
        /\ Commit(current, stack[current])
        /\ status' = [status EXCEPT ![current] = "AllIn"]
        /\ \/ /\ total <= current_bet
              /\ UNCHANGED betting
              /\ AfterApply(FALSE)
           \/ /\ increment > 0 /\ increment >= min_raise_increment
              /\ current_bet' = total
              /\ min_raise_increment' = increment
              /\ cumulative_short_increment' = 0
              /\ AfterApply(TRUE)
           \/ /\ increment > 0 /\ increment < min_raise_increment
              /\ current_bet' = total
              /\ cumulative_short_increment' = shorts
              /\ UNCHANGED min_raise_increment
              /\ AfterApply(shorts >= min_raise_increment)

-----------------------------------------------------------------------------
(* advance *)

\* One turn of the search for the first unsettled seat; the actor itself is the
\* last one looked at.
Scan ==
    /\ pc = "scan"
    /\ IF ~ Settled(scan)
       THEN pc' = "betting" /\ current' = scan /\ UNCHANGED scan
       ELSE /\ UNCHANGED current
            /\ IF scan = current
               THEN pc' = "collect" /\ UNCHANGED scan
               ELSE scan' = NextSeat(scan) /\ UNCHANGED pc
    /\ UNCHANGED <<args, players, betting, pot, street, board, has_responded, chip_deltas, rank>>

\* Nobody is left to act: the bets of the round go to the pot.
Collect ==
    /\ pc = "collect"
    /\ CollectBets
    /\ pc' = "street"
    /\ UNCHANGED <<args, stack, total_committed, status, betting, street, board, current,
                   has_responded, chip_deltas, rank, scan>>

\* The loop over the streets: begin_street, deal_board_cards, and a new round
\* if two seats can bet.
TreeStreet ==
    /\ pc = "street"
    /\ street # "River"
    /\ street' = NextStreet[street]
    /\ board' = board + CardsOn[NextStreet[street]]
    /\ current_bet' = 0
    /\ min_raise_increment' = BigBlind
    /\ cumulative_short_increment' = 0
    /\ bet_this_street' = [s \in Seats |-> 0]
    /\ IF Cardinality(ActiveSeats) >= 2
       THEN /\ pc' = "betting"
            /\ current' = FirstAfter(dealer, ActiveSeats)
            /\ has_responded' = [s \in Seats |-> FALSE]
       ELSE UNCHANGED <<pc, current, has_responded>>
    /\ UNCHANGED <<args, stack, total_committed, status, pot, chip_deltas, rank, scan>>

\* After the river: deal_remaining_board, which finds five cards, and the mark
\* Street::Showdown, which the engine never sets.
TreeShowdown ==
    /\ pc = "street"
    /\ street = "River"
    /\ board' = 5
    /\ street' = "Showdown"
    /\ pc' = "showdown"
    /\ UNCHANGED <<args, players, betting, pot, current, has_responded, chip_deltas, rank, scan>>

\* resolve_showdown and award_uncontested are the engine's.
TreePayout ==
    /\ Showdown \/ AwardUncontested
    /\ UNCHANGED scan

TreeAct == TreeFold \/ TreeCheck \/ TreeCall \/ TreeRaise \/ TreeAllIn

TreeNext ==
    \/ TreeOpening
    \/ TreeAct
    \/ Scan \/ Collect \/ TreeStreet \/ TreeShowdown
    \/ TreePayout

TreeSpec == TreeInit /\ [][TreeNext]_treeVars

\* apply_action runs to the next node on the caller's thread.
TreeFairSpec == TreeSpec /\ WF_treeVars(TreeNext)

-----------------------------------------------------------------------------
(* Properties *)

\* The place of the engine that corresponds to a place of the tree.  When the
\* search will find nobody, the engine has noticed already; after the round
\* the engine's loop variable is one seat past the last actor, the tree's on it.
RoundOver ==
    pc \in {"collect", "street"} \/ street = "Showdown" \/ (pc = "scan" /\ AllSettled)

enginePc == IF pc \in {"scan", "collect"} THEN "betting" ELSE pc
engineCurrent ==
    IF RoundOver THEN NextSeat(current) ELSE IF pc = "scan" THEN scan ELSE current

\* The engine never leaves the river.
engineStreet == IF street = "Showdown" THEN "River" ELSE street

Engine == INSTANCE HandEngine WITH
    pc <- enginePc, current <- engineCurrent, street <- engineStreet

\* Every hand the tree plays, seen through this mapping, is a hand of
\* Engine::run_hand: same seats to act, same legal actions, same chips.
ImplementsEngine == Engine!Spec

\* Whatever the solver answers, the tree comes to a terminal node: traversals
\* of the tree end (MinContenders seats, no ante).
TreeEnds == <>(pc = "done")
=============================================================================
