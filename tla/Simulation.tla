----------------------------- MODULE Simulation -----------------------------
(***************************************************************************)
(* Simulation runs (poker-engine/src/sim/mod.rs), the statistics sink       *)
(* (stats/mod.rs) and the command that reports them (main.rs).              *)
(*                                                                         *)
(* A runner plays its share of the hands one after the other.  With one     *)
(* thread the runner's events go to the StatsSink.  With more, every        *)
(* thread's events are discarded; when all have been joined and merged, one *)
(* more runner plays a sample with the sink, which is then scaled up.       *)
(* Runner 0 is the one with the sink, runner t the thread t - 1.            *)
(*                                                                         *)
(* What a hand does is HandEngine's matter: here its result is any transfer *)
(* of chips among the seats that have some, as HandEngine's EveryChipIsPaid *)
(* and SeatsAccountedFor allow, or the loss of a seat that plays alone; its  *)
(* events are some actions and a street that may follow.                    *)
(***************************************************************************)
EXTENDS Integers, Sequences, FiniteSetsExt

CONSTANTS N, starting_stacks,   \* seats, and the chips they start with
          HandCounts,           \* values of --hands
          MaxThreads,           \* largest --threads
          BaseSeed,             \* --seed
          Blinds,               \* the posts of a seat that plays alone: all of them
          MaxWin,               \* bound: chips a seat wins or loses in a hand
          MaxActs               \* bound: actions the sink sees in a hand

Seats == 0 .. N - 1
Runners == 0 .. MaxThreads
Results == [Seats -> -MaxWin .. MaxWin]

ASSUME SimulationAssumption ==
    /\ N \in Nat \ {0} /\ starting_stacks \in [Seats -> Nat]
    /\ MaxThreads \in Nat \ {0} /\ BaseSeed \in Nat /\ HandCounts \subseteq Nat
    /\ Blinds \in Nat

VARIABLES
    args,       \* the command's hands and threads, and the stack policy
    phase,      \* "Parallel", "Watched" (the run with the sink), "Reported"
    runner,     \* the SimRunner of every thread, with the locals of its run
    total,      \* SimResult of the parallel run, once merged
    stats,      \* StatsSink.seats
    hand,       \* StatsSink's transient state: street, vpip and pfr
    seeds       \* history: the deck seeds of every runner's hands, in order

vars == <<args, phase, runner, total, stats, hand, seeds>>

Zero == [s \in Seats |-> 0]

\* SeatStats::default
NoStats ==
    [hands_dealt |-> 0, hands_won |-> 0, chip_delta_total |-> 0, vpip_hands |-> 0,
     pfr_hands |-> 0, aggressive_actions |-> 0, passive_actions |-> 0, total_pot |-> 0]

NoHand == [street |-> "Preflop", vpip |-> {}, pfr |-> {}, acts |-> 0]

\* SimRunner::with_rng and the start of run.
Runner(hands, seed) ==
    [stacks |-> starting_stacks, dealer |-> 0, hands |-> hands, seed |-> seed,
     hand_idx |-> 0, deltas |-> Zero, playing |-> FALSE]

Idle == Runner(0, BaseSeed)

-----------------------------------------------------------------------------
(* run_parallel *)

\* Hands of thread t (from 0).
Share(hands, threads, t) == hands \div threads + (IF t < hands % threads THEN 1 ELSE 0)

\* Mutated Offset: the remainder is forgotten.
Offset_NoRemainder(hands, threads, t) == t * (hands \div threads)

\* thread_config: hands of the threads before t.
Offset(hands, threads, t) ==
    SumFunction([i \in 0 .. t - 1 |-> Share(hands, threads, i)])

ThreadRunner(hands, threads, t) ==
    Runner(Share(hands, threads, t), BaseSeed + Offset(hands, threads, t))

Init ==
    /\ args \in [hands : HandCounts, threads : 1 .. MaxThreads, policy : {"Reset", "Persistent"}]
    /\ phase = IF args.threads <= 1 THEN "Watched" ELSE "Parallel"
    /\ runner = [t \in Runners |->
                    IF args.threads <= 1 THEN IF t = 0 THEN Runner(args.hands, BaseSeed) ELSE Idle
                    ELSE IF t \in 1 .. args.threads
                         THEN ThreadRunner(args.hands, args.threads, t - 1) ELSE Idle]
    /\ total = [hands_played |-> 0, chip_deltas |-> Zero]
    /\ stats = [s \in Seats |-> NoStats]
    /\ hand = NoHand
    /\ seeds = [t \in Runners |-> <<>>]

-----------------------------------------------------------------------------
(* SimRunner::run *)

HandStacks(r) == IF args.policy = "Reset" THEN starting_stacks ELSE r.stacks

InPlay(r) == {s \in Seats : HandStacks(r)[s] > 0}

\* The hand of a seat that plays alone: it gets its posts back, unless it has
\* chips behind them, is asked for an action and folds.  Nobody is eligible then
\* for what was posted (build_showdown_pots), and the chips are gone.
AloneOutcome(stack, delta) == delta = 0 \/ (delta = -Blinds /\ Blinds < stack)

\* What run_hand may return, as deltas: chips change hands among the seats in
\* play, and nobody loses more than the stack.
Outcomes(r) ==
    {d \in Results :
        /\ \A s \in Seats : d[s] >= -HandStacks(r)[s] /\ (HandStacks(r)[s] = 0 => d[s] = 0)
        /\ IF \E s \in Seats : InPlay(r) = {s}
           THEN \A s \in InPlay(r) : AloneOutcome(HandStacks(r)[s], d[s])
           ELSE SumFunction(d) = 0}

Distance(from, s) == IF s > from THEN s - from ELSE s + N - from

\* Mutated next_dealer: the button moves to the next seat, whatever it holds.
next_dealer_NoSkip(current, stacks) == (current + 1) % N

\* Advance to the next seat with chips.
next_dealer(current, stacks) ==
    IF \E s \in Seats : stacks[s] > 0
    THEN CHOOSE s \in Seats :
            /\ stacks[s] > 0
            /\ \A q \in Seats : stacks[q] > 0 => Distance(current, s) <= Distance(current, q)
    ELSE current

\* A hand starts, with its seed; the sink forgets the hand before.
StartHand(t) ==
    /\ phase = IF t = 0 THEN "Watched" ELSE "Parallel"
    /\ ~runner[t].playing /\ runner[t].hand_idx < runner[t].hands
    /\ runner' = [runner EXCEPT ![t].playing = TRUE]
    /\ seeds' = [seeds EXCEPT ![t] = Append(@, runner[t].seed + runner[t].hand_idx)]
    /\ hand' = IF t = 0 THEN NoHand ELSE hand
    /\ UNCHANGED <<args, phase, total, stats>>

\* Mutated AfterHand: the stacks follow the deltas of the whole run.
AfterHand_Twice(r, d) ==
    LET deltas == [s \in Seats |-> r.deltas[s] + d[s]]
        stacks == IF args.policy = "Reset" THEN r.stacks
                  ELSE [s \in Seats |-> Max({r.stacks[s] + deltas[s], 0})]
    IN  [r EXCEPT !.playing = FALSE, !.hand_idx = @ + 1, !.deltas = deltas,
                  !.stacks = stacks, !.dealer = next_dealer(@, stacks)]

\* apply_result_to_deltas, apply_result_to_stacks, next_dealer.
AfterHand(r, d) ==
    LET stacks == IF args.policy = "Reset" THEN r.stacks
                  ELSE [s \in Seats |-> Max({r.stacks[s] + d[s], 0})]
    IN  [r EXCEPT !.playing = FALSE, !.hand_idx = @ + 1,
                  !.deltas = [s \in Seats |-> r.deltas[s] + d[s]],
                  !.stacks = stacks, !.dealer = next_dealer(@, stacks)]

-----------------------------------------------------------------------------
(* StatsSink.on_event *)

SinkAction(s, action) ==
    /\ stats' = [stats EXCEPT
                   ![s].aggressive_actions = @ + (IF action = "Raise" THEN 1 ELSE 0),
                   ![s].passive_actions = @ + (IF action = "Call" THEN 1 ELSE 0)]
    /\ hand' = [hand EXCEPT
                  !.acts = @ + 1,
                  !.vpip = IF hand.street = "Preflop" THEN @ \union {s} ELSE @,
                  !.pfr = IF hand.street = "Preflop" /\ action = "Raise" THEN @ \union {s} ELSE @]

\* ActionTaken, for Raise or AllIn and for Call; Fold and Check are not counted.
Act(s) ==
    /\ runner[0].playing /\ hand.acts < MaxActs /\ HandStacks(runner[0])[s] > 0
    /\ \E action \in {"Raise", "Call"} : SinkAction(s, action)
    /\ UNCHANGED <<args, phase, runner, total, seeds>>

\* BoardDealt
DealBoard ==
    /\ runner[0].playing /\ hand.street = "Preflop"
    /\ hand' = [hand EXCEPT !.street = "Flop"]
    /\ UNCHANGED <<args, phase, runner, total, stats, seeds>>

One(condition) == IF condition THEN 1 ELSE 0

\* HandEnded: the seats in the result are those that had chips, and a simulation
\* has no seats that sit out.  The pot is what the winners win.
SinkHandEnded(d) ==
    LET pot == SumFunction([s \in Seats |-> Max({d[s], 0})])
    IN  [s \in Seats |->
            IF HandStacks(runner[0])[s] = 0 THEN stats[s]
            ELSE [stats[s] EXCEPT !.hands_dealt = @ + 1, !.chip_delta_total = @ + d[s],
                                  !.hands_won = @ + One(d[s] > 0),
                                  !.vpip_hands = @ + One(s \in hand.vpip),
                                  !.pfr_hands = @ + One(s \in hand.pfr),
                                  !.total_pot = @ + pot]]

EndHand(t) ==
    /\ runner[t].playing
    /\ \E d \in Outcomes(runner[t]) :
          /\ runner' = [runner EXCEPT ![t] = AfterHand(@, d)]
          /\ stats' = IF t = 0 THEN SinkHandEnded(d) ELSE stats
    /\ UNCHANGED <<args, phase, total, hand, seeds>>

-----------------------------------------------------------------------------
(* main *)

Done(t) == ~runner[t].playing /\ runner[t].hand_idx = runner[t].hands

SampleHands == Max({args.hands \div args.threads, 1})

\* All threads are joined: SimResult::merge, and a new runner for the sample.
Merge ==
    /\ phase = "Parallel" /\ \A t \in 1 .. args.threads : Done(t)
    /\ phase' = "Watched"
    /\ total' = [hands_played |-> SumFunction([t \in 1 .. args.threads |-> runner[t].hands]),
                 chip_deltas |-> [s \in Seats |->
                    SumFunction([t \in 1 .. args.threads |-> runner[t].deltas[s]])]]
    /\ runner' = [runner EXCEPT ![0] = Runner(SampleHands, BaseSeed)]
    /\ UNCHANGED <<args, stats, hand, seeds>>

\* (x as f64 * ratio).round(), with ratio = hands / sample_hands.
Scaled(x) == (2 * x * args.hands + SampleHands) \div (2 * SampleHands)

\* Mutated ScaledStats: the chips are scaled like the counts.
ScaledStats_Chips(seat) ==
    [stats[seat] EXCEPT
        !.chip_delta_total = (@ * args.hands) \div SampleHands,
        !.hands_dealt = Scaled(@), !.hands_won = Scaled(@), !.vpip_hands = Scaled(@),
        !.pfr_hands = Scaled(@), !.total_pot = Scaled(@)]

ScaledStats(seat) ==
    [stats[seat] EXCEPT
        !.chip_delta_total = total.chip_deltas[seat],
        !.hands_dealt = Scaled(@), !.hands_won = Scaled(@), !.vpip_hands = Scaled(@),
        !.pfr_hands = Scaled(@), !.total_pot = Scaled(@)]

Report ==
    /\ phase = "Watched" /\ Done(0)
    /\ phase' = "Reported"
    /\ stats' = IF args.threads <= 1 THEN stats ELSE [s \in Seats |-> ScaledStats(s)]
    /\ UNCHANGED <<args, runner, total, hand, seeds>>

Next ==
    \/ \E t \in Runners : StartHand(t) \/ EndHand(t)
    \/ \E s \in Seats : Act(s)
    \/ DealBoard \/ Merge \/ Report

Spec == Init /\ [][Next]_vars

-----------------------------------------------------------------------------
(* Properties *)

SeedsOf(t) == {seeds[t][i] : i \in DOMAIN seeds[t]}

\* However the hands are split, the threads play different decks, and together
\* the decks that a single thread would have played: the last thread's seeds end
\* where the run's do, and no hand is lost in the division.
SeedsPartition ==
    args.threads > 1 =>
        /\ \A t, u \in 1 .. args.threads : t # u => SeedsOf(t) \intersect SeedsOf(u) = {}
        /\ phase # "Parallel" =>
              /\ UNION {SeedsOf(t) : t \in 1 .. args.threads} = BaseSeed .. BaseSeed + args.hands - 1
              /\ total.hands_played = args.hands

\* Nobody else has chips for the next hand.
Alone(r) == \E s \in Seats : InPlay(r) \subseteq {s}

\* A runner's stacks and deltas tell the same story: stacks that carry over are
\* the starting stacks plus what the seat won in this run, so the clamp at zero
\* in apply_result_to_stacks never hides a loss.  No chip is made, in a runner or
\* in the merged result, and if one is lost, a seat of that run is left alone.
ChipsTracked ==
    /\ \A t \in Runners :
          /\ SumFunction(runner[t].deltas) <= 0
          /\ SumFunction(runner[t].deltas) < 0 => Alone(runner[t])
          /\ \A s \in Seats : runner[t].stacks[s] = starting_stacks[s] +
                                  (IF args.policy = "Persistent" THEN runner[t].deltas[s] ELSE 0)
    /\ SumFunction(total.chip_deltas) <= 0
    /\ SumFunction(total.chip_deltas) < 0 => \E t \in 1 .. args.threads : Alone(runner[t])

\* The button is never on a seat that is out of chips when a hand is dealt.
DealerHasChips ==
    \A t \in Runners : runner[t].playing => HandStacks(runner[t])[runner[t].dealer] > 0

\* The report is about the run that was asked for, also when most of it was not
\* watched: for stacks that reset, every seat in play is reported with all hands,
\* with the chips of the whole run, and with counts that fit into one another.
ReportAgrees ==
    phase = "Reported" /\ args.policy = "Reset" =>
        \A s \in Seats :
            /\ stats[s].chip_delta_total =
                  IF args.threads > 1 THEN total.chip_deltas[s] ELSE runner[0].deltas[s]
            /\ starting_stacks[s] > 0 => stats[s].hands_dealt = args.hands
            /\ stats[s].pfr_hands <= stats[s].vpip_hands
            /\ stats[s].vpip_hands <= stats[s].hands_dealt
            /\ stats[s].hands_won <= stats[s].hands_dealt
=============================================================================
