# Verification of vibe-poker in TLA+

This directory models the repository in TLA+: a Texas Hold'em engine with its
solver's tree and simulations, the poker server around it and the native client.
TLC model-checks the modules on small instances, and TLAPS proves the theorems
of the `*Proofs` modules for every value of the constants. `PROJECT.json` maps
every definition to the lines it models and lists runs, mutants, findings,
hazards and theorems.

Check a run with `tlc -config <Run>.cfg <Module>` and a proof with
`tlapm <Module>.tla`.

## 1. The system

| Part | State | Operations | Works with |
|---|---|---|---|
| hand engine (`game/engine.rs`, `pot_calc.rs`, `state.rs`, `action.rs`, `rules.rs`) | `GameState`: stacks, bets, status, pot, street, the raise bookkeeping | `run_hand`: antes, blinds, betting rounds, streets, showdown, awards | asks an `Agent` for every action; emits events to a sink |
| game tree (`game/tree.rs`) | a `GameState` and a phase: a decision, or terminal | `new`, `apply_action`, `advance` | the engine's methods under a control of its own; used by the trainer |
| cards, deck, evaluator (`core/`) | none | shuffling, seven-card ranking | the engine |
| simulation, statistics (`sim/`, `stats/`, `main.rs`) | a runner's stacks, button and deltas; `StatsSink`'s counters | `SimRunner::run`, `run_parallel`, `merge`, the sampled report | the engine; threads that are joined and merged |
| agents (`agent/`) | none | choose an action | the engine |
| wire protocol (`net/`, server `wire.rs`) | none | length-prefixed messages | sessions, clients |
| table actor (`table.rs`) | `TableInner` (seats, button, `hand_in_progress`), two `Notify` | `run_table`, `sit`, `leave`, `force_leave`, `reconnect_player`, `apply_hand_result` | runs the engine on a blocking thread; handlers of sessions change the seats meanwhile |
| table manager (`table.rs`) | `player_table` | `current_table`, `record_join`, `record_leave`, `shutdown_all` | sessions |
| session (`session.rs`) | one task for each connection | handshake, reader loop, cleanup | registry, manager, table, connection |
| connection and seat link (`connection.rs`) | `pending`, `departed`, outbound queue, replay buffer; `SeatLink.inner` | `deliver_action`, `cancel_pending`, `replace`, `replay_*` | remote agent, sessions |
| remote agent (`remote_agent.rs`) | the oneshot of one prompt | `act` | engine thread on one side, connections on the other |
| registry (`registry.rs`, migrations) | SQLite rows; the map `online`; `write_tx` | `register`, `authenticate_*`, `logout`, `record_hand` | sessions |
| limits (`limits.rs`) | a token bucket | `try_consume` | sessions |
| client core (`poker-client-core`) | phase, view of the hand, open prompt, session key | `handle_intent`, `handle_inbound`, `project_engine_event`: a reducer that returns effects | the runtime carries the effects out |
| native transport (`poker-client-transport-native`) | one handle, its channels, a pump task for every socket, the stored key | the worker loop, `process_effects`, `open`, `run_pump`, `SessionStore` | client core above, the socket below |
| headless client (`poker-client-headless`) | a script | test scenarios | client core |
| trainer (`poker-trainer`) | regret tables | MCCFR | game tree |

What is hard here: the engine runs on its own thread and asks for actions
through connections that may be replaced, left or closed while it waits; one
player's seat is described in three places (the table's slots, `player_table`,
the seat link) that are changed in separate steps; a prompt has a deadline that
races the answer; a login commits a row and then changes memory, and its future
can be dropped in between; events reach a client live, through a bounded queue
that drops, and again through a replay buffer, in steps that other threads get
between; a pump reads frames in a `select!` that can drop a half-read one; and
the engine's accounting has to come out to the chip over every pattern of short
stacks, raises, folds and side pots.

## 2. Modules

| Module | Models | Run module | Proofs |
|---|---|---|---|
| `HandEngine` | one hand, `Engine::run_hand` and all it calls | `MCHandEngine` | `HandEngineProofs` |
| `GameTree` | the solver's stepper, over the engine's operators | `MCGameTree` | `GameTreeProofs` |
| `Simulation` | runners, threads, merge, statistics and the report | `MCSimulation` | `SimulationProofs` |
| `TableActor` | one table, its actor, the handlers and the manager's map | `MCTableActor` | `TableActorProofs` |
| `PromptLink` | one seat, `RemoteAgent::act`, the player's connections, reconnect and close | `MCPromptLink` | `PromptLinkProofs` |
| `Registry` | accounts, session rows, the online map, handshakes, logout, hand records, restart | `MCRegistry` | `RegistryProofs` |
| `ClientCore` | the client's state machine, as operators on a core | | |
| `ReplayFeed` | what one seat is told: sink, replay buffer, queue, session, takeover, and the client's core | `MCReplayFeed` | `ReplayFeedProofs` |
| `ClientRuntime` | the native client's loop and pumps around its core, and what the server does with its connection | `MCClientRuntime` | `ClientRuntimeProofs` |

How they compose:

* `GameTree` EXTENDS `HandEngine` and is shown to implement it: `Engine ==
  INSTANCE HandEngine WITH pc <- enginePc, current <- engineCurrent,
  street <- engineStreet`. `HandEngine!Spec` is the abstract specification.
* `ReplayFeed` and `ClientRuntime` EXTEND `ClientCore`: the one composes it with
  the sending side of the server, the other with its own transport.
* The other modules meet at their interfaces. `TableActor` plays a hand as one
  step with a zero-sum result for the seats of its snapshot, of which there are
  two or more. `Simulation` takes any zero-sum result that is within the stacks
  when two seats or more have chips, and the outcomes of a seat that plays alone
  when only one has. With two contenders this is what `HandEngineProofs` proves:
  `EveryChipIsPaid` that the result is zero-sum, `SeatsAccountedFor` with
  `TypeCorrect` that a loss is at most the stack. `HandEngine` asks an agent for
  any action at a prompt; that the remote agent always returns one is
  `PromptLink!PromptResolves`. `PromptLink!Login` and `TableActor!Login` set the
  flags of older sessions as `Registry!Install` does when the entry is still
  there. `persist_hand` changes nothing of the table; the registry's side of it
  is `Registry!RecordHand`.

**HandEngine.** `pc` is the place in `run_hand`; the variables are the fields
of `GameState` and the locals of `run_betting_round`. `PostAnte`,
`PostSmallBlind`, `PostBigBlind` and `OpenBetting` are the opening, with the
all-in and dead-hand cases; `Fold`, `Check`, `Call`, `Raise`, `AllIn` are one
turn of the betting loop each, from `compute_legal_actions` through
`normalize_action` and `apply_action` to the advance of the seat; `SkipSettled`
and `EndRound` are the loop's other exits; `DealStreet` collects the bets;
`Showdown` builds the side pots and pays them; `AwardUncontested` pays the last
seat. Which action comes is the agent's choice: with `Disciplined` a legal one,
without it any action at all, which is then normalised as a release build does.
Cards are a rank for each seat, chosen at the showdown.

**GameTree.** `TreeFold` to `TreeAllIn` are `apply_action`, with the engine's own
operators for what happens to the state; `Scan` looks for the next seat to act,
one seat a step, and `Collect`, the streets and the payouts are the rest of
`advance`. The tree's places "scan" and "collect" map to the engine's betting
loop; while the tree searches, the engine's loop variable is where the search
is, and after a round it is one seat past the last actor. `Street::Showdown`,
which only the tree sets, maps to the river.

**Simulation.** Runner 0 has the `StatsSink`, runner t is thread t - 1. A hand
starts with a seed, shows the sink a few actions and a street, and ends with one
of its `Outcomes`: a transfer between the seats that have chips, within their
stacks, or, for a seat that plays alone, its stack back or the loss of its posts
when it has chips behind them and folds (`AloneOutcome`; `engine.rs:393`,
`pot_calc.rs:63-70`). `Merge` joins the threads and starts the sample that
`main.rs` plays for the statistics; `Report` scales the sample up.

**TableActor.** A step is one critical section of the state mutex, one access
of the manager's map, or one park. Handlers belong to sessions, and a player may
have several: `Login` supersedes the sessions before it, which go on with what
they were doing and close in their own time. `FindSeat` and `ReplaceLink` are the
takeover of the seat (`reconnect_player`); a seat names its `SeatLink` by the
session that created it (`link`) and the connection in it by that session's
number (`bound`), which is the `session_id` that `force_leave` compares.
`JoinTable`, `Sit`/`SitRefused`, `RecordJoin` are the three parts of
`handle_join`; `LeaveTable`, `Leave`, `RecordLeave` those of `handle_leave`;
`CloseSession`, `CloseRecord`, `ForceLeave` the end of a session, in which the
`revoked` flag is read once, before the entry is taken out. `overtaken` is
history: the players who logged in while an earlier session of theirs was halfway
through one of these. `CheckQuorum`, `Woken`, `TakeRunningSnapshot`, `QuorumLost`
and `ApplyHandResult` are `run_table`; the hand itself, also one that panics,
ends with `ApplyHandResult`. The server's end is not in the model: `main` returns
as soon as it has asked for it, and the tasks are dropped.

**PromptLink.** A step is one access to shared memory: `act` runs on a blocking
thread, in parallel with the sessions. `act` reads the link, checks `departed`,
registers the prompt, sends it, waits, and cleans up; `reconnect_player` reads
the old link, takes its prompt, replaces the link, installs and re-sends the
prompt; leaving and closing store `departed`, take the slot and go on as
`session.rs` does. `Submit` answers the last prompt a client was sent, and
`Resubmit` answers it again, which the client can when an `ActionRejected` or a
replay has armed its buttons (`core.rs:332-360`); `repeats` is history, the hands
in which a prompt was answered twice. `channel` is the oneshot and remembers who dropped it.

**Registry.** A step lies between two awaits. `Begin` takes `write_tx`, `Issue`
and `Resume` end with the commit, `Install` is `install_online` and the release
of the lock. `HandshakeFails` is the timeout of the handshake (or a failing
query), which drops the future at any of these awaits; a commit stays.
`RecordHand`, `RecordSeat`, `RecordCommit` and `RecordFails` are `record_hand`,
which takes the same lock. `Restart` loses memory and keeps the rows.

**ClientCore.** Each arm of `handle_intent`, `handle_inbound` and
`project_engine_event` is an operator from a core (and its input) to the core
after it with its effects. Names, log lines, lobby and stack lists, deadlines
are left out: no transition reads them. Cards are their number.

**ReplayFeed.** A hand starts, antes and blinds may put seats all in
(`BlindAllIn`, for the sets in `Short`), cards are dealt, seats act; if nobody can
(`NobodyActs`) the hand ends without a board.
The engine thread emits an event and then makes its calls on the
link, one a step (`Call`): into the replay buffer, then into the queue. In
between, `RequestReplay` copies the buffer, `SendReplay` sends the copy, and
`Reconnect`, `LiftPrompt`, `ReplaceLink`, `ReissuePrompt` are
`reconnect_player`. `TrySend` drops what finds the queue full. `clean` is
history: the client has seen every event of this hand in order.

**ClientRuntime.** The loop handles an intent or an inbound event with all of
its effects in one step. `PumpSend`, `PumpShutdown`, `PumpReadPart`,
`PumpReadRest`, `PumpEof` and `PumpGarbled` are the branches of `run_pump`: a
frame is read in two steps, and a send in between drops the read with the bytes
it had (`AfterSend`). Opening a socket and writing the key may fail. The server
answers as `session.rs` does, prompts, busts the seat without telling its player
(`ServerBusts`, `table.rs:604-640`), or closes; its outbound queue holds
`Capacity` messages, and `TrySend` drops what does not fit
(`connection.rs:84-91`), but for the answers of the handshake. `lastTold` is
history: where the last message that was queued puts the client.

## 3. Runs

| Run | Expect | What it shows |
|---|---|---|
| `HandNoLimit` | pass | 3 seats, stacks 0, 1, 2, 3, 4, 6, one dead hand, two buttons, every legal action: seat and pot accounting, chip conservation, a contested pot awarded without a showdown only if it is no more than posts, contenders matched, fair side pots, bets covered by the bet to call, the re-opening rule, and the end of the hand |
| `HandUnruly` | pass | 4 seats, fixed limit, antes, and agents that answer with anything: `normalize_action` and several side pots at once keep every chip, and no winner takes from a pot it did not match |
| `TreeHands` | pass | pot-limit hands of the solver's tree are hands of the engine (`ImplementsEngine`), and every traversal ends |
| `SimReport` | pass | 0 to 5 hands on 1 to 3 threads, both stack policies, seats that go broke, down to one that plays alone: seeds are split without gap or overlap, chips are tracked and lost only by a seat left alone, the button has chips, the report is about the whole run |
| `TableHands` | pass | 3 sessions of 2 players around the actor, one of them a takeover: seats held, one seat each, no ghost seat unless a login overtook a session halfway, quorum starts a hand, leaves of a hand honoured |
| `PromptHandoff` | pass | 2 connections, 2 prompts, answers given once or twice, leaves and closes at any point: prompts resolve, an answer is of this hand and for this prompt unless one of the hand was answered twice, a migrated prompt was sent |
| `PromptSuperseded` | violation of `HandoffDoesNotFold` | a superseded session that closes drops the prompt |
| `RegistrySessions` | pass | 4 connections of 2 users, timeouts, restarts, and a table that records a hand: newest row live, entries in order, no ghost presence, a driver can be revoked, records whole |
| `FeedReplay` | pass | a hand on its way to one client over a queue of 4, with a takeover and a replay at any point: the buffer rebuilds what live play showed, a player whose turn it is has the buttons, nobody is told another's cards |
| `FeedOverlap` | violation of `ReplayPrecedesLive` | the snapshot is sent after its lock is released: a live event overtakes it, or comes again after it |
| `FeedTakeover` | violation of `ReconnectedCanAct` | after a takeover in mid-hand the client has the prompt and no hand to show it in |
| `ClientSessions` | pass | 2 connections of one native client, frames in pieces, closes, restarts, a server that drops messages and busts the seat: no view outlives its connection, once all is read the view is where the server last told the client it is, a closed connection is noticed |

The findings in `PROJECT.json` quote the comment or document that each
violation contradicts.

### Bounds, and why they are enough

* **Stacks and seats.** Blinds are 1 and 2. A stack of 3 goes all in with a
  short raise over the big blind, two of them in turn can add up to a full
  raise (the cumulative rule), 4 is an exact minimum raise, 6 leaves room for a
  full raise after it, 0 is an empty seat. Three different stacks give a main
  pot and two side pots; `HandUnruly` has a fourth seat for a re-raise behind
  two short all-ins, and an ante. In `HandNoLimit` a stack of 1 is all in with
  either blind and a stack of 2 with the big one, so that both blinds can be; its
  two buttons put the blinds on the seats after the button with the big blind
  before or behind it. `TreeHands` plays pot limit, so that with
  the other two runs each betting structure is played.
* **`MaxDead`, `MinContenders`.** At most one dead hand, and two live stacks,
  which is what `take_running_snapshot` guarantees of the seats it plays.
* **`Ranks`.** As many ranks as seats in the 3-seat run, so every order and
  every tie occurs.
* **`MaxChips`, `BuyIns`.** Chips a table may hold, so that stacks stay finite;
  4 chips over 2 players and a big blind of 2 give busts, stacks below the
  blind, and refused buy-ins.
* **`MaxSessions`, `Owner`.** Two players and two seats reach every handler
  interleaving of a join, a leave and a close with the actor; the third session
  is the first player's second, which takes over, and meets the first one's own
  join, leave and close at every point.
* **`SimReport`.** 5 hands on 3 threads leave a remainder of two, 2 on 3 threads
  leave a thread without a hand, 0 is the empty run; a seat that wins or loses
  one chip a hand goes broke within a run, and so do all but one. A seat alone
  posts one chip (`Blinds`).
* **`FeedReplay`.** A queue of 4 (256 in the code) overflows within one hand; one
  action, one takeover and one request of a replay meet in every order with the
  calls of three streets and a showdown. The blinds put nobody, the client's own
  seat, or everybody all in. With blinds that put nobody all in, the same properties
  hold without the queue's overflow (3 seats, capacity 9, 2 actions: 7.4 million
  states) and with more actions (2 seats, capacity 5: 5.7 million states); these
  take too long to be kept as runs.
* **`ClientSessions`.** Two sockets make one reconnect, with the pump of the
  first still running; four intents are a connect, a login, a join and one more,
  or two sessions cut short; one push is a prompt, after which the seat may go
  bust, or a close. A queue of one message (256 in the code) is full at once.
* **`MaxConns`, `MaxPrompts`.** Two connections make one handoff, two prompts
  make a late or a second answer to the first meet the other, in the same hand
  or the next. Four connections of two users let two logins overlap while an old
  connection closes and another user logs in; a connection is used once.

`CHECK_DEADLOCK FALSE` is in the runs in which the system does stop: a hand
ends, a bounded number of sessions, connections, intents or prompts is used up.

Symmetry is used in `RegistrySessions` only (users are interchangeable and no
liveness property is checked there).

### Fairness

* `HandEngine`: `WF(Next)`. The engine is a loop on its own thread; nothing is
  assumed about which action an agent picks.
* `TableActor`: `WF(Actor)`. tokio polls every task that has been woken; a hand
  ends because every prompt has a deadline and the engine's loop ends. Nothing is
  assumed of the sessions, also of one that is halfway.
* `PromptLink`: `WF(Act)` and `WF(Task(c))`, the engine thread and the session
  tasks. The deadline is part of `Act`.
* `GameTree`: `WF(TreeNext)`, as for the engine: the solver keeps applying
  actions, and nothing is assumed about which.
* `ClientRuntime`: `WF(Inbound)` and `WF(Pump(c))`: the worker thread's runtime
  polls the loop and the pumps. `PumpGarbled` is not in it: what a read in the
  middle of a frame takes for a length may be one it waits for for good.
  Nothing is assumed of the host, the server or the network.
* `Registry`, `ReplayFeed` and `Simulation` are checked for safety only.

## 4. Hazards

`PROJECT.json` lists the hazards at their lines with the properties that would
catch them; those without a property say why.

## 5. Proofs

All theorems hold for every value of the constants that satisfies the named
assumptions (`SeatsAssumption`, `RulesAssumption`, `TableAssumption`,
`PromptAssumption`, `RegistryAssumption`, `FeedAssumption`, `RuntimeAssumption`,
`SimulationAssumption`), which TLC evaluates in the runs of these modules. They
are what the code's types say: counts are positive, chips are naturals, ranks are
positive because 0 stands for a hand that was not shown. A theorem that needs more
says so in its statement, and the reason is given below.

* **`HandEngineProofs`**, accounts: `TypeCorrect`, `SeatsAccountedFor`,
  `PotAccountedFor`. The inductive invariant `Inv` is `TypeOK`, `SeatAccounting`
  and `PotAccounting` with three facts they need: nothing has been paid before the
  end (`NotPaidYet`), no bet is left on the table when a street is dealt
  (`BetsCollected`), and the board fits the street (`BoardMatchesStreet`). The
  sum of the bets is the cardinality of a set of chips, so that `TotalUpdate`,
  the lemma on changing one seat, follows from the theorems on finite sets and
  needs no induction.

  Betting: `BetsAreCovered`, `ContendersHaveMatched` under `Rules` (no ante,
  small blind at most the big blind, two contenders), and `ReopensExactly` without
  them. `Rules` is needed: with an ante `BetsCovered` is false
  (Observations). `CoverInv` follows the bets through the blinds, where the big
  blind must not be the small blind (`BigBlindIsNotSmallBlind`); `MatchInv` says
  that seats that have answered have matched the bet or are all in, and that on
  earlier streets all contenders were matched. `ContestedAwardsArePosts` holds for
  any stacks, blinds and antes with two contenders: an award that several seats
  contend for comes only from the opening, when posts have put them all in, and so
  none of them brought more than an ante and a blind. `AwardInv` bounds what the
  seats have posted at each place of the opening. That the server deals stacks
  equal to the big blind (`table.rs:511`) makes the case real: see Observations.

  Showdown: `EveryChipIsPaid`, `ShowdownsAreFair`, `SidePotsAreCapped`, with two
  contenders or more (a single one who folds against dead hands leaves slices that
  nobody is eligible for: Observations). The model's sums are the cardinalities of
  sets of chips; `build_showdown_pots` cuts the piles of the seats into layers at
  the commitments of those still in, and `resolve_showdown` deals the layers out
  again, so the sum over the layers is the sum over the seats because both count
  the same chips (`CountByParts`). `StakesInv` says who is still in and that they
  have chips in, so that every layer has a winner.
* **`GameTreeProofs`**: `TreeImplementsEngine`, the refinement, assuming
  `MinContenders >= 2`. The initial states are the same; a step of the tree is
  the engine's step of the same name, its `SkipSettled`, its `EndRound`, or a
  stutter. That needs `TreeInv`: a decision is at a seat that has one
  (`NodeHasDecision`), the seats the search has passed are settled (`Passed`),
  so that the engine's loop would have skipped them too, a round is collected
  only when all seats are settled, and two seats are still in whenever the hand
  goes on. With one contender the tree ends a hand that the engine awards
  without betting, which is why the assumption is there; `take_running_snapshot`
  and the trainer never deal such a hand.
* **`SimulationProofs`**: `SeedsArePartitioned`, `ChipsAreTracked`,
  `ReportsAgree`, and `DealersHaveChips` if seat 0 has chips at the start, where
  `run` puts the button without looking (`--stacks` may give it none:
  Observations). `ChipsAreTracked` rests on what `HandEngineProofs` proves of a
  hand with two contenders and says nothing more of a seat alone than that only it
  loses chips. The model sums with the library's folds. `SumIsNet` finds what
  such a fold computes by exhibiting a function that solves its recursion, the
  number of chips in piles less those owed; sums are then compared by induction
  over the subsets of a finite set, in the form of a least counterexample
  (`BySubsets`). So the merged columns of the threads' rows sum to what the
  rows sum to (`RowsAdded`), and a thread's offset has the closed form `Before`, in which
  the intervals of two threads do not meet (`BeforeOrder`) and every hand is in one
  (`SomeThread`). `SimInv` says what a runner's stacks, deltas and list of seeds
  have to do with one another (`Sound`, `Listed`) and that they lose chips only once
  a seat is alone (`NoGains`), how the hands are split
  (`Split`), and that the sink has what its runner has (`Watching`). Scaling keeps
  the order of the counts and takes the sample to the run (`ScaledUp`).
* **`TableActorProofs`**: `TypeCorrect`, `SeatsHeldForTheHand`,
  `NobodySeatedTwice`, `NoSeatIsLeftBehind`. The invariant adds `HandFlag` (the
  flag `leave` reads is set exactly while the actor depends on the seats) and, for
  the sessions: a superseded session can only close, and is in the middle of
  nothing unless its player was overtaken (`SessionOrder`); a seat its player keeps
  has an entry, or a session of the player is between the seat and the entry
  (`SeatsRecorded`); and it is bound to the player's newest session (`SeatsBound`),
  without which the old session's `force_leave` could find itself in it. Players in
  `overtaken` are set apart because for them the statement is false of the code:
  see Observations for the three ways.
* **`PromptLinkProofs`**: `PromptTypeCorrect`, `AnswersAreCurrent`,
  `HoldersArePrompted`. `deliver_action` compares hand ids only: what comes back is
  of this hand whatever the clients do, and for this prompt as long as no prompt of
  the hand is answered twice. That the first answers alone never go astray, over
  takeovers, deadlines and late answers, is the part that needs an argument.
  `PromptInv` says where prompts are: the responder of the current one is in one
  place, a slot or the hands of one takeover (`OneResponder`), the connection that
  holds it was told or is about to be (`HolderKnows`), and, without second answers,
  a connection that still has a copy of a prompt that was answered over another one
  has been replaced in the link for good (`CopiesFollow`, `AnsweredIsOver`).
* **`RegistryProofs`**: `TypeCorrect`, `OnlyTheNewestIsLive`,
  `DriverCanBeRevoked`, `PresenceIsReal`, `InstallsInOrder`, `RecordsAreWhole`.
  The invariant says what `write_tx` protects: the table has it while it writes a
  record (`RecorderHolds`), a connection between commit and install holds the
  lock (`LockHeld`), its row is still live (`CommittedIsLive`), and an entry is
  that of an unrevoked session of its user (`EntryIsSession`).
* **`ReplayFeedProofs`**: `CardsStayPrivate`, `ReplayAlwaysRebuilds`,
  `MyTurnAlwaysShown`. What a result may show depends on
  who folded and on the board, and a replay tells both from the buffer. `FeedInv`
  relates the buffer to what the sink knows: the two differ by the calls that the
  engine thread has still to make (`HandKept`, `HandOver`), and whatever is on its
  way, queued or copied for a replay, is the seat's own (`AllOwn`).
  That a replay is as good as having been there needs a second invariant,
  `ViewInv`. Client and buffer are never equal while messages are under way, so
  `LiveView` compares what the client shows once it has read its queue (`CanRead`)
  with what the buffer rebuilds once the engine thread has made its calls
  (`CanMake`): the two are alike (`Like`) but for the buttons, which the client will
  have by then if the engine waits on it. The buffer starts with the hand's
  start (`Begun`), shows the hand and the prompt of the engine (`KeptView`,
  `Prompting`), and a client that missed nothing holds the seat (`HoldsSeat`). What
  one message does to two alike clients (`StepAlike`) goes to a whole replay by
  counting over its prefixes (`FedAlike`, `FedFromStart`); the fold of the reducer
  over a buffer of any length is found by exhibiting the function that solves its
  recursion (`SweepSolved`, `FedOneMore`).
* **`ClientRuntimeProofs`**: `ViewsAreConnected`, `ViewsAgree`. The latter is about
  what the client has been told, since the server does not tell it everything: a
  bust, or a message dropped by a full queue (Observations). A frame is on its
  way in two queues, the socket and the channel of the handle. `RuntimeInv` is
  about the last frame in them that says where the client is
  (`SocketSays`, `ReportsSay`) and compares it with `lastTold`: moving it from one
  queue to the other, or into the core, keeps what is said last. It also needs that a pump that has ended has
  reported it (`EndIsReported`) and that a half-read frame is still at the head of
  its socket (`FrameInHand`). `process_effects` is a fold; what it does to the two
  effects a transition has at most is found, as above, by exhibiting the function.

Model-checked only: `HandEnds`, `TreeEnds`, `QuorumStartsHand`, `LeaveHonoured`,
`PromptResolves` and `LostIsNoticed` (liveness is out of this prover's reach). Every
invariant and every action property of a passing run is a theorem.

## 6. Observations

Behaviours met while modelling that deviate from a comment, a document or what
one would expect, and are not runs of their own. The first group is stated as a
property of its module, which TLC refutes with the constants given:

* `HandEngine!AwardIsUncontested` with the constants of `HandNoLimit`: when both
  blinds are all in nobody is left to act, and the lower seat takes the pot without
  a showdown, whatever the cards (`engine.rs:82-86`, whose comment speaks of "only
  one player with chips"). The table deals stacks equal to the big blind
  (`table.rs:511`). `ContestedAwardIsPosts` is how far it goes.
* `HandEngine!ActedSeatsCannotRaise` with the constants of `HandNoLimit`: a seat that
  has answered since the last full raise is not offered a raise, as
  `engine.rs:341-342` and `469-470` say, but may push the bet up with `AllIn`.
* `HandEngine!HandEnds` with 2 seats, stacks of 5, button 0 and an ante of 1:
  antes count towards `bet_this_street` and not towards the bet to call, so the
  big blind is never settled and the round does not end (`engine.rs:320`).
* `TableActor!NoBusySpin` with the constants of `TableHands`: a quorum by seats with
  too few stacks makes the actor go round without blocking (`table.rs:378`).
* `TableActor!TakeoverKeepsEntry` with the constants of `TableHands`: a login that
  overtakes an earlier session of the player halfway can leave the seat without its
  entry in `player_table` (against `session.rs:149-151`). It may come (a) between
  the old session's look at `revoked` and its `record_leave`
  (`session.rs:152-155`): the entry of the seat the newer session has taken over is
  removed; (b) between the old session's `sit` and its `record_join`: the newer one
  finds no seat to take over, so the seat is bound to the old connection, and when
  the newer session closes it removes the entry and `force_leave`
  (`table.rs:296-301`) skips the seat; (c) while an earlier takeover is between the
  lookup of the link and its `replace` (`table.rs:198-215`): the link ends with the
  older connection. `NoGhostSeat` is that nothing else does it.
* `PromptLink!RepliesAreCurrent` with the constants of `PromptHandoff`: a prompt that
  is answered a second time, after an `ActionRejected` or a replay has armed the
  buttons again (`core.rs:332-360`), is taken as the answer to the next prompt of
  the same hand, because `connection.rs:106` compares hand ids only
  (`net/PROTOCOL.md:333`: "Stale or duplicate replies are dropped silently by the
  server"; nor silently, see `session.rs:344-348`). `AnswerIsForThisPrompt` is what
  holds.
* `ClientRuntime!PlaceIsTold` with the constants of `ClientSessions`: a player who
  goes bust is not told (`table.rs:609-639`), and a full queue drops a `JoinedTable`
  or `LeftTable` like anything else (`connection.rs:87-91`): the client goes on
  showing a place it is not in.
* `Registry!OneDriver` with 1 user and 3 connections: a resumed session shares
  its id with the connection it replaces, whose late logout removes the new
  entry (`registry.rs:366`; `net/PROTOCOL.md:471`).
* `ClientRuntime!MessagesArrive` with the constants of `ClientSessions`: a send
  that completes while a frame is half read drops the bytes, and the pump waits
  for a frame that never comes (`native.rs:103`, against its own lines 3-6).

Others:

* After `Rejected` the core keeps `connection_open` (`core.rs:251`, against
  `25-28`): the next handshake is sent at once into no connection.
* `Connect` while seated leaves hand and prompt of the connection it gives up in
  the core, under a phase that shows none.
* A replay of a hand arms the buttons again for a prompt that was answered; a
  prompt that timed out leaves them armed; a replay that arrives after the end
  of its hand opens that hand again. The server refuses what is submitted then,
  unless the next prompt of the same hand is pending: that one it answers
  (`connection.rs:106`).
* Replaying what was received live is not idempotent: a `BoardDealt` that comes
  twice adds its cards twice (`core.rs:349`, `net/PROTOCOL.md`).
* `PlayerAllIn` is emitted before the `ActionTaken` it belongs to, not after it
  as `core.rs:448` has it.
* Hole cards are addressed by engine seat and tables are shown by table seat
  (`table.rs:767`): with an empty or sitting-out seat before a player, the client
  does not recognise its own cards. `ReplayFeed` runs with the two equal.
* The key given to `AuthenticateSession` is not persisted, only the one of
  `Welcome`.
* The button of a simulation starts on seat 0 (`sim/mod.rs`), also when
  `--stacks` gives that seat no chips: `Simulation!DealerHasChips` with stacks of
  0, 1, 2 is false for the first hand.
* The `final_stacks` of merged simulation results are those of one thread, and
  the hands of a sampled report are those of seat 0.
* A lone live seat with dead hands: `build_showdown_pots` drops the slices
  nobody is eligible for when there is no pot to add them to
  (`pot_calc.rs:68-70`; `openspec/specs/engine-rules/spec.md:30`). The server
  deals only with two live seats (`MinContenders = 2`).
* Heads-up, the seat after the dealer posts the small blind (`engine.rs:704`),
  not the dealer.
* The pot-limit cap (`engine.rs:481-484`) and its comment differ.
* A shutdown request is only looked at while the actor is parked
  (`table.rs:90`, `475`), and `main` does not wait for it (`main.rs:114-118`): the
  tasks are dropped wherever they are.
* A bust frees the seat and leaves the player's entry of `player_table`
  (`table.rs:613`, `826`): joining is refused as "already seated", leaving as "not
  seated", until the connection closes.
* `departed` is set on a leave and never reset (`connection.rs:123`): a player who
  sits down again on the same connection has every prompt folded.
* A leave asked for while the actor goes round without playing is not honoured
  until a hand is played.
* A prompt that `act` registers on a connection after `reconnect_player` has
  taken its slot is not re-sent (`remote_agent.rs:74`;
  `openspec/specs/server-behavior/spec.md:56`), and a leave between the check of
  `departed` and the registration is waited for until the deadline
  (`remote_agent.rs:61`; `spec.md:119`).
* A handshake that times out after its commit leaves the connection that was
  online with a revoked row: it plays on but cannot resume
  (`session.rs:92`, `registry.rs:238`).
* `replay_end` clears the buffer its comment says is retained
  (`connection.rs:236-247`).
* The game tree with a single contender does not follow the engine (see 5).

## 7. Not modelled, and the plan

Left out for good:

* card evaluation, shuffling and the preflop classes: arithmetic over 7-card
  hands, out of TLC's reach (`HandEngine` takes any ranking of the seats);
* the trainer: floating-point regrets, data sets, and its command-line tools;
* the built-in agents: an agent is any choice at a prompt;
* encoding, SQL, hashing, argument parsing, logging, the printed tables;
* the headless client, a test driver for the client core, and
  `observation_owned` of the tree, a copy for the solver;
* several tables at once: tables share only the manager's map and the registry,
  which `TableActor` and `Registry` have.

What the plan has left:

1. the token bucket of `limits.rs` on a discrete clock, chips of 32 bits;
2. an abstract prompt (asked, answered or folded once) implemented by
   `PromptLink`, and an abstract table (who sits where with how many chips)
   implemented by `TableActor`.
