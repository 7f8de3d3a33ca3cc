----------------------------- MODULE ReplayFeed -----------------------------
(***************************************************************************)
(* What one seat is told of the hands played at its table, and what its    *)
(* client makes of it: the engine thread that fans events out              *)
(* (poker-server/src/table.rs BroadcastSink, remote_agent.rs), the seat's   *)
(* link with its replay buffer (connection.rs SeatLink), the session that   *)
(* serves RequestReplay (session.rs), the takeover of the seat by a new     *)
(* connection (table.rs reconnect_player), the outbound queue, and the      *)
(* client's core (ClientCore).                                              *)
(*                                                                         *)
(* Every link is fed by the same loop, independently of the others: one    *)
(* link, of engine seat Me, is modelled.  The engine thread's calls on it  *)
(* are single steps, since each takes and releases a lock or a queue slot  *)
(* of its own; `todo' holds the calls it still has to make.                *)
(*                                                                         *)
(* Which seat acts, and when the betting of a street is over, is the       *)
(* engine's matter (HandEngine); here any seat that is not folded or all   *)
(* in may.  The wait for an answer, its deadline and the departure of a    *)
(* player are PromptLink's; here the wait ends with the answer or a fold.  *)
(***************************************************************************)
EXTENDS ClientCore, FiniteSets

CONSTANTS N,              \* seats of the hand
          Me,             \* the engine seat the link belongs to
          MySeat,         \* the table seat of the same player
          Actions,        \* the kinds of action the players choose from
          Short,          \* the sets of seats the antes and blinds may put all in
          Capacity,       \* OUTBOUND_CAPACITY
          MaxHands, MaxActs, MaxConns, MaxRequests    \* bounds of the model

Seats == 0 .. N - 1
Conns == 1 .. MaxConns
Table == 1

ASSUME FeedAssumption ==
    /\ N \in Nat \ {0, 1} /\ Me \in Seats /\ MySeat \in TableSeats
    /\ Actions \subseteq {"Fold", "Check", "Call", "Raise", "AllIn"} /\ "Fold" \in Actions
    /\ Short \subseteq SUBSET Seats
    /\ Capacity \in Nat \ {0} /\ MaxConns \in Nat \ {0}

VARIABLES
    \* the engine thread, with the fields of its sink
    stage,      \* where it is in the hand
    hand,       \* the number of the hand
    dealt,      \* seats that have their cards
    allin,      \* seats that are all in
    folded,     \* BroadcastSink.folded
    board,      \* BroadcastSink.board_cards
    acts,       \* actions taken in this hand
    asked,      \* the prompt act() is waiting on
    todo,       \* calls on the link still to make for this event
    \* the link and its connections
    buf,        \* SeatLink.replay
    bound,      \* SeatLink.inner: the connection of the seat
    pending,    \* Connection.pending of each connection
    conn,       \* the newest connection of the player
    out, in,    \* its messages to and from the client
    \* the session of that connection
    session,    \* what it is doing
    lifted,     \* the prompt reconnect_player took off the old connection
    reply,      \* the snapshot it is about to send
    \* the client of that connection
    core,
    requests,   \* RequestReplay messages sent
    clean       \* history: every event of the hand so far has reached the queue, in order

engine == <<stage, hand, dealt, allin, folded, board, acts, asked>>
link   == <<buf, bound, pending>>
wire   == <<out, clean>>
client == <<in, core, requests>>
serving == <<conn, session, lifted, reply>>
vars == <<engine, todo, link, wire, client, serving>>

\* The client when its seat is confirmed.
Joined(key) == OnJoinedTable(OnWelcome(CoreNew(key), Welcome(1)).core, JoinedTable(Table, MySeat))

NoBuffer == [hand |-> 0, events |-> <<>>]

Init ==
    /\ stage = "Idle" /\ hand = 0 /\ dealt = {} /\ allin = {} /\ folded = {} /\ board = 0
    /\ acts = 0 /\ asked = NoMessage /\ todo = <<>>
    /\ buf = NoBuffer /\ bound = 1 /\ pending = [c \in Conns |-> NoMessage]
    /\ conn = 1 /\ out = <<>> /\ in = <<>>
    /\ session = "Reading" /\ lifted = NoMessage /\ reply = NoBuffer
    /\ core = Joined(NoKey) /\ requests = 0 /\ clean = TRUE

-----------------------------------------------------------------------------
(* Calls on the link *)

ReplayBegin(h) == [call |-> "replay_begin", hand |-> h]
ReplayPush(m)  == [call |-> "replay_push", message |-> m]
ReplayEnd      == [call |-> "replay_end"]
SendCurrent(m) == [call |-> "current().try_send", message |-> m]
Register(c, p) == [call |-> "pending", conn |-> c, message |-> p]
SendTo(c, m)   == [call |-> "try_send", conn |-> c, message |-> m]

\* Connection::try_send: a message that finds the queue full is dropped.  Only
\* the newest connection has a client that reads.
TrySend(c, m) ==
    IF c # conn THEN UNCHANGED wire
    ELSE IF Len(out) < Capacity THEN out' = Append(out, m) /\ UNCHANGED clean
    ELSE out' = out /\ clean' = FALSE

\* broadcast_all, send_to.
Fan(e) == LET m == TableEvent(Table, e) IN <<ReplayPush(m), SendCurrent(m)>>

DoBegin ==
    /\ buf' = [hand |-> Head(todo).hand, events |-> <<>>]
    /\ clean' = (bound = conn /\ session = "Reading")
    /\ UNCHANGED <<bound, pending, out>>

DoPush ==
    /\ buf' = IF buf.hand = 0 THEN buf ELSE [buf EXCEPT !.events = Append(@, Head(todo).message)]
    /\ UNCHANGED <<bound, pending, wire>>

DoEnd == buf' = NoBuffer /\ UNCHANGED <<bound, pending, wire>>

DoSendCurrent == TrySend(bound, Head(todo).message) /\ UNCHANGED link

DoRegister ==
    /\ pending' = [pending EXCEPT ![Head(todo).conn] = Head(todo).message]
    /\ UNCHANGED <<buf, bound, wire>>

DoSendTo == TrySend(Head(todo).conn, Head(todo).message) /\ UNCHANGED link

Call ==
    /\ todo # <<>>
    /\ CASE Head(todo).call = "replay_begin" -> DoBegin
         [] Head(todo).call = "replay_push" -> DoPush
         [] Head(todo).call = "replay_end" -> DoEnd
         [] Head(todo).call = "current().try_send" -> DoSendCurrent
         [] Head(todo).call = "pending" -> DoRegister
         [] Head(todo).call = "try_send" -> DoSendTo
    /\ todo' = Tail(todo)
    /\ UNCHANGED <<engine, client, serving>>

-----------------------------------------------------------------------------
(* BroadcastSink.on_event, as the engine calls it, and RemoteAgent.act *)

Contenders == Seats \ folded

Emit(calls) ==
    /\ todo = <<>>
    /\ todo' = calls
    /\ UNCHANGED <<link, wire, client, serving>>

StartHand ==
    /\ stage = "Idle" /\ hand < MaxHands
    /\ hand' = hand + 1 /\ stage' = "Dealing"
    /\ dealt' = {} /\ allin' = {} /\ acts' = 0
    /\ Emit(<<ReplayBegin(hand')>> \o Fan(HandStarted(hand')))
    /\ UNCHANGED <<folded, board, asked>>

\* post_antes, post_blinds: what a seat posts may be all it has.  Seats post in order.
BlindAllIn(s) ==
    /\ stage = "Dealing" /\ dealt = {} /\ \A t \in allin : t < s
    /\ \E short \in Short : allin \union {s} \subseteq short
    /\ allin' = allin \union {s}
    /\ Emit(Fan(PlayerAllIn(hand, s, 0)))
    /\ UNCHANGED <<stage, hand, dealt, folded, board, acts, asked>>

\* Mutated HoleCardsFor: everyone is told everyone's cards.
HoleCardsFor_Everyone(s) == Fan(HoleCardsDealt(hand, s))

\* Mutated HoleCardsFor: the cards are sent, and not kept for a replay.
HoleCardsFor_NotKept(s) ==
    IF s = Me THEN <<SendCurrent(TableEvent(Table, HoleCardsDealt(hand, s)))>> ELSE <<>>

\* Only the owner of the cards is told.
HoleCardsFor(s) == IF s = Me THEN Fan(HoleCardsDealt(hand, s)) ELSE <<>>

DealHoleCards(s) ==
    /\ stage = "Dealing" /\ s = Cardinality(dealt)
    /\ dealt = {} => allin \in Short
    /\ dealt' = dealt \union {s}
    /\ stage' = IF dealt' = Seats THEN "Playing" ELSE stage
    /\ Emit(HoleCardsFor(s))
    /\ UNCHANGED <<hand, allin, folded, board, acts, asked>>

\* A seat acts.  The n-th action of a hand leaves a pot of n and raises to n.
ActionBy(s, action) ==
    /\ acts' = acts + 1
    /\ folded' = IF action = "Fold" THEN folded \union {s} ELSE folded
    /\ allin' = IF action = "AllIn" THEN allin \union {s} ELSE allin
    /\ stage' = "Playing" /\ asked' = NoMessage
    /\ Emit((IF action = "AllIn" THEN Fan(PlayerAllIn(hand, s, acts')) ELSE <<>>)
             \o Fan(ActionTaken(hand, s, action, acts', acts')))
    /\ UNCHANGED <<hand, dealt, board>>

MayAct(s) == s \notin folded \union allin /\ Cardinality(Contenders) > 1 /\ acts < MaxActs

OtherActs(s) ==
    /\ stage = "Playing" /\ s # Me /\ MayAct(s)
    /\ \E action \in Actions : ActionBy(s, action)

\* RemoteAgent::act: the connection is resolved once, at the start.
Act ==
    /\ stage = "Playing" /\ MayAct(Me)
    /\ stage' = "Asked"
    /\ asked' = PromptMessage(Table, hand, Me, acts)
    /\ Emit(<<Register(bound, asked'), SendTo(bound, asked'), ReplayPush(asked')>>)
    /\ UNCHANGED <<hand, dealt, allin, folded, board, acts>>

\* The answer is here: act returns it.
Answered ==
    /\ stage = "Answered"
    /\ \E action \in Actions : ActionBy(Me, action)

\* The deadline passes: act clears the slot of the seat's connection and folds.
Elapsed ==
    /\ stage = "Asked" /\ todo = <<>>
    /\ pending' = [pending EXCEPT ![bound] = NoMessage]
    /\ acts' = acts + 1 /\ folded' = folded \union {Me} /\ stage' = "Playing" /\ asked' = NoMessage
    /\ todo' = Fan(ActionTaken(hand, Me, "Fold", acts', acts'))
    /\ UNCHANGED <<hand, dealt, allin, board, buf, bound, wire, client, serving>>

Cards(n) == IF n = 0 THEN 3 ELSE 1
StreetAfter(n) == IF n = 0 THEN "Flop" ELSE IF n = 3 THEN "Turn" ELSE "River"

\* Every seat is all in before anyone could act: the pot is awarded without a board.
NobodyActs == acts = 0 /\ allin = Seats

DealBoard ==
    /\ stage = "Playing" /\ board < 5 /\ Cardinality(Contenders) > 1 /\ ~ NobodyActs
    /\ board' = board + Cards(board)
    /\ Emit(Fan(BoardDealt(hand, StreetAfter(board), Cards(board))))
    /\ UNCHANGED <<stage, hand, dealt, allin, folded, acts, asked>>

\* Mutated ShownTo: the folded hands are shown at a showdown, too.
ShownTo_Folded(s) ==
    IF board >= 5 /\ Cardinality(Contenders) >= 2 THEN Seats ELSE {s}

\* filtered_hand_end: the seats whose cards the recipient finds in the result.
ShownTo(s) ==
    IF board >= 5 /\ Cardinality(Contenders) >= 2 THEN Contenders \union {s} ELSE {s}

EndHand ==
    /\ stage = "Playing" /\ (board = 5 \/ Cardinality(Contenders) = 1 \/ NobodyActs)
    /\ stage' = "Idle" /\ folded' = {} /\ board' = 0
    /\ Emit(Fan(HandEnded(hand, ShownTo(Me))) \o <<ReplayEnd>>)
    /\ UNCHANGED <<hand, dealt, allin, acts, asked>>

-----------------------------------------------------------------------------
(* The session of the newest connection *)

\* SeatLink::replay_snapshot: nothing, unless this hand is being played.
ReplaySnapshot(h) == IF buf.hand = h THEN buf ELSE NoBuffer

\* handle_request_replay: the snapshot is taken under the buffer's lock, ...
RequestReplay ==
    /\ session = "Reading" /\ in # <<>> /\ Head(in).kind = "RequestReplay"
    /\ in' = Tail(in)
    /\ LET snapshot == ReplaySnapshot(Head(in).hand)
       IN  IF snapshot # NoBuffer
           THEN session' = "Replying" /\ reply' = snapshot /\ UNCHANGED wire
           ELSE TrySend(conn, ActionRejected) /\ UNCHANGED <<session, reply>>
    /\ UNCHANGED <<engine, todo, link, core, requests, conn, lifted>>

\* ... and sent when that lock is no longer held.
SendReplay ==
    /\ session = "Replying"
    /\ session' = "Reading" /\ reply' = NoBuffer
    /\ IF Len(out) < Capacity
       THEN /\ out' = Append(out, ReplayEvents(reply.hand, reply.events))
            /\ clean' = (todo = <<>> /\ bound = conn /\ reply = buf)
       ELSE out' = out /\ clean' = FALSE
    /\ UNCHANGED <<engine, todo, link, client, conn, lifted>>

\* deliver_action; a prompt whose act() has returned has no one to take the answer.
DeliverAction ==
    /\ session = "Reading" /\ in # <<>> /\ Head(in).kind = "SubmitAction"
    /\ in' = Tail(in)
    /\ LET p == pending[conn]
           taken == p # NoMessage /\ p.hand = Head(in).prompt.hand
       IN  /\ pending' = IF taken THEN [pending EXCEPT ![conn] = NoMessage] ELSE pending
           /\ IF taken /\ p = asked /\ stage = "Asked"
              THEN stage' = "Answered" /\ UNCHANGED wire
              ELSE TrySend(conn, ActionRejected) /\ UNCHANGED stage
    /\ UNCHANGED <<hand, dealt, allin, folded, board, acts, asked, todo, buf, bound, core,
                   requests, serving>>

\* A new connection logs in; reconnect_player first tells it its seat, ...
Reconnect ==
    /\ conn < MaxConns /\ session \in {"Reading", "Replying"}
    /\ conn' = conn + 1 /\ session' = "Lifting" /\ reply' = NoBuffer
    /\ out' = <<JoinedTable(Table, MySeat)>> /\ in' = <<>> /\ clean' = FALSE
    /\ core' = OnWelcome(CoreNew(NoKey), Welcome(1)).core
    /\ UNCHANGED <<engine, todo, link, lifted, requests>>

\* ... lifts the prompt off the old connection, ...
LiftPrompt ==
    /\ session = "Lifting"
    /\ session' = "Replacing"
    /\ lifted' = pending[bound] /\ pending' = [pending EXCEPT ![bound] = NoMessage]
    /\ UNCHANGED <<engine, todo, buf, bound, wire, client, conn, reply>>

\* ... replaces it in the link, ...
ReplaceLink ==
    /\ session = "Replacing"
    /\ session' = "Reissuing" /\ bound' = conn
    /\ UNCHANGED <<engine, todo, buf, pending, wire, client, conn, lifted, reply>>

\* ... and issues the prompt again.  Only then the session starts to read.
ReissuePrompt ==
    /\ session = "Reissuing"
    /\ session' = "Reading" /\ lifted' = NoMessage
    /\ IF lifted = NoMessage THEN UNCHANGED <<pending, wire>>
       ELSE pending' = [pending EXCEPT ![conn] = lifted] /\ TrySend(conn, lifted)
    /\ UNCHANGED <<engine, todo, buf, bound, client, conn, reply>>

-----------------------------------------------------------------------------
(* The client *)

Receive ==
    /\ out # <<>>
    /\ core' = HandleInbound(core, Head(out)).core
    /\ out' = Tail(out)
    /\ UNCHANGED <<engine, todo, link, clean, in, requests, serving>>

Submit ==
    /\ OnSubmitAction(core).effects # <<>>
    /\ core' = OnSubmitAction(core).core
    /\ in' = Append(in, Head(OnSubmitAction(core).effects).message)
    /\ UNCHANGED <<engine, todo, link, wire, requests, serving>>

\* A client may ask for the replay of any hand it has heard of, at any time.
Ask(h) ==
    /\ requests < MaxRequests /\ requests' = requests + 1
    /\ in' = Append(in, [kind |-> "RequestReplay", hand |-> h])
    /\ UNCHANGED <<engine, todo, link, wire, core, serving>>

-----------------------------------------------------------------------------

Next ==
    \/ Call \/ StartHand \/ DealBoard \/ Act \/ Answered \/ Elapsed \/ EndHand
    \/ \E s \in Seats : BlindAllIn(s) \/ DealHoleCards(s) \/ OtherActs(s)
    \/ RequestReplay \/ SendReplay \/ DeliverAction
    \/ Reconnect \/ LiftPrompt \/ ReplaceLink \/ ReissuePrompt
    \/ Receive \/ Submit
    \/ \E h \in 1 .. hand : Ask(h)

Spec == Init /\ [][Next]_vars

-----------------------------------------------------------------------------
(* Properties *)

\* What a client shows of a hand, but for the buttons.
Shown(c) == [hand |-> IF c.current_hand = NoHand THEN NoHand
                      ELSE [c.current_hand EXCEPT !.awaiting_action = FALSE],
             prompt |-> c.active_prompt]

\* The client that knows the hand from the replay buffer alone.
Rebuilt == FoldLeft(OnTableMessage, Joined(NoKey), buf.events)

\* A seat's replay buffer is as good as having been there: once the engine thread
\* has made its calls and the client has read its queue, a client that received
\* the hand live, or received a replay while nothing was being fanned out and
\* what followed live, shows the hand that the buffer alone rebuilds: cards,
\* board, pot, folded and all-in seats, bets and prompt.
ReplayRebuilds == clean /\ out = <<>> /\ todo = <<>> => Shown(core) = Shown(Rebuilt)

Submitted == \E i \in DOMAIN in : in[i].kind = "SubmitAction"

\* The engine waits for the player, whose connection holds the prompt, and the
\* messages to the client have been read.
MyTurn ==
    /\ stage = "Asked" /\ todo = <<>> /\ session = "Reading" /\ out = <<>>
    /\ pending[conn] = asked /\ ~Submitted

\* A player the engine waits for has the buttons to answer with, on the prompt
\* that is open, also when a replay brought it.
MyTurnIsShown ==
    clean /\ MyTurn => core.current_hand # NoHand /\ core.current_hand.awaiting_action
                       /\ core.active_prompt = asked

\* The events among a sequence of messages, those inside a replay included.
LiveEvents(messages) ==
    {messages[i].event : i \in {j \in DOMAIN messages : messages[j].kind = "TableEvent"}}
EventsIn(messages) ==
    LiveEvents(messages) \union
        UNION {LiveEvents(messages[i].events) :
                 i \in {j \in DOMAIN messages : messages[j].kind = "ReplayEvents"}}

\* The seats that folded, and the cards on the board, as far as these events tell.
FoldedIn(events) == {e.seat : e \in {f \in events : f.kind = "ActionTaken" /\ f.action = "Fold"}}
BoardIn(events)  == {e.street : e \in {f \in events : f.kind = "BoardDealt"}}

\* No seat learns another's cards before a showdown, live or by a replay: hole
\* cards are the seat's own, and the result shows another seat's cards only if
\* the river was dealt and neither that seat nor all the others had folded; then
\* it shows them all.
CardsPrivate ==
    /\ \A e \in EventsIn(out) \union LiveEvents(buf.events) :
          e.kind = "HoleCardsDealt" => e.seat = Me
    /\ LET events == LiveEvents(buf.events)
           left == Seats \ FoldedIn(events)
       IN  \A e \in events :
              e.kind = "HandEnded" =>
                 e.shown \ {Me} = IF "River" \in BoardIn(events) /\ Cardinality(left) > 1
                                  THEN left \ {Me} ELSE {}

\* A replay comes before the live events that follow it: an event is not sent
\* again after a replay that has it, and a replay has every event of its hand
\* that was sent before it (net/PROTOCOL.md 6.3, "Ordering guarantee").
ReplayPrecedesLive ==
    \A i, j \in DOMAIN out :
        /\ i < j /\ out[i].kind = "ReplayEvents" /\ out[j].kind = "TableEvent" =>
              out[j].event \notin LiveEvents(out[i].events)
        /\ i < j /\ out[i].kind = "TableEvent" /\ out[j].kind = "ReplayEvents"
           /\ out[i].event.hand = out[j].hand =>
              out[i].event \in LiveEvents(out[j].events)

\* A player who took the seat over while the engine waits can answer the prompt
\* that was issued again (net/PROTOCOL.md 6.1, step 4).
ReconnectedCanAct == MyTurn /\ bound = conn => OnSubmitAction(core).effects # <<>>
=============================================================================
