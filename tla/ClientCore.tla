----------------------------- MODULE ClientCore -----------------------------
(***************************************************************************)
(* The client's state machine (crates/poker-client-core/src/core.rs, with  *)
(* view.rs, intent.rs and effect.rs; messages of net/protocol.rs, events   *)
(* of game/event.rs).                                                      *)
(*                                                                         *)
(* ClientCore is synchronous and deterministic: handle_intent and          *)
(* handle_inbound are functions of the core and the input, which return    *)
(* the effects the host has to carry out.  They are operators here; the    *)
(* modules that extend this one keep a core in a variable.                 *)
(*                                                                         *)
(* Left out: log lines, names, statistics, the lists of tables and of the  *)
(* seats' stacks, deadlines (data that is stored and shown, and that no    *)
(* transition reads).  Cards are their number.                             *)
(***************************************************************************)
EXTENDS Integers, Sequences, SequencesExt

CONSTANT TableSeats     \* the seats of the table, as the client numbers them

NoTable == 0
NoSeat == -1
NoKey == 0
NoMessage == [kind |-> "None"]

-----------------------------------------------------------------------------
(* Events and messages *)

\* EngineEvent.  `hand' tells the hands apart, for the hand_id of HandStarted
\* and HandEnded and for the identity of the cards in the others.
HandStarted(hand)          == [kind |-> "HandStarted", hand |-> hand]
HoleCardsDealt(hand, seat) == [kind |-> "HoleCardsDealt", hand |-> hand, seat |-> seat]
BoardDealt(hand, street, n) ==
    [kind |-> "BoardDealt", hand |-> hand, street |-> street, n |-> n]
ActionTaken(hand, seat, action, to, pot_total) ==
    [kind |-> "ActionTaken", hand |-> hand, seat |-> seat, action |-> action,
     to |-> to, pot_total |-> pot_total]
PlayerAllIn(hand, seat, total) ==
    [kind |-> "PlayerAllIn", hand |-> hand, seat |-> seat, total |-> total]
HandEnded(hand, shown) ==           \* shown: the seats whose cards are in it
    [kind |-> "HandEnded", hand |-> hand, shown |-> shown]

\* ServerMessage.
Welcome(key)             == [kind |-> "Welcome", key |-> key]
Rejected                 == [kind |-> "Rejected"]
Goodbye                  == [kind |-> "Goodbye"]
JoinedTable(table, seat) == [kind |-> "JoinedTable", table |-> table, seat |-> seat]
LeftTable                == [kind |-> "LeftTable"]
TableEvent(table, event) == [kind |-> "TableEvent", table |-> table, event |-> event]
PromptMessage(table, hand, seat, legal) ==
    [kind |-> "Prompt", table |-> table, hand |-> hand, seat |-> seat, legal |-> legal]
ActionRejected           == [kind |-> "ActionRejected"]
ReplayEvents(hand, events) == [kind |-> "ReplayEvents", hand |-> hand, events |-> events]

\* ClientMessage.
Handshake(key)         == [kind |-> "Handshake", key |-> key]   \* Register, Authenticate
JoinTable(table)       == [kind |-> "JoinTable", table |-> table]
LeaveTable(table)      == [kind |-> "LeaveTable", table |-> table]
SubmitAction(prompt)   == [kind |-> "SubmitAction", prompt |-> prompt]
DisconnectMessage      == [kind |-> "Disconnect"]

-----------------------------------------------------------------------------
(* The core *)

NoHand == [hand |-> 0]

\* CurrentHand::started.
Started(hand) ==
    [hand |-> hand, street |-> "Preflop", hole_cards |-> FALSE, board |-> 0, pot_total |-> 0,
     folded_seats |-> {}, all_in_seats |-> {}, awaiting_action |-> FALSE,
     bet_this_street |-> [s \in TableSeats |-> 0]]

\* ClientCore, with the fields of its ClientView.
CoreNew(key) ==
    [phase |-> "Disconnected", table |-> NoTable, seat |-> NoSeat, current_hand |-> NoHand,
     rejection |-> FALSE,
     session_key |-> key, connection_open |-> FALSE, pending_handshake |-> NoMessage,
     active_prompt |-> NoMessage]

\* phase := p, for a phase that names no table.
Enter(core, p) == [core EXCEPT !.phase = p, !.table = NoTable, !.seat = NoSeat]

\* reset_to_disconnected, reset_to_ended
ResetTo(phase, core) == [CoreNew(core.session_key) EXCEPT !.phase = phase]

\* A transition: the core after it, and its effects in order.
To(core, effects) == [core |-> core, effects |-> effects]

Open              == [kind |-> "OpenConnection"]
Close             == [kind |-> "CloseConnection"]
Send(message)     == [kind |-> "Send", message |-> message]
Persist(key)      == [kind |-> "PersistSessionKey", key |-> key]

-----------------------------------------------------------------------------
(* handle_intent *)

OnConnect(core) == To(Enter(core, "Connecting"), <<Open>>)

OnConnectionOpened(core) ==
    LET open == [core EXCEPT !.connection_open = TRUE]
    IN  IF core.pending_handshake = NoMessage THEN To(open, <<>>)
        ELSE To([Enter(open, "Authenticating") EXCEPT !.pending_handshake = NoMessage],
                <<Send(core.pending_handshake)>>)

\* queue_or_send_handshake
QueueOrSend(core, message) ==
    IF core.connection_open
    THEN To(Enter(core, "Authenticating"), <<Send(message)>>)
    ELSE To([core EXCEPT !.pending_handshake = message], <<>>)

\* Register and AuthenticatePassword.
OnLogin(core) == QueueOrSend(core, Handshake(NoKey))

OnAuthenticateSession(core, key) ==
    QueueOrSend([core EXCEPT !.session_key = key], Handshake(key))

\* JoinTable, LeaveTable, ListTables and Heartbeat are sent as they are.
OnPassThrough(core, message) == To(core, <<Send(message)>>)

\* handle_submit_action, for an action that is legal in the open prompt.
OnSubmitAction(core) ==
    IF core.current_hand # NoHand /\ core.current_hand.awaiting_action
       /\ core.active_prompt # NoMessage
    THEN To([core EXCEPT !.current_hand.awaiting_action = FALSE],
            <<Send(SubmitAction(core.active_prompt))>>)
    ELSE To(core, <<>>)

OnDisconnect(core) ==
    To(ResetTo("Disconnected", core), <<Send(DisconnectMessage), Close>>)

\* Mutated OnConnectionLost: the view is left as it was.
OnConnectionLost_KeepsView(core) == To([core EXCEPT !.connection_open = FALSE], <<>>)

OnConnectionLost(core) == To(ResetTo("Ended", core), <<>>)

-----------------------------------------------------------------------------
(* project_engine_event *)

MaxBet(hand) ==
    CHOOSE b \in {hand.bet_this_street[s] : s \in TableSeats} :
        \A s \in TableSeats : hand.bet_this_street[s] <= b

\* update_bet; a seat the table does not have is not shown.
UpdateBet(hand, seat, amount) ==
    [hand EXCEPT !.bet_this_street =
        [s \in TableSeats |-> IF s = seat THEN amount ELSE hand.bet_this_street[s]]]

\* Call and Check match the largest bet shown; a raise names its amount; an
\* all-in is left to the PlayerAllIn that follows.
ProjectAction(hand, e) ==
    LET seen == [hand EXCEPT !.pot_total = e.pot_total,
                             !.folded_seats = IF e.action = "Fold" THEN @ \union {e.seat} ELSE @]
    IN  CASE e.action \in {"Check", "Call"} -> UpdateBet(seen, e.seat, MaxBet(hand))
          [] e.action = "Raise" -> UpdateBet(seen, e.seat, e.to)
          [] OTHER -> seen

ProjectBoard(hand, e) ==
    [hand EXCEPT !.street = e.street, !.board = @ + e.n,
                 !.bet_this_street = [s \in TableSeats |-> 0]]

ProjectAllIn(hand, e) ==
    UpdateBet([hand EXCEPT !.all_in_seats = @ \union {e.seat}], e.seat, e.total)

\* The hand an event leaves; HoleCardsDealt counts when it names our seat.
ProjectHand(core, e) ==
    LET hand == core.current_hand
    IN  IF e.kind = "HandStarted" THEN Started(e.hand)
        ELSE IF e.kind = "HandEnded" \/ hand = NoHand THEN NoHand
        ELSE CASE e.kind = "HoleCardsDealt" ->
                    IF e.seat = core.seat THEN [hand EXCEPT !.hole_cards = TRUE] ELSE hand
               [] e.kind = "BoardDealt" -> ProjectBoard(hand, e)
               [] e.kind = "ActionTaken" -> ProjectAction(hand, e)
               [] e.kind = "PlayerAllIn" -> ProjectAllIn(hand, e)

\* Events of another table are ignored; a hand that starts or ends drops the
\* open prompt.
ProjectEngineEvent(core, table, e) ==
    IF core.phase # "Seated" \/ core.table # table THEN core
    ELSE [core EXCEPT
            !.current_hand = ProjectHand(core, e),
            !.active_prompt = IF e.kind \in {"HandStarted", "HandEnded"} THEN NoMessage ELSE @,
            !.rejection = @ /\ e.kind # "HandStarted"]

-----------------------------------------------------------------------------
(* handle_inbound *)

OnWelcome(core, m) ==
    To([Enter(core, "Lobby") EXCEPT !.session_key = m.key], <<Persist(m.key)>>)

\* Unlike the other ends of a connection this one resets nothing else.
OnRejected(core) == To(Enter(core, "Ended"), <<Close>>)

OnGoodbye(core) == To(ResetTo("Ended", core), <<Close>>)

OnJoinedTable(core, m) ==
    [core EXCEPT !.phase = "Seated", !.table = m.table, !.seat = m.seat,
                 !.current_hand = NoHand, !.active_prompt = NoMessage, !.rejection = FALSE]

OnLeftTable(core) ==
    [Enter(core, "Lobby") EXCEPT !.current_hand = NoHand, !.active_prompt = NoMessage]

\* Mutated OnPrompt: the prompt is kept, and no buttons are shown.
OnPrompt_NoButtons(core, m) == [core EXCEPT !.active_prompt = m, !.rejection = FALSE]

\* The prompt is kept; the action buttons are shown in a hand that is shown.
OnPrompt(core, m) ==
    [core EXCEPT !.active_prompt = m,
                 !.current_hand = IF @ = NoHand THEN @ ELSE [@ EXCEPT !.awaiting_action = TRUE],
                 !.rejection = FALSE]

OnActionRejected(core) ==
    [core EXCEPT !.current_hand =
                    IF @ = NoHand \/ core.active_prompt = NoMessage THEN @
                    ELSE [@ EXCEPT !.awaiting_action = TRUE],
                 !.rejection = TRUE]

\* The messages that a seat receives during a hand.
OnTableMessage(core, m) ==
    CASE m.kind = "TableEvent" -> ProjectEngineEvent(core, m.table, m.event)
      [] m.kind = "Prompt" -> OnPrompt(core, m)
      [] m.kind = "JoinedTable" -> OnJoinedTable(core, m)
      [] m.kind = "LeftTable" -> OnLeftTable(core)
      [] m.kind = "ActionRejected" -> OnActionRejected(core)

\* A replay is fed through handle_inbound message by message.
OnReplay(core, m) == FoldLeft(OnTableMessage, core, m.events)

HandleInbound(core, m) ==
    CASE m.kind = "Welcome" -> OnWelcome(core, m)
      [] m.kind = "Rejected" -> OnRejected(core)
      [] m.kind = "Goodbye" -> OnGoodbye(core)
      [] m.kind = "ReplayEvents" -> To(OnReplay(core, m), <<>>)
      [] OTHER -> To(OnTableMessage(core, m), <<>>)
=============================================================================
