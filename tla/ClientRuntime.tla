---------------------------- MODULE ClientRuntime ----------------------------
(***************************************************************************)
(* The native client around its core                                       *)
(* (crates/poker-client-transport-native/src): the worker loop of           *)
(* runtime.rs, which owns the core and at most one transport handle, and    *)
(* the pump task of native.rs behind every handle, which moves frames       *)
(* between the handle's two channels and the socket.  A pump outlives its   *)
(* handle until it notices that the handle was dropped, so several run at a *)
(* time.  The server at the other end of a connection is what session.rs,   *)
(* connection.rs and table.rs of poker-server do with it, as far as the     *)
(* client can tell.                                                         *)
(*                                                                         *)
(* The loop handles one intent or one inbound event at a time, with all of  *)
(* its effects; it awaits nothing in between but the opening of a socket.   *)
(* The intent channel is a queue that the loop empties before it looks at   *)
(* the transport: issuing an intent and handling it are one step.           *)
(*                                                                         *)
(* A frame is read in two steps, since its bytes may arrive in pieces.      *)
(* read_one is a branch of select!: when the other branch completes first   *)
(* the future is dropped, with the bytes it has already taken off the       *)
(* socket.  The next read then starts in the middle of a frame.             *)
(***************************************************************************)
EXTENDS ClientCore

CONSTANTS MaxConns,     \* sockets opened
          MaxIntents,   \* intents the host issues
          MaxPushes,    \* messages the server sends by itself
          Capacity      \* OUTBOUND_CAPACITY

Conns == 1 .. MaxConns
NoHandle == 0
Table == 1
Seat == 1

ASSUME RuntimeAssumption ==
    /\ MaxConns \in Nat \ {0} /\ MaxIntents \in Nat /\ MaxPushes \in Nat
    /\ Capacity \in Nat \ {0} /\ Seat \in TableSeats

VARIABLES
    core,
    handle,     \* the connection whose handle the loop holds
    opened,     \* sockets opened so far
    stored,     \* the session key on disk
    outbound,   \* TransportHandle.outbound_tx, of each connection
    inbound,    \* TransportHandle.inbound_rx
    pump,       \* where the pump task is
    toServer, toClient,     \* frames in the socket, and in the server's queue before it
    lastTold,   \* history: where the last message in toClient that says so puts the client
    server,     \* what the server takes the connection for
    intents, pushes         \* bounded inputs so far

channels == <<outbound, inbound>>
downstream == <<toClient, lastTold>>
sockets == <<toServer, downstream>>
vars == <<core, handle, opened, stored, channels, pump, sockets, server, intents, pushes>>

\* TransportIn.
Connected  == [kind |-> "Connected"]
Message(m) == [kind |-> "Message", message |-> m]
Lost       == [kind |-> "Lost"]

EndOfFile == [kind |-> "Eof"]

Init ==
    /\ stored \in {NoKey, 1}
    /\ core = CoreNew(stored)                       \* with_transport loads the key
    /\ handle = NoHandle /\ opened = 0
    /\ outbound = [c \in Conns |-> <<>>] /\ inbound = [c \in Conns |-> <<>>]
    /\ pump = [c \in Conns |-> "None"]
    /\ toServer = [c \in Conns |-> <<>>] /\ toClient = [c \in Conns |-> <<>>]
    /\ server = [c \in Conns |-> "None"] /\ lastTold = [c \in Conns |-> "None"]
    /\ intents = 0 /\ pushes = 0

-----------------------------------------------------------------------------
(* process_effects *)

PumpRunning(c) == pump[c] \in {"Idle", "Midframe", "Garbled"}

\* What the effects work on; `up' says whether what they ask of the system, to
\* open a socket or to write a file, succeeds.
Host(c, up) ==
    [core |-> c, handle |-> handle, opened |-> opened, stored |-> stored,
     outbound |-> outbound, inbound |-> inbound, pump |-> pump, server |-> server,
     up |-> up]

\* transport.open: the handle's first event is Connected.  When it fails the
\* core is told that the connection is lost, which has no effect of its own to
\* carry out.
OpenConnection(h) ==
    IF h.up
    THEN LET c == h.opened + 1
         IN  [h EXCEPT !.handle = c, !.opened = c, !.inbound[c] = <<Connected>>,
                       !.pump[c] = "Idle", !.server[c] = "Handshake"]
    ELSE [h EXCEPT !.handle = NoHandle, !.core = OnConnectionLost(h.core).core]

\* handle.send fails when the pump is gone; then Lost is on its way.
SendMessage(h, m) ==
    IF h.handle = NoHandle \/ h.pump[h.handle] = "Done" THEN h
    ELSE [h EXCEPT !.outbound[h.handle] = Append(@, m)]

\* SessionStore::save: written aside and renamed, the new key or the old one is
\* there.  A failure is only logged.
Save(h, key) == IF h.up THEN [h EXCEPT !.stored = key] ELSE h

\* SessionStore::clear
Clear(h) == IF h.up THEN [h EXCEPT !.stored = NoKey] ELSE h

Perform(h, effect) ==
    CASE effect.kind = "OpenConnection" -> OpenConnection(h)
      [] effect.kind = "CloseConnection" -> [h EXCEPT !.handle = NoHandle]
      [] effect.kind = "Send" -> SendMessage(h, effect.message)
      [] effect.kind = "PersistSessionKey" -> Save(h, effect.key)

ProcessEffects(h, effects) == FoldLeft(Perform, h, effects)

\* The loop's state after a step.
Becomes(h) ==
    /\ core' = h.core /\ handle' = h.handle /\ opened' = h.opened /\ stored' = h.stored
    /\ outbound' = h.outbound /\ inbound' = h.inbound /\ pump' = h.pump /\ server' = h.server

-----------------------------------------------------------------------------
(* run_loop: intents of the host *)

Intent(transition, up) ==
    /\ intents < MaxIntents /\ intents' = intents + 1
    /\ Becomes(ProcessEffects(Host(transition.core, up), transition.effects))
    /\ UNCHANGED <<sockets, pushes>>

Connect       == opened < MaxConns /\ \E up \in BOOLEAN : Intent(OnConnect(core), up)
Login         == Intent(OnLogin(core), TRUE)
Resume        == Intent(OnAuthenticateSession(core, 1), TRUE)
Join          == Intent(OnPassThrough(core, JoinTable(Table)), TRUE)
Leave         == Intent(OnPassThrough(core, LeaveTable(Table)), TRUE)
Submit        == Intent(OnSubmitAction(core), TRUE)
Disconnect    == Intent(OnDisconnect(core), TRUE)

\* The host drops the client, whose runtime ends with its pumps, and starts
\* another: the key on disk is what is left.
Restart ==
    /\ intents < MaxIntents /\ intents' = intents + 1
    /\ core' = CoreNew(stored) /\ handle' = NoHandle
    /\ pump' = [c \in Conns |-> IF PumpRunning(c) THEN "Done" ELSE pump[c]]
    /\ toServer' = [c \in Conns |-> IF PumpRunning(c) THEN Append(toServer[c], EndOfFile)
                                    ELSE toServer[c]]
    /\ UNCHANGED <<opened, stored, channels, downstream, server, pushes>>

\* NativeClient::clear_session
ClearSession ==
    /\ intents < MaxIntents /\ intents' = intents + 1
    /\ \E up \in BOOLEAN : Becomes(Clear(Host(core, up)))
    /\ UNCHANGED <<sockets, pushes>>

-----------------------------------------------------------------------------
(* run_loop: events of the transport *)

\* Taken off the channel of the handle, and what it does.
Take(transition) ==
    \E up \in BOOLEAN :
        Becomes(ProcessEffects(
            [Host(transition.core, up) EXCEPT !.inbound[handle] = Tail(@)], transition.effects))

OnLost ==
    LET transition == OnConnectionLost(core)
    IN  Becomes([Host(transition.core, TRUE) EXCEPT !.handle = NoHandle,
                                                    !.inbound[handle] = Tail(@)])

\* A channel that is empty and has lost its pump yields None: the handle is
\* dropped, and the core is not told.
OnNone == Becomes([Host(core, TRUE) EXCEPT !.handle = NoHandle])

Inbound ==
    /\ handle # NoHandle
    /\ IF inbound[handle] = <<>> THEN pump[handle] = "Done" /\ OnNone
       ELSE LET event == Head(inbound[handle])
            IN  CASE event.kind = "Connected" -> Take(OnConnectionOpened(core))
                  [] event.kind = "Message" -> Take(HandleInbound(core, event.message))
                  [] event.kind = "Lost" -> OnLost
    /\ UNCHANGED <<sockets, intents, pushes>>

-----------------------------------------------------------------------------
(* run_pump *)

\* The pump's report is dropped with the channel when the handle is gone.
Reported(c, event) == IF c = handle THEN [inbound EXCEPT ![c] = Append(@, event)] ELSE inbound

LosesConnection(c) ==
    /\ inbound' = Reported(c, Lost)
    /\ pump' = [pump EXCEPT ![c] = "Done"]

\* Mutated AfterSend: the frame whose reading was cut off is forgotten.
AfterSend_Forgets(c) ==
    /\ toClient' = IF pump[c] = "Midframe" THEN [toClient EXCEPT ![c] = Tail(@)] ELSE toClient
    /\ pump' = [pump EXCEPT ![c] = "Idle"]

\* The read that send_one interrupted starts anew, behind the bytes it had.
AfterSend(c) ==
    /\ toClient' = toClient
    /\ pump' = [pump EXCEPT ![c] = IF @ = "Midframe" THEN "Garbled" ELSE @]

\* outbound_rx.recv() yields a message; writing it may fail once the server
\* has closed.
PumpSend(c) ==
    /\ PumpRunning(c) /\ outbound[c] # <<>>
    /\ outbound' = [outbound EXCEPT ![c] = Tail(@)]
    /\ \/ /\ toServer' = [toServer EXCEPT ![c] = Append(@, Head(outbound[c]))]
          /\ AfterSend(c) /\ UNCHANGED inbound
       \/ /\ server[c] = "Closed"
          /\ LosesConnection(c) /\ UNCHANGED sockets
    /\ UNCHANGED <<core, handle, opened, stored, lastTold, server, intents, pushes>>

\* outbound_rx.recv() yields None: the host dropped the handle.
PumpShutdown(c) ==
    /\ PumpRunning(c) /\ outbound[c] = <<>> /\ handle # c
    /\ pump' = [pump EXCEPT ![c] = "Done"]
    /\ toServer' = [toServer EXCEPT ![c] = Append(@, EndOfFile)]
    /\ UNCHANGED <<core, handle, opened, stored, channels, downstream, server, intents, pushes>>

\* read_one: part of a frame has arrived, ...
PumpReadPart(c) ==
    /\ pump[c] = "Idle" /\ toClient[c] # <<>> /\ Head(toClient[c]) # EndOfFile
    /\ pump' = [pump EXCEPT ![c] = "Midframe"]
    /\ UNCHANGED <<core, handle, opened, stored, channels, sockets, server, intents, pushes>>

\* ... and the rest of it.  Without a receiver the pump shuts down.
PumpReadRest(c) ==
    /\ pump[c] = "Midframe"
    /\ toClient' = [toClient EXCEPT ![c] = Tail(@)]
    /\ inbound' = Reported(c, Message(Head(toClient[c])))
    /\ pump' = [pump EXCEPT ![c] = IF c = handle THEN "Idle" ELSE "Done"]
    /\ toServer' = IF c = handle THEN toServer
                   ELSE [toServer EXCEPT ![c] = Append(@, EndOfFile)]
    /\ UNCHANGED <<core, handle, opened, stored, outbound, lastTold, server, intents, pushes>>

\* Mutated PumpEof: only the end of the stream at a frame is noticed.
PumpEof_AtFrame(c) ==
    /\ PumpRunning(c) /\ pump[c] # "Garbled" /\ toClient[c] = <<EndOfFile>>
    /\ LosesConnection(c)
    /\ UNCHANGED <<core, handle, opened, stored, outbound, sockets, server, intents, pushes>>

\* The stream ends: at a frame, or in what a read in the middle of one takes
\* for a frame.
PumpEof(c) ==
    /\ PumpRunning(c) /\ toClient[c] # <<>> /\ Last(toClient[c]) = EndOfFile
    /\ pump[c] = "Garbled" \/ Len(toClient[c]) = 1
    /\ LosesConnection(c)
    /\ UNCHANGED <<core, handle, opened, stored, outbound, sockets, server, intents, pushes>>

\* Bytes from the middle of a frame give a length that is refused or a payload
\* that does not decode; or a length that more bytes have to come for, and the
\* pump waits: that is no step.
PumpGarbled(c) ==
    /\ pump[c] = "Garbled"
    /\ LosesConnection(c)
    /\ UNCHANGED <<core, handle, opened, stored, outbound, sockets, server, intents, pushes>>

-----------------------------------------------------------------------------
(* The server *)

\* What a message says of where the connection is; most say nothing.
Tells(m) ==
    IF m.kind \in {"Welcome", "LeftTable"} THEN "Lobby"
    ELSE IF m.kind = "JoinedTable" THEN "Seated"
    ELSE IF m.kind \in {"Rejected", "Goodbye", "Eof"} THEN "Closed" ELSE "Nothing"

\* Where the messages leave a client that they found at `place'.
Tell(place, messages) ==
    LET telling == {i \in DOMAIN messages : Tells(messages[i]) # "Nothing"}
    IN  IF telling = {} THEN place ELSE Tells(messages[Max(telling)])

\* The queue of the connection, which the writer task empties into the socket.
Reply(c, messages) ==
    /\ toClient' = [toClient EXCEPT ![c] = @ \o messages]
    /\ lastTold' = [lastTold EXCEPT ![c] = Tell(@, messages)]

\* What the queue takes of messages that are sent one by one with try_send: those
\* that find it full are dropped, but how much of it the socket has is not known.
Accepted(c, messages) ==
    {messages} \union
        IF Len(toClient[c]) + Len(messages) <= Capacity THEN {}
        ELSE {SubSeq(messages, i, j) : i \in 1 .. Len(messages), j \in 0 .. Len(messages)}

TrySend(c, messages) == \E accepted \in Accepted(c, messages) : Reply(c, accepted)

Becoming(c, place) == server' = [server EXCEPT ![c] = place]
ServerOnly == UNCHANGED <<core, handle, opened, stored, channels, pump, intents>>

CloseAfter(c, messages) == Reply(c, messages \o <<EndOfFile>>) /\ Becoming(c, "Closed")

\* perform_handshake, the Welcome and the takeover of a seat the player holds, if
\* there is one; its JoinedTable finds nothing but the Welcome in the queue.
\* Anything but a handshake ends the connection.
ServerHandshake(c, m) ==
    IF m.kind # "Handshake" THEN CloseAfter(c, <<>>)
    ELSE \/ Reply(c, <<Welcome(1)>>) /\ Becoming(c, "Lobby")
         \/ Reply(c, <<Welcome(1), JoinedTable(Table, Seat)>>) /\ Becoming(c, "Seated")
         \/ CloseAfter(c, <<Rejected>>)

\* reader_loop.  A second handshake ends the connection.  Joining may be refused
\* (the table is full, the buy-in too small, a seat given up still there, or the
\* entry of a seat lost on an earlier connection); an action that answers the open
\* prompt is taken without a word.
ServerSession(c, m) ==
    \/ m.kind = "Handshake" /\ CloseAfter(c, <<>>)
    \/ m.kind = "Disconnect" /\ CloseAfter(c, <<Goodbye>>)
    \/ /\ m.kind = "JoinTable" /\ server[c] = "Lobby"
       /\ TrySend(c, <<JoinedTable(Table, Seat)>>) /\ Becoming(c, "Seated")
    \/ /\ m.kind = "LeaveTable" /\ server[c] = "Seated"
       /\ TrySend(c, <<LeftTable>>) /\ Becoming(c, "Lobby")
    \/ /\ m.kind \in {"JoinTable", "LeaveTable", "SubmitAction"}
       /\ m.kind = "LeaveTable" => server[c] # "Seated"
       /\ TrySend(c, <<ActionRejected>>) /\ UNCHANGED server
    \/ m.kind = "SubmitAction" /\ UNCHANGED <<downstream, server>>

ServerReads(c) ==
    /\ server[c] \notin {"None", "Closed"} /\ toServer[c] # <<>>
    /\ toServer' = [toServer EXCEPT ![c] = Tail(@)]
    /\ LET m == Head(toServer[c])
       IN  IF m = EndOfFile THEN CloseAfter(c, <<>>)
           ELSE IF server[c] = "Handshake" THEN ServerHandshake(c, m)
           ELSE ServerSession(c, m)
    /\ ServerOnly /\ UNCHANGED pushes

\* A hand starts and the player is prompted.
ServerPrompts(c) ==
    /\ server[c] = "Seated" /\ pushes < MaxPushes /\ pushes' = pushes + 1
    /\ TrySend(c, <<TableEvent(Table, HandStarted(pushes')),
                    PromptMessage(Table, pushes', Seat, 0)>>)
    /\ ServerOnly /\ UNCHANGED <<toServer, server>>

\* apply_hand_result frees the seat of a player without chips, and tells the
\* others only.  The entry in the table manager is left: until the connection
\* closes, joining is refused, and so is leaving.
ServerBusts(c) ==
    /\ server[c] = "Seated" /\ pushes > 0
    /\ Becoming(c, "Busted")
    /\ ServerOnly /\ UNCHANGED <<sockets, pushes>>

\* The session is revoked, or the connection breaks.
ServerCloses(c) ==
    /\ server[c] \notin {"None", "Closed"} /\ pushes < MaxPushes /\ pushes' = pushes + 1
    /\ \/ server[c] # "Handshake" /\ CloseAfter(c, <<Goodbye>>)
       \/ CloseAfter(c, <<>>)
    /\ ServerOnly /\ UNCHANGED toServer

-----------------------------------------------------------------------------

Pump(c) ==
    \/ PumpSend(c) \/ PumpShutdown(c) \/ PumpReadPart(c) \/ PumpReadRest(c)
    \/ PumpEof(c)

Next ==
    \/ Connect \/ Login \/ Resume \/ Join \/ Leave \/ Submit \/ Disconnect
    \/ Restart \/ ClearSession
    \/ Inbound
    \/ \E c \in Conns : Pump(c) \/ PumpGarbled(c)
    \/ \E c \in Conns : ServerReads(c) \/ ServerPrompts(c) \/ ServerBusts(c) \/ ServerCloses(c)

\* The worker thread's runtime polls the loop and every pump again and again;
\* neither the host, nor the server, nor the network has to do anything.
Fairness == WF_vars(Inbound) /\ \A c \in Conns : WF_vars(Pump(c))

Spec == Init /\ [][Next]_vars
FairSpec == Spec /\ Fairness

-----------------------------------------------------------------------------
(* Properties *)

LoggedIn == {"Lobby", "Seated"}

\* A client that shows itself connecting, logged in or seated has a connection:
\* wherever the loop drops the handle the core has been told, or is told in the
\* same step.
SeatedIsConnected == core.phase \in LoggedIn \union {"Connecting"} => handle # NoHandle

\* Nothing is under way from the server to the core.
Quiet(c) == pump[c] = "Idle" /\ toClient[c] = <<>> /\ inbound[c] = <<>>

\* Once everything the server sent has been read, a client that shows itself in
\* the lobby or seated is where the server has told it to be on this connection:
\* what the queue took reaches the core in its order, and nothing comes from a
\* connection given up before.
ViewAgrees ==
    handle # NoHandle /\ Quiet(handle) /\ core.phase \in LoggedIn
        => core.phase = lastTold[handle]

\* Nor does it have to be told more: where it was told to be is where it is.
PlaceIsTold ==
    \A c \in Conns : server[c] # "Handshake" => lastTold[c] = server[c]

\* The loop holds on to a connection that the server has closed.
Stranded == handle # NoHandle /\ server[handle] = "Closed"

\* A connection the server has closed does not stay the client's (sockets are not
\* opened twice): the loop gives it up, and by SeatedIsConnected the view with it.
LostIsNoticed == Stranded ~> ~ Stranded

\* What the server sends reaches the core, unless the connection is lost or
\* given up ("forwards framed messages both ways until either the peer closes
\* or the host drops its TransportHandle", native.rs).
MessagesArrive ==
    \A c \in Conns : (handle = c /\ toClient[c] # <<>>) ~> (handle # c \/ toClient[c] = <<>>)
=============================================================================
