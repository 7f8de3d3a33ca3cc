-------------------------- MODULE ReplayFeedProofs --------------------------
(***************************************************************************)
(* No seat learns another's cards: not live, not by a replay, and not from *)
(* the result, for every number of seats, hands, actions, connections and  *)
(* requests, and wherever the replay and the takeover of a seat come in    *)
(* between the calls of the engine thread.                                 *)
(*                                                                         *)
(* What a result may show is a matter of who folded and of the board, and  *)
(* both are told here by the buffer alone.  So the invariant relates the   *)
(* buffer to what the sink knows: the two differ by the calls that the     *)
(* engine thread has still to make.                                        *)
(*                                                                         *)
(* A replay is as good as having been there.  A second invariant relates   *)
(* what the client will show, once it has read its queue, to what the      *)
(* buffer rebuilds, once the engine thread has made its calls: the two are *)
(* alike but for the buttons.  That rests on what the client's handlers do *)
(* to two clients that are alike, which goes from one message to a queue,  *)
(* to a replay and to the calls of the engine thread by counting.          *)
(***************************************************************************)
EXTENDS ReplayFeed, SequenceTheorems, FiniteSetTheorems, WellFoundedInduction, TLAPS

-----------------------------------------------------------------------------
(* The inductive invariant *)

\* The entries of a queue.
Entries(s) == {s[i] : i \in DOMAIN s}
Queue(s) == s \in Seq(Entries(s))

\* A message that is no replay, and that tells of no other seat's hole cards.
Single(m) ==
    /\ m.kind # "ReplayEvents"
    /\ m.kind = "TableEvent" /\ m.event.kind = "HoleCardsDealt" => m.event.seat = Me
Replayed(m) == m.kind = "ReplayEvents" /\ Queue(m.events) /\ \A x \in Entries(m.events) : Single(x)

\* What a message tells of a hand.
Folds(m, s) ==
    m.kind = "TableEvent" /\ m.event.kind = "ActionTaken" /\ m.event.action = "Fold" /\ m.event.seat = s
DealsRiver(m) ==
    m.kind = "TableEvent" /\ m.event.kind = "BoardDealt" /\ m.event.street = "River"
Ends(m) == m.kind = "TableEvent" /\ m.event.kind = "HandEnded"

\* A call that the engine thread makes while a hand is played.
Carries(call) == call.call \in {"replay_push", "current().try_send", "pending", "try_send"}
HandCall(call) == Carries(call) /\ Single(call.message) /\ ~ Ends(call.message)

FeedTypes ==
    /\ Queue(todo) /\ Queue(out) /\ hand \in Nat /\ board \in {0, 3, 4, 5} /\ folded \subseteq Seats
    /\ buf = [hand |-> buf.hand, events |-> buf.events] /\ Queue(buf.events)
    /\ reply = [hand |-> reply.hand, events |-> reply.events] /\ Queue(reply.events)
    /\ bound \in Conns /\ conn \in Conns /\ pending = [c \in Conns |-> pending[c]]
    /\ stage \in {"Idle", "Dealing", "Playing", "Asked", "Answered"}

\* No message on its way, kept for a replay or lifted tells of another seat's cards.
AllOwn ==
    /\ \A m \in Entries(out) : Single(m) \/ Replayed(m)
    /\ \A m \in Entries(buf.events) \union Entries(reply.events) : Single(m)
    /\ Single(lifted) /\ \A c \in Conns : Single(pending[c])

\* The engine's fold of s, and its river, are kept or are about to be.
FoldKept(s) == \E m \in Entries(buf.events) : Folds(m, s)
RiverKept == \E m \in Entries(buf.events) : DealsRiver(m)
FoldIn(calls, s) == \E call \in calls : call.call = "replay_push" /\ Folds(call.message, s)
RiverIn(calls) == \E call \in calls : call.call = "replay_push" /\ DealsRiver(call.message)
FoldDue(s) == FoldIn(Entries(todo), s)
RiverDue == RiverIn(Entries(todo))

\* The first calls of a hand.
Opening ==
    LET m == TableEvent(Table, HandStarted(hand))
    IN  <<ReplayBegin(hand), ReplayPush(m), SendCurrent(m)>>

\* While a hand is played the buffer has, or is about to have, what the engine knows.
HandKept ==
    stage # "Idle" =>
        /\ \/ todo = Opening /\ buf = NoBuffer /\ hand # 0
           \/ buf.hand # 0 /\ \A call \in Entries(todo) : HandCall(call)
        /\ \A m \in Entries(buf.events) : ~ Ends(m)
        /\ \A s \in Seats : s \in folded <=> FoldKept(s) \/ FoldDue(s)
        /\ board = 5 <=> RiverKept \/ RiverDue

\* The cards that a result may show to this seat, by what the buffer tells.
Showing ==
    LET left == {s \in Seats : ~ FoldKept(s)}
    IN  IF RiverKept /\ Cardinality(left) > 1 THEN left \ {Me} ELSE {}

\* The last calls of a hand, with its result m.
Closing(m) == <<ReplayPush(m), SendCurrent(m), ReplayEnd>>

\* The messages in the calls of the engine thread.
Carried == {call.message : call \in {x \in Entries(todo) : Carries(x)}}

\* After the hand its result is pushed and sent, and the buffer emptied.
ResultDue ==
    \E m \in Carried : /\ todo = Closing(m) /\ Ends(m) /\ m.event.shown \ {Me} = Showing
                       /\ \A k \in Entries(buf.events) : ~ Ends(k)
ResultKept ==
    /\ todo = <<ReplayEnd>> \/ \E m \in Carried : todo = <<SendCurrent(m), ReplayEnd>> /\ Ends(m)
    /\ \A k \in Entries(buf.events) : Ends(k) => k.event.shown \ {Me} = Showing
HandOver ==
    stage = "Idle" =>
        /\ folded = {} /\ board = 0
        /\ \/ todo = <<>> /\ buf = NoBuffer
           \/ buf.hand # 0 /\ (ResultDue \/ ResultKept)

FeedInv == FeedTypes /\ AllOwn /\ HandKept /\ HandOver

-----------------------------------------------------------------------------
(* Queues and what is in them *)

\* Short queues.
LEMMA ShortQueues ==
    /\ Queue(<<>>) /\ Entries(<<>>) = {}
    /\ \A a : Queue(<<a>>) /\ Entries(<<a>>) = {a}
    /\ \A a, b : Queue(<<a, b>>) /\ Entries(<<a, b>>) = {a, b}
    /\ \A a, b, c : Queue(<<a, b, c>>) /\ Entries(<<a, b, c>>) = {a, b, c}
BY DEF Queue, Entries

\* One more entry.
LEMMA AppendedQueue ==
    ASSUME NEW s, Queue(s), NEW x
    PROVE  Queue(Append(s, x)) /\ Entries(Append(s, x)) = Entries(s) \union {x}
<1> DEFINE S == Entries(s) \union {x}
           u == Append(s, x)
<1>1. s \in Seq(S) /\ x \in S
    BY DEF Queue
<1>2. DOMAIN s = 1 .. Len(s) /\ Len(s) \in Nat
    BY <1>1
<1>3. Entries(s) = {s[i] : i \in 1 .. Len(s)}
    BY <1>2 DEF Entries
<1> HIDE DEF S
<1>4. /\ u \in Seq(S) /\ DOMAIN u = 1 .. (Len(s) + 1)
      /\ \A i \in 1 .. Len(s) : u[i] = s[i]
      /\ u[Len(s) + 1] = x
    BY <1>1, <1>2
<1> HIDE DEF u
<1>5. Entries(u) = S
    <2>1. \A y \in Entries(u) : y \in S
        BY <1>4 DEF Entries
    <2>2. ASSUME NEW y \in S PROVE y \in Entries(u)
        <3>1. CASE y = x
            BY <1>2, <1>4, <3>1 DEF Entries
        <3>2. CASE y \in Entries(s)
            <4>1. PICK i \in 1 .. Len(s) : y = s[i]
                BY <1>3, <3>2
            <4>2. i \in DOMAIN u /\ u[i] = y
                BY <1>2, <1>4, <4>1
            <4> QED
                BY <4>2 DEF Entries
        <3> QED
            BY <3>1, <3>2 DEF S
    <2> QED
        BY <2>1, <2>2
<1> QED
    BY <1>4, <1>5 DEF Queue, S, u

\* The first entry and the others.
LEMMA ShiftedQueue ==
    ASSUME NEW s, Queue(s), s # <<>>
    PROVE  Queue(Tail(s)) /\ Entries(s) = Entries(Tail(s)) \union {Head(s)}
<1> DEFINE S == Entries(s)
           u == Tail(s)
<1>1. s \in Seq(S)
    BY DEF Queue
<1>2. DOMAIN s = 1 .. Len(s) /\ Len(s) \in Nat \ {0} /\ Head(s) = s[1]
    BY <1>1
<1>3. /\ u \in Seq(S) /\ DOMAIN u = 1 .. (Len(s) - 1)
      /\ \A i \in 1 .. (Len(s) - 1) : u[i] = s[i + 1]
    <2> HIDE DEF S
    <2> QED
        BY <1>1, <1>2
<1> HIDE DEF u
<1>4. ASSUME NEW i \in DOMAIN s PROVE s[i] \in Entries(u) \union {s[1]}
    <2>1. CASE i = 1
        BY <2>1
    <2>2. CASE i # 1
        <3>1. i - 1 \in DOMAIN u /\ u[i - 1] = s[i]
            BY <1>2, <1>3, <2>2
        <3> QED
            BY <3>1 DEF Entries
    <2> QED
        BY <2>1, <2>2
<1>5. ASSUME NEW i \in DOMAIN u PROVE u[i] \in S
    BY <1>2, <1>3 DEF Entries
<1>6. s[1] \in S
    BY <1>2 DEF Entries
<1>7. Entries(s) = Entries(u) \union {s[1]}
    BY <1>4, <1>5, <1>6 DEF Entries
<1>8. Queue(u)
    <2>1. DOMAIN u = 1 .. Len(u) /\ Len(u) \in Nat
        BY <1>3
    <2>2. u = [i \in 1 .. Len(u) |-> u[i]]
        <3> HIDE DEF S
        <3> QED
            BY <1>3
    <2>3. \A i \in 1 .. Len(u) : u[i] \in Entries(u)
        BY <2>1 DEF Entries
    <2>4. u \in [1 .. Len(u) -> Entries(u)]
        BY <2>2, <2>3
    <2> QED
        BY <2>1, <2>4 DEF Queue
<1> QED
    BY <1>2, <1>7, <1>8 DEF u

\* One queue behind another.
LEMMA JoinedQueues ==
    ASSUME NEW s, Queue(s), NEW t, Queue(t)
    PROVE  Queue(s \o t) /\ Entries(s \o t) = Entries(s) \union Entries(t)
<1> DEFINE S == Entries(s) \union Entries(t)
           u == s \o t
<1>1. s \in Seq(S) /\ t \in Seq(S)
    BY DEF Queue
<1>2. DOMAIN s = 1 .. Len(s) /\ Len(s) \in Nat /\ DOMAIN t = 1 .. Len(t) /\ Len(t) \in Nat
    BY <1>1
<1> HIDE DEF S
<1>3. /\ u \in Seq(S) /\ DOMAIN u = 1 .. (Len(s) + Len(t))
      /\ \A i \in 1 .. Len(s) : u[i] = s[i]
      /\ \A i \in 1 .. Len(t) : u[Len(s) + i] = t[i]
    BY <1>1, <1>2
<1> HIDE DEF u
<1>4. Entries(u) = S
    <2>1. \A y \in Entries(u) : y \in S
        BY <1>3 DEF Entries
    <2>2. ASSUME NEW i \in DOMAIN s PROVE s[i] \in Entries(u)
        <3>1. i \in DOMAIN u /\ u[i] = s[i]
            BY <1>2, <1>3
        <3> QED
            BY <3>1 DEF Entries
    <2>3. ASSUME NEW i \in DOMAIN t PROVE t[i] \in Entries(u)
        <3>1. Len(s) + i \in DOMAIN u /\ u[Len(s) + i] = t[i]
            BY <1>2, <1>3
        <3> QED
            BY <3>1 DEF Entries
    <2>4. \A y \in S : y \in Entries(u)
        BY <2>2, <2>3 DEF S, Entries
    <2> QED
        BY <2>1, <2>4
<1> QED
    BY <1>3, <1>4 DEF Queue, S, u

\* The calls for an event and one more, joined.
LEMMA CallsJoined ==
    ASSUME NEW a, NEW b, NEW c
    PROVE  <<a>> \o <<b, c>> = <<a, b, c>> /\ <<a, b>> \o <<c>> = <<a, b, c>>
<1> DEFINE S == {a, b, c}
<1>1. /\ <<a>> \in Seq(S) /\ <<c>> \in Seq(S) /\ <<a, b>> \in Seq(S) /\ <<b, c>> \in Seq(S)
      /\ <<a, b, c>> \in Seq(S)
    OBVIOUS
<1> HIDE DEF S
<1>2. <<a, b>> \o <<c>> = <<a, b, c>>
    <2>1. /\ <<a, b>> \o <<c>> \in Seq(S) /\ Len(<<a, b>> \o <<c>>) = 3
          /\ (<<a, b>> \o <<c>>)[1] = a /\ (<<a, b>> \o <<c>>)[2] = b /\ (<<a, b>> \o <<c>>)[3] = c
        BY <1>1
    <2>2. \A i \in 1 .. 3 : (<<a, b>> \o <<c>>)[i] = <<a, b, c>>[i]
        BY <2>1
    <2> QED
        BY <1>1, <2>1, <2>2, SeqEqual
<1>3. <<a>> \o <<b, c>> = <<a, b, c>>
    <2>1. /\ <<a>> \o <<b, c>> \in Seq(S) /\ Len(<<a>> \o <<b, c>>) = 3
          /\ (<<a>> \o <<b, c>>)[1] = a /\ (<<a>> \o <<b, c>>)[2] = b /\ (<<a>> \o <<b, c>>)[3] = c
        BY <1>1
    <2>2. \A i \in 1 .. 3 : (<<a>> \o <<b, c>>)[i] = <<a, b, c>>[i]
        BY <2>1
    <2> QED
        BY <1>1, <2>1, <2>2, SeqEqual
<1> QED
    BY <1>2, <1>3

-----------------------------------------------------------------------------
(* The messages *)

\* Connection::try_send of a message that tells of no other seat's cards.
LEMMA SentIsOwn ==
    ASSUME Queue(out), \A m \in Entries(out) : Single(m) \/ Replayed(m),
           NEW c, NEW x, Single(x) \/ Replayed(x), TrySend(c, x)
    PROVE  Queue(out') /\ \A m \in Entries(out') : Single(m) \/ Replayed(m)
<1>1. out' = out \/ out' = Append(out, x)
    BY DEF TrySend, wire
<1>2. Queue(Append(out, x)) /\ Entries(Append(out, x)) = Entries(out) \union {x}
    BY AppendedQueue
<1>3. CASE out' = Append(out, x)
    <2>1. Queue(out') /\ Entries(out') = Entries(out) \union {x}
        BY <1>2, <1>3
    <2> QED
        BY <2>1
<1>4. CASE out' = out
    BY <1>4
<1> QED
    BY <1>1, <1>3, <1>4

\* Prompts and refusals tell of no cards.
LEMMA PlainMessages ==
    /\ Single(NoMessage) /\ ~ Ends(NoMessage)
    /\ Single(ActionRejected) /\ Single(JoinedTable(Table, MySeat))
    /\ \A h, n : Single(PromptMessage(Table, h, Me, n)) /\ ~ Ends(PromptMessage(Table, h, Me, n))
BY DEF Single, Ends, NoMessage, ActionRejected, JoinedTable, PromptMessage

\* A step beside the engine thread: what it has done, and has to do, is the same.
LEMMA AsideKeeps ==
    ASSUME FeedInv, UNCHANGED <<todo, buf, hand, folded, board>>,
           stage' = stage \/ (stage = "Asked" /\ stage' = "Answered"),
           FeedTypes', AllOwn'
    PROVE  FeedInv'
<1>1. HandKept'
    BY DEF FeedInv, HandKept, FoldKept, FoldDue, RiverKept, RiverDue, Opening
<1>2. HandOver'
    BY DEF FeedInv, HandOver, ResultDue, ResultKept, Carried, Showing, FoldKept, RiverKept
<1> QED
    BY <1>1, <1>2 DEF FeedInv

\* handle_request_replay, in its two steps.
LEMMA ReplayKeeps ==
    ASSUME FeedInv, RequestReplay \/ SendReplay
    PROVE  FeedInv'
<1> USE DEF FeedInv
<1>1. CASE RequestReplay
    <2>1. UNCHANGED <<todo, buf, hand, folded, board, stage, bound, pending, conn, lifted>>
        BY <1>1 DEF RequestReplay, engine, link
    <2>2. /\ reply' = reply \/ reply' = buf
          /\ Queue(out') /\ \A m \in Entries(out') : Single(m) \/ Replayed(m)
        <3>1. CASE ReplaySnapshot(Head(in).hand) # NoBuffer
            BY <1>1, <3>1 DEF RequestReplay, ReplaySnapshot, wire, FeedTypes, AllOwn
        <3>2. CASE ReplaySnapshot(Head(in).hand) = NoBuffer
            BY <1>1, <3>2, SentIsOwn, PlainMessages DEF RequestReplay, FeedTypes, AllOwn
        <3> QED
            BY <3>1, <3>2
    <2>3. FeedTypes'
        BY <2>1, <2>2 DEF FeedTypes
    <2>4. AllOwn'
        BY <2>1, <2>2 DEF AllOwn
    <2> QED
        BY <2>1, <2>3, <2>4, AsideKeeps
<1>2. CASE SendReplay
    <2>1. /\ UNCHANGED <<todo, buf, hand, folded, board, stage, bound, pending, conn, lifted>>
          /\ reply' = NoBuffer
        BY <1>2 DEF SendReplay, engine, link
    <2>2. Replayed(ReplayEvents(reply.hand, reply.events))
        BY DEF Replayed, ReplayEvents, AllOwn, FeedTypes
    <2>3. Queue(out') /\ \A m \in Entries(out') : Single(m) \/ Replayed(m)
        <3>1. out' = out \/ out' = Append(out, ReplayEvents(reply.hand, reply.events))
            BY <1>2 DEF SendReplay
        <3> DEFINE x == ReplayEvents(reply.hand, reply.events)
        <3>2. Queue(Append(out, x)) /\ Entries(Append(out, x)) = Entries(out) \union {x}
            BY AppendedQueue DEF FeedTypes
        <3>3. Replayed(x)
            BY <2>2
        <3> HIDE DEF x
        <3>4. CASE out' = Append(out, x)
            <4>1. Queue(out') /\ Entries(out') = Entries(out) \union {x}
                BY <3>2, <3>4
            <4> QED
                BY <3>3, <4>1 DEF AllOwn
        <3>5. CASE out' = out
            BY <3>5 DEF FeedTypes, AllOwn
        <3> QED
            BY <3>1, <3>4, <3>5 DEF x
    <2>4. NoBuffer.events = <<>> /\ NoBuffer.hand = 0 /\ NoBuffer = [hand |-> 0, events |-> <<>>]
        BY DEF NoBuffer
    <2>5. FeedTypes'
        BY <2>1, <2>3, <2>4, ShortQueues DEF FeedTypes
    <2>6. AllOwn'
        BY <2>1, <2>3, <2>4, ShortQueues DEF AllOwn
    <2> QED
        BY <2>1, <2>5, <2>6, AsideKeeps
<1> QED
    BY <1>1, <1>2

\* deliver_action, with or without a prompt to answer.
LEMMA DeliverKeeps ==
    ASSUME FeedInv, DeliverAction
    PROVE  FeedInv'
<1> USE DEF FeedInv
<1>1. /\ UNCHANGED <<todo, buf, hand, folded, board, bound, conn, lifted, reply>>
      /\ stage' = stage \/ (stage = "Asked" /\ stage' = "Answered")
      /\ pending' = pending \/ pending' = [pending EXCEPT ![conn] = NoMessage]
    BY DEF DeliverAction, serving
<1>2. out' = out \/ TrySend(conn, ActionRejected)
    BY DEF DeliverAction, wire
<1>3. Queue(out') /\ \A m \in Entries(out') : Single(m) \/ Replayed(m)
    BY <1>2, SentIsOwn, PlainMessages DEF FeedTypes, AllOwn
<1>4. FeedTypes'
    BY <1>1, <1>3 DEF FeedTypes
<1>5. AllOwn'
    BY <1>1, <1>3, PlainMessages DEF AllOwn, FeedTypes
<1> QED
    BY <1>1, <1>4, <1>5, AsideKeeps

\* reconnect_player, step by step.
LEMMA TakeoverKeeps ==
    ASSUME FeedInv, Reconnect \/ LiftPrompt \/ ReplaceLink \/ ReissuePrompt
    PROVE  FeedInv'
<1> USE DEF FeedInv
<1>1. UNCHANGED <<todo, buf, hand, folded, board, stage>>
    BY DEF Reconnect, LiftPrompt, ReplaceLink, ReissuePrompt, engine, link
<1>2. CASE Reconnect
    <2>1. /\ UNCHANGED <<bound, pending, lifted>> /\ reply' = NoBuffer
          /\ conn' \in Conns /\ out' = <<JoinedTable(Table, MySeat)>>
        BY <1>2, FeedAssumption DEF Reconnect, link, FeedTypes, Conns
    <2>2. NoBuffer.events = <<>> /\ NoBuffer.hand = 0 /\ NoBuffer = [hand |-> 0, events |-> <<>>]
        BY DEF NoBuffer
    <2>3. Queue(out') /\ Entries(out') = {JoinedTable(Table, MySeat)}
        BY <2>1, ShortQueues
    <2>4. FeedTypes'
        BY <1>1, <2>1, <2>2, <2>3, ShortQueues DEF FeedTypes
    <2>5. AllOwn'
        BY <1>1, <2>1, <2>2, <2>3, ShortQueues, PlainMessages DEF AllOwn
    <2> QED
        BY <1>1, <2>4, <2>5, AsideKeeps
<1>3. CASE LiftPrompt
    <2>1. /\ UNCHANGED <<bound, conn, out, reply>> /\ lifted' = pending[bound]
          /\ pending' = [pending EXCEPT ![bound] = NoMessage]
        BY <1>3 DEF LiftPrompt, wire
    <2>2. FeedTypes'
        BY <1>1, <2>1 DEF FeedTypes
    <2>3. AllOwn'
        BY <1>1, <2>1, PlainMessages DEF AllOwn, FeedTypes
    <2> QED
        BY <1>1, <2>2, <2>3, AsideKeeps
<1>4. CASE ReplaceLink
    <2>1. UNCHANGED <<conn, out, reply, pending, lifted>> /\ bound' = conn
        BY <1>4 DEF ReplaceLink, wire
    <2>2. FeedTypes' /\ AllOwn'
        BY <1>1, <2>1 DEF FeedTypes, AllOwn
    <2> QED
        BY <1>1, <2>2, AsideKeeps
<1>5. CASE ReissuePrompt
    <2>1. /\ UNCHANGED <<bound, conn, reply>> /\ lifted' = NoMessage
          /\ \/ UNCHANGED <<pending, out>>
             \/ pending' = [pending EXCEPT ![conn] = lifted] /\ TrySend(conn, lifted)
        BY <1>5 DEF ReissuePrompt, wire
    <2>2. Queue(out') /\ \A m \in Entries(out') : Single(m) \/ Replayed(m)
        BY <2>1, SentIsOwn DEF FeedTypes, AllOwn
    <2>3. FeedTypes'
        BY <1>1, <2>1, <2>2 DEF FeedTypes
    <2>4. AllOwn'
        BY <1>1, <2>1, <2>2, PlainMessages DEF AllOwn, FeedTypes
    <2> QED
        BY <1>1, <2>3, <2>4, AsideKeeps
<1> QED
    BY <1>2, <1>3, <1>4, <1>5

\* The client reads, submits and asks.
LEMMA ClientKeeps ==
    ASSUME FeedInv, Receive \/ Submit \/ (\E h \in 1 .. hand : Ask(h))
    PROVE  FeedInv'
<1> USE DEF FeedInv
<1>1. UNCHANGED <<todo, buf, hand, folded, board, stage, bound, pending, conn, lifted, reply>>
    BY DEF Receive, Submit, Ask, engine, link, serving
<1>2. out' = out \/ (out # <<>> /\ out' = Tail(out))
    BY DEF Receive, Submit, Ask, wire
<1>3. Queue(out') /\ \A m \in Entries(out') : Single(m) \/ Replayed(m)
    BY <1>2, ShiftedQueue DEF FeedTypes, AllOwn
<1>4. FeedTypes' /\ AllOwn'
    BY <1>1, <1>3 DEF FeedTypes, AllOwn
<1> QED
    BY <1>1, <1>4, AsideKeeps

-----------------------------------------------------------------------------
(* The engine thread's events *)

\* An event that every seat may be told while the hand is played.
MayBeTold(e) == e.kind # "HandEnded" /\ (e.kind = "HoleCardsDealt" => e.seat = Me)

\* broadcast_all and send_to: into the buffer, then into the queue.
LEMMA FannedOut ==
    ASSUME NEW e, MayBeTold(e)
    PROVE  /\ Queue(Fan(e)) /\ \A call \in Entries(Fan(e)) : HandCall(call)
           /\ \A s : FoldIn(Entries(Fan(e)), s)
                       <=> e.kind = "ActionTaken" /\ e.action = "Fold" /\ e.seat = s
           /\ RiverIn(Entries(Fan(e))) <=> e.kind = "BoardDealt" /\ e.street = "River"
<1> DEFINE m == TableEvent(Table, e)
<1>1. m.kind = "TableEvent" /\ m.event = e
    BY DEF TableEvent
<1>2. Single(m) /\ ~ Ends(m)
    BY <1>1 DEF Single, Ends, MayBeTold
<1> HIDE DEF m
<1>3. /\ ReplayPush(m).call = "replay_push" /\ ReplayPush(m).message = m
      /\ SendCurrent(m).call = "current().try_send" /\ SendCurrent(m).message = m
    BY DEF ReplayPush, SendCurrent
<1>4. Fan(e) = <<ReplayPush(m), SendCurrent(m)>>
    BY DEF Fan, m
<1>5. Queue(Fan(e)) /\ Entries(Fan(e)) = {ReplayPush(m), SendCurrent(m)}
    BY <1>4, ShortQueues
<1>6. \A call \in Entries(Fan(e)) : HandCall(call)
    BY <1>2, <1>3, <1>5 DEF HandCall, Carries
<1>7. \A s : FoldIn(Entries(Fan(e)), s) <=> Folds(m, s)
    BY <1>3, <1>5 DEF FoldIn
<1>8. RiverIn(Entries(Fan(e))) <=> DealsRiver(m)
    BY <1>3, <1>5 DEF RiverIn
<1> QED
    BY <1>1, <1>5, <1>6, <1>7, <1>8 DEF Folds, DealsRiver

\* In the middle of a hand, with no call left to make, the buffer has everything.
LEMMA AllKept ==
    ASSUME FeedInv, todo = <<>>, stage # "Idle"
    PROVE  /\ buf.hand # 0 /\ \A m \in Entries(buf.events) : ~ Ends(m)
           /\ \A s \in Seats : s \in folded <=> FoldKept(s)
           /\ board = 5 <=> RiverKept
<1>1. todo # Opening
    BY DEF Opening
<1>2. \A s : ~ FoldDue(s)
    BY ShortQueues DEF FoldDue, FoldIn
<1>3. ~ RiverDue
    BY ShortQueues DEF RiverDue, RiverIn
<1> QED
    BY <1>1, <1>2, <1>3 DEF FeedInv, HandKept

\* The engine thread emits an event in the middle of a hand.
LEMMA EmitKeeps ==
    ASSUME FeedInv, todo = <<>>, stage # "Idle", stage' \in {"Dealing", "Playing", "Asked"},
           Queue(todo'), \A call \in Entries(todo') : HandCall(call),
           UNCHANGED <<hand, buf, reply, bound, conn, lifted, out>>,
           pending' = pending \/ pending' = [pending EXCEPT ![bound] = NoMessage],
           folded' \subseteq Seats, board' \in {0, 3, 4, 5},
           \A s \in Seats : s \in folded' <=> s \in folded \/ FoldIn(Entries(todo'), s),
           board' = 5 <=> board = 5 \/ RiverIn(Entries(todo'))
    PROVE  FeedInv'
<1>1. FeedTypes'
    BY DEF FeedInv, FeedTypes
<1>2. AllOwn'
    BY PlainMessages DEF FeedInv, FeedTypes, AllOwn
<1>3. HandKept'
    <2>1. /\ buf'.hand # 0 /\ \A m \in Entries(buf'.events) : ~ Ends(m)
          /\ \A s \in Seats : s \in folded <=> FoldKept(s)
          /\ board = 5 <=> RiverKept
        BY AllKept
    <2>2. \A s : FoldKept(s)' <=> FoldKept(s)
        BY DEF FoldKept
    <2>3. RiverKept' <=> RiverKept
        BY DEF RiverKept
    <2> QED
        BY <2>1, <2>2, <2>3 DEF HandKept, FoldDue, RiverDue
<1>4. HandOver'
    BY DEF HandOver
<1> QED
    BY <1>1, <1>2, <1>3, <1>4 DEF FeedInv

\* A hand starts, from an empty buffer.
LEMMA StartKeeps ==
    ASSUME FeedInv, StartHand
    PROVE  FeedInv'
<1>1. /\ todo = <<>> /\ stage = "Idle" /\ stage' = "Dealing" /\ hand' = hand + 1
      /\ UNCHANGED <<folded, board, buf, bound, pending, out, conn, lifted, reply>>
    BY DEF StartHand, Emit, link, wire, serving
<1>2. hand' \in Nat /\ hand' # 0
    BY <1>1 DEF FeedInv, FeedTypes
<1>3. buf = NoBuffer /\ folded = {} /\ board = 0
    <2>1. ~ ResultDue /\ ~ ResultKept
        BY <1>1 DEF ResultDue, ResultKept, Closing
    <2> QED
        BY <1>1, <2>1 DEF FeedInv, HandOver
<1> DEFINE m == TableEvent(Table, HandStarted(hand'))
<1>4. todo' = <<ReplayBegin(hand'), ReplayPush(m), SendCurrent(m)>>
    <2>1. todo' = <<ReplayBegin(hand')>> \o <<ReplayPush(m), SendCurrent(m)>>
        BY DEF StartHand, Emit, Fan
    <2> HIDE DEF m
    <2> DEFINE a == ReplayBegin(hand')
               b == ReplayPush(m)
               c == SendCurrent(m)
    <2> HIDE DEF a, b, c
    <2>2. <<a>> \o <<b, c>> = <<a, b, c>>
        BY CallsJoined
    <2> QED
        BY <2>1, <2>2 DEF a, b, c
<1>5. Queue(todo') /\ Entries(todo') = {ReplayBegin(hand'), ReplayPush(m), SendCurrent(m)}
    BY <1>4, ShortQueues
<1>6. FeedTypes'
    BY <1>1, <1>2, <1>5 DEF FeedInv, FeedTypes
<1>7. AllOwn'
    BY <1>1 DEF FeedInv, AllOwn
<1>8. todo' = Opening'
    BY <1>4 DEF Opening
<1>9. ASSUME NEW s \in Seats PROVE ~ (FoldKept(s)' \/ FoldDue(s)')
    <2>1. ~ FoldKept(s)'
        BY <1>1, <1>3, ShortQueues DEF FoldKept, NoBuffer
    <2>2. ~ Folds(m, s)
        BY DEF Folds, TableEvent, HandStarted
    <2>3. ~ FoldDue(s)'
        <3> HIDE DEF m
        <3> QED
            BY <1>5, <2>2 DEF FoldDue, FoldIn, ReplayBegin, ReplayPush, SendCurrent
    <2> QED
        BY <2>1, <2>3
<1>10. ~ (RiverKept' \/ RiverDue')
    <2>1. ~ RiverKept'
        BY <1>1, <1>3, ShortQueues DEF RiverKept, NoBuffer
    <2>2. ~ DealsRiver(m)
        BY DEF DealsRiver, TableEvent, HandStarted
    <2>3. ~ RiverDue'
        <3> HIDE DEF m
        <3> QED
            BY <1>5, <2>2 DEF RiverDue, RiverIn, ReplayBegin, ReplayPush, SendCurrent
    <2> QED
        BY <2>1, <2>3
<1>11. HandKept'
    <2>1. \A k \in Entries(buf'.events) : ~ Ends(k)
        BY <1>1, <1>3, ShortQueues DEF NoBuffer
    <2> HIDE DEF m
    <2>2. folded' = {} /\ board' = 0 /\ buf' = NoBuffer
        BY <1>1, <1>3
    <2> QED
        BY <1>2, <1>8, <1>9, <1>10, <2>1, <2>2 DEF HandKept
<1>12. HandOver'
    BY <1>1 DEF HandOver
<1> QED
    BY <1>6, <1>7, <1>11, <1>12 DEF FeedInv

\* Blinds put seats all in, the cards are dealt, the board comes, and the player is asked.
LEMMA DealKeeps ==
    ASSUME FeedInv, DealBoard \/ Act \/ (\E s \in Seats : BlindAllIn(s) \/ DealHoleCards(s))
    PROVE  FeedInv'
<1>1. CASE DealBoard
    <2> DEFINE e == BoardDealt(hand, StreetAfter(board), Cards(board))
    <2>1. /\ todo = <<>> /\ todo' = Fan(e) /\ stage = "Playing"
          /\ board < 5 /\ board' = board + Cards(board)
          /\ UNCHANGED <<stage, hand, folded, buf, bound, pending, out, conn, lifted, reply>>
        BY <1>1 DEF DealBoard, Emit, link, wire, serving
    <2>2. MayBeTold(e) /\ e.kind = "BoardDealt" /\ e.street = StreetAfter(board)
        BY DEF MayBeTold, BoardDealt
    <2>3. /\ board' \in {0, 3, 4, 5} /\ board # 5
          /\ board' = 5 <=> StreetAfter(board) = "River"
        BY <2>1 DEF FeedInv, FeedTypes, Cards, StreetAfter
    <2> HIDE DEF e
    <2>4. /\ Queue(Fan(e)) /\ \A call \in Entries(Fan(e)) : HandCall(call)
          /\ \A s : ~ FoldIn(Entries(Fan(e)), s)
          /\ RiverIn(Entries(Fan(e))) <=> StreetAfter(board) = "River"
        BY <2>2, FannedOut
    <2>5. folded \subseteq Seats
        BY DEF FeedInv, FeedTypes
    <2> QED
        BY <2>1, <2>3, <2>4, <2>5, EmitKeeps
<1>2. CASE Act
    <2> DEFINE p == PromptMessage(Table, hand, Me, acts)
    <2>1. /\ todo = <<>> /\ todo' = <<Register(bound, p), SendTo(bound, p), ReplayPush(p)>>
          /\ stage = "Playing" /\ stage' = "Asked"
          /\ UNCHANGED <<hand, folded, board, buf, bound, pending, out, conn, lifted, reply>>
        BY <1>2 DEF Act, Emit, link, wire, serving
    <2>2. Single(p) /\ ~ Ends(p)
        BY PlainMessages
    <2>3. (\A s : ~ Folds(p, s)) /\ ~ DealsRiver(p)
        BY DEF Folds, DealsRiver, PromptMessage
    <2> HIDE DEF p
    <2>4. Queue(todo') /\ Entries(todo') = {Register(bound, p), SendTo(bound, p), ReplayPush(p)}
        BY <2>1, ShortQueues
    <2>5. \A call \in Entries(todo') : HandCall(call) /\ call.message = p
        BY <2>2, <2>4 DEF HandCall, Carries, Register, SendTo, ReplayPush
    <2>6. (\A s : ~ FoldIn(Entries(todo'), s)) /\ ~ RiverIn(Entries(todo'))
        BY <2>3, <2>5 DEF FoldIn, RiverIn
    <2>7. folded \subseteq Seats /\ board \in {0, 3, 4, 5}
        BY DEF FeedInv, FeedTypes
    <2> QED
        BY <2>1, <2>4, <2>5, <2>6, <2>7, EmitKeeps
<1>3. ASSUME NEW s \in Seats, DealHoleCards(s) PROVE FeedInv'
    <2> DEFINE e == HoleCardsDealt(hand, s)
    <2>1. /\ todo = <<>> /\ todo' = HoleCardsFor(s)
          /\ stage = "Dealing" /\ stage' \in {"Dealing", "Playing"}
          /\ UNCHANGED <<hand, folded, board, buf, bound, pending, out, conn, lifted, reply>>
        BY <1>3 DEF DealHoleCards, Emit, link, wire, serving
    <2>2. /\ Queue(todo') /\ \A call \in Entries(todo') : HandCall(call)
          /\ (\A q : ~ FoldIn(Entries(todo'), q)) /\ ~ RiverIn(Entries(todo'))
        <3>1. CASE s = Me
            <4>1. MayBeTold(e) /\ e.kind = "HoleCardsDealt" /\ todo' = Fan(e)
                BY <2>1, <3>1 DEF MayBeTold, HoleCardsDealt, HoleCardsFor
            <4> HIDE DEF e
            <4> QED
                BY <4>1, FannedOut
        <3>2. CASE s # Me
            BY <2>1, <3>2, ShortQueues DEF HoleCardsFor, FoldIn, RiverIn
        <3> QED
            BY <3>1, <3>2
    <2>3. folded \subseteq Seats /\ board \in {0, 3, 4, 5}
        BY DEF FeedInv, FeedTypes
    <2> QED
        BY <2>1, <2>2, <2>3, EmitKeeps
<1>4. ASSUME NEW s \in Seats, BlindAllIn(s) PROVE FeedInv'
    <2> DEFINE e == PlayerAllIn(hand, s, 0)
    <2>1. /\ todo = <<>> /\ todo' = Fan(e) /\ stage = "Dealing"
          /\ UNCHANGED <<stage, hand, folded, board, buf, bound, pending, out, conn, lifted, reply>>
        BY <1>4 DEF BlindAllIn, Emit, link, wire, serving
    <2>2. MayBeTold(e) /\ e.kind = "PlayerAllIn"
        BY DEF MayBeTold, PlayerAllIn
    <2> HIDE DEF e
    <2>3. /\ Queue(Fan(e)) /\ \A call \in Entries(Fan(e)) : HandCall(call)
          /\ \A q : ~ FoldIn(Entries(Fan(e)), q)
          /\ ~ RiverIn(Entries(Fan(e)))
        BY <2>2, FannedOut
    <2>4. folded \subseteq Seats /\ board \in {0, 3, 4, 5}
        BY DEF FeedInv, FeedTypes
    <2> QED
        BY <2>1, <2>3, <2>4, EmitKeeps
<1> QED
    BY <1>1, <1>2, <1>3, <1>4

\* A seat acts, or its time is up.
LEMMA ActionKeeps ==
    ASSUME FeedInv, Answered \/ Elapsed \/ (\E s \in Seats : OtherActs(s))
    PROVE  FeedInv'
<1>1. folded \subseteq Seats /\ board \in {0, 3, 4, 5} /\ Me \in Seats
    BY FeedAssumption DEF FeedInv, FeedTypes
<1>2. ASSUME NEW s \in Seats, NEW action, ActionBy(s, action), stage # "Idle" PROVE FeedInv'
    <2> DEFINE a == PlayerAllIn(hand, s, acts')
               b == ActionTaken(hand, s, action, acts', acts')
               X == IF action = "AllIn" THEN Fan(a) ELSE <<>>
    <2>1. /\ todo = <<>> /\ todo' = X \o Fan(b) /\ stage' = "Playing"
          /\ folded' = IF action = "Fold" THEN folded \union {s} ELSE folded
          /\ UNCHANGED <<hand, board, buf, bound, pending, out, conn, lifted, reply>>
        BY <1>2 DEF ActionBy, Emit, link, wire, serving
    <2>2. MayBeTold(a) /\ a.kind = "PlayerAllIn"
        BY DEF MayBeTold, PlayerAllIn
    <2>3. MayBeTold(b) /\ b.kind = "ActionTaken" /\ b.action = action /\ b.seat = s
        BY DEF MayBeTold, ActionTaken
    <2> HIDE DEF a, b
    <2>4. /\ Queue(X) /\ \A call \in Entries(X) : HandCall(call)
          /\ (\A q : ~ FoldIn(Entries(X), q)) /\ ~ RiverIn(Entries(X))
        <3>1. CASE action = "AllIn"
            BY <2>2, <3>1, FannedOut
        <3>2. CASE action # "AllIn"
            BY <3>2, ShortQueues DEF FoldIn, RiverIn
        <3> QED
            BY <3>1, <3>2
    <2>5. /\ Queue(Fan(b)) /\ \A call \in Entries(Fan(b)) : HandCall(call)
          /\ \A q : FoldIn(Entries(Fan(b)), q) <=> action = "Fold" /\ q = s
          /\ ~ RiverIn(Entries(Fan(b)))
        BY <2>3, FannedOut
    <2> HIDE DEF X
    <2>6. Queue(todo') /\ Entries(todo') = Entries(X) \union Entries(Fan(b))
        BY <2>1, <2>4, <2>5, JoinedQueues
    <2>7. \A call \in Entries(todo') : HandCall(call)
        BY <2>4, <2>5, <2>6
    <2>8. /\ \A q : FoldIn(Entries(todo'), q) <=> action = "Fold" /\ q = s
          /\ ~ RiverIn(Entries(todo'))
        BY <2>4, <2>5, <2>6 DEF FoldIn, RiverIn
    <2>9. /\ folded' \subseteq Seats
          /\ \A q \in Seats : q \in folded' <=> q \in folded \/ FoldIn(Entries(todo'), q)
        BY <1>1, <2>1, <2>8
    <2> QED
        BY <1>1, <1>2, <2>1, <2>6, <2>7, <2>8, <2>9, EmitKeeps
<1>3. CASE Answered
    BY <1>1, <1>2, <1>3 DEF Answered
<1>4. ASSUME NEW s \in Seats, OtherActs(s) PROVE FeedInv'
    BY <1>2, <1>4 DEF OtherActs
<1>5. CASE Elapsed
    <2> DEFINE b == ActionTaken(hand, Me, "Fold", acts', acts')
    <2>1. /\ todo = <<>> /\ todo' = Fan(b) /\ stage = "Asked" /\ stage' = "Playing"
          /\ folded' = folded \union {Me} /\ pending' = [pending EXCEPT ![bound] = NoMessage]
          /\ UNCHANGED <<hand, board, buf, bound, out, conn, lifted, reply>>
        BY <1>5 DEF Elapsed, wire, serving
    <2>2. MayBeTold(b) /\ b.kind = "ActionTaken" /\ b.action = "Fold" /\ b.seat = Me
        BY DEF MayBeTold, ActionTaken
    <2> HIDE DEF b
    <2>3. /\ Queue(Fan(b)) /\ \A call \in Entries(Fan(b)) : HandCall(call)
          /\ \A q : FoldIn(Entries(Fan(b)), q) <=> q = Me
          /\ ~ RiverIn(Entries(Fan(b)))
        BY <2>2, FannedOut
    <2>4. /\ folded' \subseteq Seats
          /\ \A q \in Seats : q \in folded' <=> q \in folded \/ FoldIn(Entries(todo'), q)
        BY <1>1, <2>1, <2>3
    <2> QED
        BY <1>1, <2>1, <2>3, <2>4, EmitKeeps
<1> QED
    BY <1>3, <1>4, <1>5

\* The number of seats still in is a number.
LEMMA SeatsCounted == \A S \in SUBSET Seats : Cardinality(S) \in Nat
<1>1. IsFiniteSet(Seats)
    BY FeedAssumption, FS_Interval DEF Seats
<1> QED
    BY <1>1, FS_Subset, FS_CardinalityType

\* filtered_hand_end: the sink shows what the buffer allows.
LEMMA EndKeeps ==
    ASSUME FeedInv, EndHand
    PROVE  FeedInv'
<1> DEFINE m == TableEvent(Table, HandEnded(hand, ShownTo(Me)))
<1>1. /\ todo = <<>> /\ stage = "Playing" /\ stage' = "Idle" /\ folded' = {} /\ board' = 0
      /\ todo' = <<ReplayPush(m), SendCurrent(m)>> \o <<ReplayEnd>>
      /\ UNCHANGED <<hand, buf, bound, pending, out, conn, lifted, reply>>
    BY DEF EndHand, Emit, Fan, link, wire, serving
<1>2. Ends(m) /\ m.event.shown = ShownTo(Me) /\ Single(m)
    BY DEF Ends, TableEvent, HandEnded, Single
<1>3. /\ buf.hand # 0 /\ \A k \in Entries(buf.events) : ~ Ends(k)
      /\ \A s \in Seats : s \in folded <=> FoldKept(s)
      /\ board = 5 <=> RiverKept
    BY <1>1, AllKept
<1>4. ShownTo(Me) \ {Me} = Showing
    <2>1. {s \in Seats : ~ FoldKept(s)} = Contenders
        BY <1>3 DEF Contenders
    <2>2. Cardinality(Contenders) \in Nat
        BY SeatsCounted DEF Contenders
    <2>3. board >= 5 <=> board = 5
        BY DEF FeedInv, FeedTypes
    <2>4. Showing = IF RiverKept /\ Cardinality(Contenders) > 1 THEN Contenders \ {Me} ELSE {}
        BY <2>1 DEF Showing
    <2>5. Cardinality(Contenders) >= 2 <=> Cardinality(Contenders) > 1
        BY <2>2
    <2>6. ShownTo(Me) = IF RiverKept /\ Cardinality(Contenders) > 1 THEN Contenders \union {Me} ELSE {Me}
        BY <1>3, <2>3, <2>5 DEF ShownTo
    <2> QED
        BY <2>4, <2>6
<1>5. Showing' = Showing
    BY <1>1 DEF Showing, FoldKept, RiverKept
<1> HIDE DEF m
<1>6. todo' = Closing(m)
    <2> DEFINE a == ReplayPush(m)
               b == SendCurrent(m)
               c == ReplayEnd
    <2> HIDE DEF a, b, c
    <2>1. <<a, b>> \o <<c>> = <<a, b, c>>
        BY CallsJoined
    <2> QED
        BY <1>1, <2>1 DEF a, b, c, Closing
<1>7. Queue(todo') /\ Entries(todo') = {ReplayPush(m), SendCurrent(m), ReplayEnd}
    BY <1>6, ShortQueues DEF Closing
<1>8. FeedTypes'
    BY <1>1, <1>7 DEF FeedInv, FeedTypes
<1>9. AllOwn'
    BY <1>1 DEF FeedInv, AllOwn
<1>10. HandKept'
    BY <1>1 DEF HandKept
<1>11. HandOver'
    <2>1. m \in Carried'
        <3>1. ReplayPush(m) \in Entries(todo') /\ Carries(ReplayPush(m)) /\ ReplayPush(m).message = m
            BY <1>7 DEF Carries, ReplayPush
        <3> QED
            BY <3>1 DEF Carried
    <2>2. ResultDue'
        BY <1>1, <1>2, <1>3, <1>4, <1>5, <1>6, <2>1 DEF ResultDue
    <2> QED
        BY <1>1, <1>3, <2>2 DEF HandOver
<1> QED
    BY <1>8, <1>9, <1>10, <1>11 DEF FeedInv

-----------------------------------------------------------------------------
(* The engine thread's calls *)

\* What a call does to the buffer.
Effect(x) ==
    /\ x.call = "replay_begin" => buf' = [hand |-> x.hand, events |-> <<>>]
    /\ x.call = "replay_push"
         => buf'.hand = buf.hand /\ Entries(buf'.events) = Entries(buf.events) \union {x.message}
    /\ x.call = "replay_end" => buf' = NoBuffer
    /\ Carries(x) /\ x.call # "replay_push" => buf' = buf

\* What a call does to the messages: those of a hand, or of its result.
LEMMA CallIsOwn ==
    ASSUME FeedInv, Call,
           Carries(Head(todo)) \/ Head(todo).call \in {"replay_begin", "replay_end"},
           Carries(Head(todo)) => Single(Head(todo).message) /\ (Head(todo).call = "replay_push" => buf.hand # 0)
    PROVE  /\ FeedTypes' /\ AllOwn' /\ todo' = Tail(todo)
           /\ UNCHANGED <<hand, folded, board, stage>> /\ Effect(Head(todo))
<1> DEFINE x == Head(todo)
           Goal == /\ FeedTypes' /\ AllOwn' /\ todo' = Tail(todo)
                   /\ UNCHANGED <<hand, folded, board, stage>> /\ Effect(x)
<1> SUFFICES Goal
    OBVIOUS
<1>1. /\ todo # <<>> /\ todo' = Tail(todo)
      /\ UNCHANGED <<hand, folded, board, stage, conn, lifted, reply>>
      /\ Queue(todo')
    <2>1. /\ todo # <<>> /\ todo' = Tail(todo)
          /\ UNCHANGED <<hand, folded, board, stage, conn, lifted, reply>>
        BY DEF Call, engine, serving
    <2> QED
        BY <2>1, ShiftedQueue DEF FeedInv, FeedTypes
<1>2. x.call \in {"replay_begin", "replay_push", "replay_end", "current().try_send", "pending", "try_send"}
    BY DEF Carries
<1>3. CASE x.call = "replay_begin"
    <2>1. /\ UNCHANGED <<bound, pending, out>>
          /\ buf' = [hand |-> x.hand, events |-> <<>>]
        BY <1>3 DEF Call, DoBegin
    <2>2. FeedTypes' /\ AllOwn'
        BY <1>1, <2>1, ShortQueues DEF FeedInv, FeedTypes, AllOwn
    <2> QED
        BY <1>1, <1>3, <2>1, <2>2 DEF Effect, Carries
<1>4. CASE x.call = "replay_push"
    <2>1. Single(x.message) /\ buf.hand # 0
        BY <1>4 DEF Carries
    <2>2. /\ UNCHANGED <<bound, pending, out>>
          /\ buf' = [buf EXCEPT !.events = Append(@, x.message)]
        BY <1>4, <2>1 DEF Call, DoPush, wire
    <2>3. buf = [hand |-> buf.hand, events |-> buf.events] /\ Queue(buf.events)
        BY DEF FeedInv, FeedTypes
    <2>4. buf' = [hand |-> buf.hand, events |-> Append(buf.events, x.message)]
        BY <2>2, <2>3
    <2>5. /\ Queue(Append(buf.events, x.message))
          /\ Entries(Append(buf.events, x.message)) = Entries(buf.events) \union {x.message}
        BY <2>3, AppendedQueue
    <2> HIDE DEF x
    <2>6. /\ buf'.hand = buf.hand /\ Queue(buf'.events)
          /\ buf' = [hand |-> buf'.hand, events |-> buf'.events]
          /\ Entries(buf'.events) = Entries(buf.events) \union {x.message}
        BY <2>4, <2>5
    <2>7. FeedTypes'
        BY <1>1, <2>2, <2>6 DEF FeedInv, FeedTypes
    <2>8. AllOwn'
        BY <1>1, <2>1, <2>2, <2>6 DEF FeedInv, AllOwn
    <2> QED
        BY <1>1, <1>4, <2>6, <2>7, <2>8 DEF x, Effect
<1>5. CASE x.call = "replay_end"
    <2>1. UNCHANGED <<bound, pending, out>> /\ buf' = NoBuffer
        BY <1>5 DEF Call, DoEnd, wire
    <2>2. NoBuffer = [hand |-> 0, events |-> <<>>] /\ NoBuffer.hand = 0 /\ NoBuffer.events = <<>>
        BY DEF NoBuffer
    <2>3. FeedTypes' /\ AllOwn'
        BY <1>1, <2>1, <2>2, ShortQueues DEF FeedInv, FeedTypes, AllOwn
    <2> QED
        BY <1>1, <1>5, <2>1, <2>3 DEF Effect, Carries
<1>6. CASE x.call \in {"current().try_send", "try_send"}
    <2>1. Single(x.message)
        BY <1>6 DEF Carries
    <2>2. UNCHANGED <<buf, bound, pending>> /\ \E c : TrySend(c, x.message)
        BY <1>6 DEF Call, DoSendCurrent, DoSendTo, link
    <2>3. Queue(out') /\ \A k \in Entries(out') : Single(k) \/ Replayed(k)
        <3> HIDE DEF x
        <3> QED
            BY <2>1, <2>2, SentIsOwn DEF FeedInv, FeedTypes, AllOwn
    <2>4. FeedTypes' /\ AllOwn'
        BY <1>1, <2>2, <2>3 DEF FeedInv, FeedTypes, AllOwn
    <2> QED
        BY <1>1, <1>6, <2>2, <2>4 DEF Effect
<1>7. CASE x.call = "pending"
    <2>1. Single(x.message)
        BY <1>7 DEF Carries
    <2>2. UNCHANGED <<buf, bound, out>> /\ pending' = [pending EXCEPT ![x.conn] = x.message]
        BY <1>7 DEF Call, DoRegister, wire
    <2> HIDE DEF x
    <2>3. pending' = [c \in Conns |-> pending'[c]] /\ \A c \in Conns : Single(pending'[c])
        BY <2>1, <2>2 DEF FeedInv, FeedTypes, AllOwn
    <2>4. FeedTypes' /\ AllOwn'
        BY <1>1, <2>2, <2>3 DEF FeedInv, FeedTypes, AllOwn
    <2> QED
        BY <1>1, <1>7, <2>2, <2>4 DEF x, Effect
<1> HIDE DEF x, Goal
<1> QED
    BY <1>2, <1>3, <1>4, <1>5, <1>6, <1>7

\* A call moves a fold, and the river, from the calls to make into the buffer.
LEMMA CallMoves ==
    ASSUME FeedInv, Call, Carries(Head(todo)), Effect(Head(todo)), todo' = Tail(todo)
    PROVE  /\ \A s \in Seats : FoldKept(s) \/ FoldDue(s) <=> FoldKept(s)' \/ FoldDue(s)'
           /\ RiverKept \/ RiverDue <=> RiverKept' \/ RiverDue'
<1> DEFINE x == Head(todo)
<1>1. Entries(todo) = Entries(todo') \union {x}
    BY ShiftedQueue DEF FeedInv, FeedTypes, Call
<1>2. Carries(x) /\ Effect(x)
    OBVIOUS
<1> HIDE DEF x
<1>3. /\ Entries(buf.events) \subseteq Entries(buf'.events)
      /\ \A m \in Entries(buf'.events) \ Entries(buf.events) : x.call = "replay_push" /\ m = x.message
      /\ x.call = "replay_push" => x.message \in Entries(buf'.events)
    BY <1>2 DEF Effect, Carries
<1>4. ASSUME NEW s \in Seats PROVE FoldKept(s) \/ FoldDue(s) <=> FoldKept(s)' \/ FoldDue(s)'
    <2>1. FoldKept(s) => FoldKept(s)'
        BY <1>3 DEF FoldKept
    <2>2. FoldDue(s) => FoldDue(s)' \/ FoldKept(s)'
        BY <1>1, <1>3 DEF FoldKept, FoldDue, FoldIn
    <2>3. FoldDue(s)' => FoldDue(s)
        BY <1>1 DEF FoldDue, FoldIn
    <2>4. FoldKept(s)' => FoldKept(s) \/ FoldDue(s)
        BY <1>1, <1>3 DEF FoldKept, FoldDue, FoldIn
    <2> QED
        BY <2>1, <2>2, <2>3, <2>4
<1>5. RiverKept \/ RiverDue <=> RiverKept' \/ RiverDue'
    <2>1. RiverKept => RiverKept'
        BY <1>3 DEF RiverKept
    <2>2. RiverDue => RiverDue' \/ RiverKept'
        BY <1>1, <1>3 DEF RiverKept, RiverDue, RiverIn
    <2>3. RiverDue' => RiverDue
        BY <1>1 DEF RiverDue, RiverIn
    <2>4. RiverKept' => RiverKept \/ RiverDue
        BY <1>1, <1>3 DEF RiverKept, RiverDue, RiverIn
    <2> QED
        BY <2>1, <2>2, <2>3, <2>4
<1> QED
    BY <1>4, <1>5

\* replay_begin: the buffer of a new hand.
LEMMA BeginKeeps ==
    ASSUME FeedInv, Call, stage # "Idle", todo = Opening, buf = NoBuffer, hand # 0
    PROVE  FeedInv'
<1> DEFINE m == TableEvent(Table, HandStarted(hand))
<1>1. Head(todo) = ReplayBegin(hand) /\ Tail(todo) = <<ReplayPush(m), SendCurrent(m)>>
    <2> DEFINE a == ReplayBegin(hand)
               b == ReplayPush(m)
               c == SendCurrent(m)
    <2>1. todo = <<a, b, c>>
        BY DEF Opening
    <2> HIDE DEF a, b, c
    <2>2. Head(todo) = a /\ Tail(todo) = <<b, c>>
        BY <2>1
    <2> QED
        BY <2>2 DEF a, b, c
<1>2. Head(todo).call = "replay_begin" /\ Head(todo).hand = hand /\ ~ Carries(Head(todo))
    BY <1>1 DEF ReplayBegin, Carries
<1>3. /\ FeedTypes' /\ AllOwn' /\ todo' = Tail(todo)
      /\ UNCHANGED <<hand, folded, board, stage>> /\ Effect(Head(todo))
    BY <1>2, CallIsOwn
<1>4. buf' = [hand |-> hand, events |-> <<>>]
    BY <1>2, <1>3 DEF Effect
<1>5. buf'.hand # 0 /\ Entries(buf'.events) = {} /\ Entries(buf.events) = {}
    BY <1>4, ShortQueues DEF NoBuffer
<1>6. Single(m) /\ ~ Ends(m)
    BY DEF Single, Ends, TableEvent, HandStarted
<1> HIDE DEF m
<1>7. Entries(todo') = {ReplayPush(m), SendCurrent(m)}
    BY <1>1, <1>3, ShortQueues
<1>8. \A call \in Entries(todo') : HandCall(call)
    BY <1>6, <1>7 DEF HandCall, Carries, ReplayPush, SendCurrent
<1>9. Entries(todo) = Entries(todo') \union {ReplayBegin(hand)}
    BY <1>1, <1>3, ShiftedQueue DEF FeedInv, FeedTypes, Call
<1>10. ASSUME NEW s \in Seats PROVE FoldKept(s) \/ FoldDue(s) <=> FoldKept(s)' \/ FoldDue(s)'
    BY <1>5, <1>9 DEF FoldKept, FoldDue, FoldIn, ReplayBegin
<1>11. RiverKept \/ RiverDue <=> RiverKept' \/ RiverDue'
    BY <1>5, <1>9 DEF RiverKept, RiverDue, RiverIn, ReplayBegin
<1>12. HandKept'
    BY <1>3, <1>5, <1>8, <1>10, <1>11 DEF HandKept, FeedInv
<1>13. HandOver'
    BY <1>3 DEF HandOver
<1> QED
    BY <1>3, <1>12, <1>13 DEF FeedInv

\* The calls of a hand, once its buffer is there.
LEMMA PlayKeeps ==
    ASSUME FeedInv, Call, stage # "Idle", buf.hand # 0, \A call \in Entries(todo) : HandCall(call)
    PROVE  FeedInv'
<1>1. Entries(todo) = Entries(Tail(todo)) \union {Head(todo)}
    BY ShiftedQueue DEF FeedInv, FeedTypes, Call
<1>2. HandCall(Head(todo)) /\ \A call \in Entries(Tail(todo)) : HandCall(call)
    BY <1>1
<1>3. Carries(Head(todo)) /\ Single(Head(todo).message) /\ ~ Ends(Head(todo).message)
    BY <1>2 DEF HandCall
<1>4. /\ FeedTypes' /\ AllOwn' /\ todo' = Tail(todo)
      /\ UNCHANGED <<hand, folded, board, stage>> /\ Effect(Head(todo))
    BY <1>3, CallIsOwn
<1>5. /\ \A s \in Seats : FoldKept(s) \/ FoldDue(s) <=> FoldKept(s)' \/ FoldDue(s)'
      /\ RiverKept \/ RiverDue <=> RiverKept' \/ RiverDue'
    BY <1>3, <1>4, CallMoves
<1>6. buf'.hand # 0 /\ \A m \in Entries(buf'.events) : ~ Ends(m)
    <2>1. \A m \in Entries(buf.events) : ~ Ends(m)
        BY DEF FeedInv, HandKept
    <2> QED
        BY <1>3, <1>4, <2>1 DEF Effect, Carries
<1>7. HandKept'
    BY <1>2, <1>4, <1>5, <1>6 DEF FeedInv, HandKept
<1>8. HandOver'
    BY <1>4 DEF HandOver
<1> QED
    BY <1>4, <1>7, <1>8 DEF FeedInv

\* The result is kept, sent, and the buffer emptied.
LEMMA CloseKeeps ==
    ASSUME FeedInv, Call, stage = "Idle"
    PROVE  FeedInv'
<1>1. buf.hand # 0 /\ (ResultDue \/ ResultKept) /\ folded = {} /\ board = 0
    BY DEF FeedInv, HandOver, Call
<1>2. CASE ResultDue
    <2>1. PICK m : /\ todo = Closing(m) /\ Ends(m) /\ m.event.shown \ {Me} = Showing
                   /\ \A k \in Entries(buf.events) : ~ Ends(k)
        BY <1>2 DEF ResultDue
    <2>2. Head(todo) = ReplayPush(m) /\ Tail(todo) = <<SendCurrent(m), ReplayEnd>>
        <3> DEFINE a == ReplayPush(m)
                   b == SendCurrent(m)
                   c == ReplayEnd
        <3>1. todo = <<a, b, c>>
            BY <2>1 DEF Closing
        <3> HIDE DEF a, b, c
        <3>2. Head(todo) = a /\ Tail(todo) = <<b, c>>
            BY <3>1
        <3> QED
            BY <3>2 DEF a, b, c
    <2>3. Head(todo).call = "replay_push" /\ Head(todo).message = m /\ Carries(Head(todo))
        BY <2>2 DEF ReplayPush, Carries
    <2>4. Single(m) /\ (\A s : ~ Folds(m, s)) /\ ~ DealsRiver(m)
        BY <2>1 DEF Single, Ends, Folds, DealsRiver
    <2>5. /\ FeedTypes' /\ AllOwn' /\ todo' = Tail(todo)
          /\ UNCHANGED <<hand, folded, board, stage>> /\ Effect(Head(todo))
        BY <1>1, <2>3, <2>4, CallIsOwn
    <2>6. buf'.hand = buf.hand /\ Entries(buf'.events) = Entries(buf.events) \union {m}
        BY <2>3, <2>5 DEF Effect
    <2>7. Showing' = Showing
        <3>1. \A s : FoldKept(s)' <=> FoldKept(s)
            BY <2>4, <2>6 DEF FoldKept
        <3>2. RiverKept' <=> RiverKept
            BY <2>4, <2>6 DEF RiverKept
        <3>3. {s \in Seats : ~ FoldKept(s)'} = {s \in Seats : ~ FoldKept(s)}
            BY <3>1
        <3> QED
            BY <3>2, <3>3 DEF Showing
    <2>8. m \in Carried'
        <3>1. Entries(todo') = {SendCurrent(m), ReplayEnd}
            BY <2>2, <2>5, ShortQueues
        <3>2. SendCurrent(m) \in Entries(todo') /\ Carries(SendCurrent(m)) /\ SendCurrent(m).message = m
            BY <3>1 DEF Carries, SendCurrent
        <3> QED
            BY <3>2 DEF Carried
    <2>9. \A k \in Entries(buf'.events) : Ends(k) => k.event.shown \ {Me} = Showing'
        BY <2>1, <2>6, <2>7
    <2>10. todo' = <<SendCurrent(m), ReplayEnd>> /\ Ends(m)
        BY <2>1, <2>2, <2>5
    <2>11. ResultKept'
        BY <2>8, <2>9, <2>10 DEF ResultKept
    <2>12. HandOver' /\ HandKept'
        BY <1>1, <2>5, <2>6, <2>11 DEF HandOver, HandKept
    <2> QED
        BY <2>5, <2>12 DEF FeedInv
<1>3. CASE ResultKept /\ todo = <<ReplayEnd>>
    <2>1. Head(todo) = ReplayEnd /\ Tail(todo) = <<>>
        BY <1>3
    <2>2. Head(todo).call = "replay_end" /\ ~ Carries(Head(todo))
        BY <2>1 DEF ReplayEnd, Carries
    <2>3. /\ FeedTypes' /\ AllOwn' /\ todo' = Tail(todo)
          /\ UNCHANGED <<hand, folded, board, stage>> /\ Effect(Head(todo))
        BY <2>2, CallIsOwn
    <2>4. buf' = NoBuffer /\ todo' = <<>>
        BY <2>1, <2>2, <2>3 DEF Effect
    <2>5. HandOver' /\ HandKept'
        BY <1>1, <2>3, <2>4 DEF HandOver, HandKept
    <2> QED
        BY <2>3, <2>5 DEF FeedInv
<1>4. CASE ResultKept /\ todo # <<ReplayEnd>>
    <2>1. PICK m : todo = <<SendCurrent(m), ReplayEnd>> /\ Ends(m)
        BY <1>4 DEF ResultKept
    <2>2. Head(todo) = SendCurrent(m) /\ Tail(todo) = <<ReplayEnd>>
        BY <2>1
    <2>3. /\ Head(todo).call = "current().try_send" /\ Head(todo).message = m /\ Carries(Head(todo))
          /\ Single(m)
        BY <2>1, <2>2 DEF SendCurrent, Carries, Single, Ends
    <2>4. /\ FeedTypes' /\ AllOwn' /\ todo' = Tail(todo)
          /\ UNCHANGED <<hand, folded, board, stage>> /\ Effect(Head(todo))
        BY <2>3, CallIsOwn
    <2>5. buf' = buf /\ todo' = <<ReplayEnd>>
        BY <2>2, <2>3, <2>4 DEF Effect
    <2>6. Showing' = Showing
        BY <2>5 DEF Showing, FoldKept, RiverKept
    <2>7. ResultKept'
        BY <1>4, <2>5, <2>6 DEF ResultKept
    <2>8. HandOver' /\ HandKept'
        BY <1>1, <2>4, <2>5, <2>7 DEF HandOver, HandKept
    <2> QED
        BY <2>4, <2>8 DEF FeedInv
<1> QED
    BY <1>1, <1>2, <1>3, <1>4

-----------------------------------------------------------------------------
(* The theorems *)

\* A link with nothing in its buffer and no call to make.
LEMMA FeedInit == Init => FeedInv
<1> SUFFICES ASSUME Init PROVE FeedInv
    OBVIOUS
<1>1. /\ stage = "Idle" /\ hand = 0 /\ folded = {} /\ board = 0 /\ todo = <<>>
      /\ buf = NoBuffer /\ bound = 1 /\ pending = [c \in Conns |-> NoMessage]
      /\ conn = 1 /\ out = <<>> /\ lifted = NoMessage /\ reply = NoBuffer
    BY DEF Init
<1>2. NoBuffer.events = <<>> /\ NoBuffer.hand = 0 /\ NoBuffer = [hand |-> 0, events |-> <<>>]
    BY DEF NoBuffer
<1>3. 1 \in Conns
    BY FeedAssumption DEF Conns
<1>4. \A c \in Conns : pending[c] = NoMessage
    BY <1>1
<1>5. pending = [c \in Conns |-> pending[c]]
    BY <1>1
<1>6. FeedTypes
    BY <1>1, <1>2, <1>3, <1>5, ShortQueues DEF FeedTypes
<1>7. AllOwn
    BY <1>1, <1>2, <1>4, ShortQueues, PlainMessages DEF AllOwn
<1>8. HandKept /\ HandOver
    BY <1>1 DEF HandKept, HandOver
<1> QED
    BY <1>6, <1>7, <1>8 DEF FeedInv

\* Every step keeps the invariant.
LEMMA FeedStep ==
    ASSUME FeedInv, [Next]_vars
    PROVE  FeedInv'
<1>1. CASE Call
    BY <1>1, BeginKeeps, PlayKeeps, CloseKeeps DEF FeedInv, HandKept
<1>2. CASE UNCHANGED vars
    <2>1. UNCHANGED <<todo, buf, hand, folded, board, stage, bound, pending, conn, lifted, reply, out>>
        BY <1>2 DEF vars, engine, link, wire, serving
    <2>2. FeedTypes' /\ AllOwn'
        BY <2>1 DEF FeedInv, FeedTypes, AllOwn
    <2> QED
        BY <2>1, <2>2, AsideKeeps
<1> QED
    BY <1>1, <1>2, StartKeeps, DealKeeps, ActionKeeps, EndKeeps, ReplayKeeps, DeliverKeeps,
       TakeoverKeeps, ClientKeeps DEF Next

\* SeatLink, its buffer and BroadcastSink: the buffer and the sink differ by the
\* calls that the engine thread has still to make, whatever the session does.
THEOREM FeedInvariance == Spec => []FeedInv
<1>1. FeedInv /\ [Next]_vars => FeedInv'
    BY FeedStep
<1> QED
    BY FeedInit, <1>1, PTL DEF Spec

\* The events that a message has for the client.
LEMMA OwnEvents ==
    ASSUME FeedInv, NEW e \in EventsIn(out) \union LiveEvents(buf.events), e.kind = "HoleCardsDealt"
    PROVE  e.seat = Me
<1>1. ASSUME NEW s, \A m \in Entries(s) : Single(m), e \in LiveEvents(s) PROVE e.seat = Me
    <2>1. PICK i \in DOMAIN s : s[i].kind = "TableEvent" /\ e = s[i].event
        BY <1>1 DEF LiveEvents
    <2>2. Single(s[i])
        BY <1>1 DEF Entries
    <2> QED
        BY <2>1, <2>2 DEF Single
<1>2. CASE e \in LiveEvents(buf.events)
    BY <1>1, <1>2 DEF FeedInv, AllOwn
<1>3. CASE e \in LiveEvents(out)
    <2>1. PICK i \in DOMAIN out : out[i].kind = "TableEvent" /\ e = out[i].event
        BY <1>3 DEF LiveEvents
    <2>2. Single(out[i])
        BY <2>1 DEF FeedInv, AllOwn, Entries, Replayed
    <2> QED
        BY <2>1, <2>2 DEF Single
<1>4. CASE \E i \in DOMAIN out : out[i].kind = "ReplayEvents" /\ e \in LiveEvents(out[i].events)
    <2>1. PICK i \in DOMAIN out : out[i].kind = "ReplayEvents" /\ e \in LiveEvents(out[i].events)
        BY <1>4
    <2>2. Replayed(out[i])
        BY <2>1 DEF FeedInv, AllOwn, Entries, Single
    <2> QED
        BY <1>1, <2>1, <2>2 DEF Replayed
<1> QED
    BY <1>2, <1>3, <1>4 DEF EventsIn

\* What the result shows.
LEMMA FairResult ==
    ASSUME FeedInv, NEW e \in LiveEvents(buf.events), e.kind = "HandEnded"
    PROVE  e.shown \ {Me} = Showing
<1>1. PICK i \in DOMAIN buf.events : buf.events[i].kind = "TableEvent" /\ e = buf.events[i].event
    BY DEF LiveEvents
<1> DEFINE k == buf.events[i]
<1>2. k \in Entries(buf.events) /\ Ends(k) /\ k.event = e
    BY <1>1 DEF Entries, Ends
<1> HIDE DEF k
<1>3. stage = "Idle"
    BY <1>2 DEF FeedInv, HandKept
<1>4. buf # NoBuffer
    BY <1>2, ShortQueues DEF NoBuffer
<1>5. ResultKept
    BY <1>2, <1>3, <1>4 DEF FeedInv, HandOver, ResultDue
<1> QED
    BY <1>2, <1>5 DEF ResultKept

\* No seat learns another's cards before a showdown, live or by a replay:
\* whatever a client asks for and whenever its seat is taken over.
THEOREM CardsStayPrivate == Spec => []CardsPrivate
<1>1. ASSUME FeedInv PROVE CardsPrivate
    <2> DEFINE events == LiveEvents(buf.events)
    <2>1. \A e \in EventsIn(out) \union events : e.kind = "HoleCardsDealt" => e.seat = Me
        BY <1>1, OwnEvents
    <2>2. \A e \in events : e.kind = "HandEnded" => e.shown \ {Me} = Showing
        BY <1>1, FairResult
    <2>3. Seats \ FoldedIn(events) = {s \in Seats : ~ FoldKept(s)}
        <3>1. ASSUME NEW s \in Seats, s \in FoldedIn(events) PROVE FoldKept(s)
            <4>1. PICK e \in events : e.kind = "ActionTaken" /\ e.action = "Fold" /\ e.seat = s
                BY <3>1 DEF FoldedIn
            <4>2. PICK i \in DOMAIN buf.events : buf.events[i].kind = "TableEvent" /\ e = buf.events[i].event
                BY DEF LiveEvents
            <4> QED
                BY <4>1, <4>2 DEF FoldKept, Folds, Entries
        <3>2. ASSUME NEW s \in Seats, FoldKept(s) PROVE s \in FoldedIn(events)
            <4>1. PICK i \in DOMAIN buf.events : Folds(buf.events[i], s)
                BY <3>2 DEF FoldKept, Entries
            <4>2. buf.events[i].event \in events
                BY <4>1 DEF LiveEvents, Folds
            <4> HIDE DEF events
            <4> QED
                BY <4>1, <4>2 DEF FoldedIn, Folds
        <3> HIDE DEF events
        <3> QED
            BY <3>1, <3>2
    <2>4. "River" \in BoardIn(events) <=> RiverKept
        <3>1. ASSUME "River" \in BoardIn(events) PROVE RiverKept
            <4>1. PICK e \in events : e.kind = "BoardDealt" /\ e.street = "River"
                BY <3>1 DEF BoardIn
            <4>2. PICK i \in DOMAIN buf.events : buf.events[i].kind = "TableEvent" /\ e = buf.events[i].event
                BY DEF LiveEvents
            <4> QED
                BY <4>1, <4>2 DEF RiverKept, DealsRiver, Entries
        <3>2. ASSUME RiverKept PROVE "River" \in BoardIn(events)
            <4>1. PICK i \in DOMAIN buf.events : DealsRiver(buf.events[i])
                BY <3>2 DEF RiverKept, Entries
            <4>2. buf.events[i].event \in events
                BY <4>1 DEF LiveEvents, DealsRiver
            <4> HIDE DEF events
            <4> QED
                BY <4>1, <4>2 DEF BoardIn, DealsRiver
        <3> QED
            BY <3>1, <3>2
    <2> HIDE DEF events
    <2> QED
        BY <2>1, <2>2, <2>3, <2>4 DEF CardsPrivate, Showing, events
<1> QED
    BY FeedInvariance, <1>1, PTL

-----------------------------------------------------------------------------
(* Messages fed through handle_inbound one after the other *)

\* A non-empty set of naturals has a least element.
LEMMA LeastNatural ==
    ASSUME NEW T, T \subseteq Nat, T # {}
    PROVE  \E x \in T : \A y \in T : x <= y
<1>1. PICK x \in T : \A y \in T : ~ (<<y, x>> \in OpToRel(<, Nat))
    BY NatLessThanWellFounded, WFMin
<1>2. \A y \in T : ~ (y < x)
    BY <1>1 DEF OpToRel
<1> QED
    BY <1>2

\* A set that holds 0, and with each number the next, holds them all up to n.
LEMMA ByCounting ==
    ASSUME NEW n \in Nat, NEW G, 0 \in G, \A i \in 0 .. n : i \in G /\ i < n => i + 1 \in G
    PROVE  \A i \in 0 .. n : i \in G
<1> DEFINE B == {i \in 0 .. n : i \notin G}
<1> SUFFICES ASSUME B # {} PROVE FALSE
    OBVIOUS
<1>0. B \subseteq Nat
    OBVIOUS
<1>1. PICK i \in B : \A j \in B : i <= j
    <2> HIDE DEF B
    <2> QED
        BY <1>0, LeastNatural
<1>2. i # 0 /\ i - 1 \in 0 .. n /\ i - 1 \notin B
    BY <1>1
<1>3. i - 1 \in G /\ i - 1 < n
    BY <1>1, <1>2
<1> QED
    BY <1>1, <1>2, <1>3

\* One round of the recursion behind FoldLeft, over the first n messages of s.
Sweep(c, s, n, g) ==
    [T \in SUBSET (1 .. n) |->
        IF T = {} THEN c ELSE OnTableMessage(g[T \ {Max(T)}], s[Max(T)])]

\* A replay: the messages of s, fed to the client c.
Fed(c, s) == FoldLeft(OnTableMessage, c, s)

\* The fold is the value, for all of s, of a function that solves the recursion.
LEMMA FedSweep ==
    ASSUME NEW c, NEW s, NEW n, DOMAIN s = 1 .. n
    PROVE  Fed(c, s) = (CHOOSE g : g = Sweep(c, s, n, g))[1 .. n]
BY DEF Fed, FoldLeft, MapThenFoldSet, Sweep

\* The last of the numbers up to n.
LEMMA LastIsMax ==
    ASSUME NEW n \in Nat
    PROVE  /\ Max(1 .. (n + 1)) = n + 1
           /\ \A T \in SUBSET (1 .. (n + 1)) : n + 1 \in T => Max(T) = n + 1
<1>1. ASSUME NEW T \in SUBSET (1 .. (n + 1)), n + 1 \in T PROVE Max(T) = n + 1
    <2>1. \A y \in T : n + 1 >= y
        BY <1>1
    <2>2. Max(T) \in T /\ \A y \in T : Max(T) >= y
        BY <1>1, <2>1 DEF Max
    <2>3. Max(T) \in 1 .. (n + 1) /\ Max(T) >= n + 1
        BY <1>1, <2>2
    <2> QED
        BY <2>3
<1> QED
    BY <1>1

\* The recursion has a solution, message by message.
LEMMA SweepSolved ==
    ASSUME NEW c, NEW s, NEW n \in Nat
    PROVE  \E g : g = Sweep(c, s, n, g)
<1> DEFINE G == {i \in 0 .. n : \E g : g = Sweep(c, s, i, g)}
<1>1. 0 \in G
    <2> DEFINE g == [T \in SUBSET (1 .. 0) |-> c]
    <2>1. g = Sweep(c, s, 0, g)
        BY DEF Sweep
    <2> QED
        BY <2>1
<1>2. ASSUME NEW i \in 0 .. n, i \in G, i < n PROVE i + 1 \in G
    <2>1. PICK g : g = Sweep(c, s, i, g)
        BY <1>2
    <2> DEFINE h == [T \in SUBSET (1 .. (i + 1)) |->
                        IF i + 1 \in T THEN OnTableMessage(g[T \ {i + 1}], s[i + 1]) ELSE g[T]]
    <2>2. i \in Nat /\ i + 1 \in 0 .. n /\ i + 1 \notin 1 .. i
        BY <1>2
    <2>3. \A T \in SUBSET (1 .. i) :
             g[T] = IF T = {} THEN c ELSE OnTableMessage(g[T \ {Max(T)}], s[Max(T)])
        BY <2>1 DEF Sweep
    <2>4. ASSUME NEW T \in SUBSET (1 .. (i + 1)), i + 1 \notin T
          PROVE  T \in SUBSET (1 .. i)
        BY <2>2, <2>4
    <2>5. ASSUME NEW T \in SUBSET (1 .. (i + 1)) PROVE h[T] = Sweep(c, s, i + 1, h)[T]
        <3>1. CASE i + 1 \in T
            <4>1. Max(T) = i + 1 /\ T # {}
                BY <2>2, <3>1, LastIsMax
            <4>2. T \ {i + 1} \in SUBSET (1 .. (i + 1)) /\ i + 1 \notin T \ {i + 1}
                OBVIOUS
            <4>3. h[T \ {i + 1}] = g[T \ {i + 1}]
                BY <4>2
            <4>4. h[T] = OnTableMessage(g[T \ {i + 1}], s[i + 1])
                BY <3>1
            <4> HIDE DEF h
            <4>5. Sweep(c, s, i + 1, h)[T] = OnTableMessage(h[T \ {Max(T)}], s[Max(T)])
                BY <4>1 DEF Sweep
            <4> QED
                BY <4>1, <4>3, <4>4, <4>5
        <3>2. CASE i + 1 \notin T
            <4>1. T \in SUBSET (1 .. i)
                BY <2>4, <3>2
            <4>2. h[T] = g[T]
                BY <3>2
            <4>3. T # {} => T \ {Max(T)} \in SUBSET (1 .. (i + 1)) /\ i + 1 \notin T \ {Max(T)}
                BY <3>2
            <4>4. T # {} => h[T \ {Max(T)}] = g[T \ {Max(T)}]
                BY <4>3
            <4> HIDE DEF h
            <4>5. Sweep(c, s, i + 1, h)[T] =
                    IF T = {} THEN c ELSE OnTableMessage(h[T \ {Max(T)}], s[Max(T)])
                BY DEF Sweep
            <4> QED
                BY <2>3, <4>1, <4>2, <4>4, <4>5
        <3> QED
            BY <3>1, <3>2
    <2>6. h = Sweep(c, s, i + 1, h)
        BY <2>5 DEF Sweep
    <2> HIDE DEF h
    <2> QED
        BY <2>2, <2>6
<1> HIDE DEF G
<1>3. n \in G
    BY <1>1, <1>2, ByCounting
<1> QED
    BY <1>3 DEF G

\* The messages are handled in their order.
InOrder(c, s, n, g) ==
    /\ g[1 .. 0] = c
    /\ \A i \in 0 .. n : i < n => g[1 .. (i + 1)] = OnTableMessage(g[1 .. i], s[i + 1])

\* What a solution says of the messages up to the i-th.
LEMMA SweepOfFirst ==
    ASSUME NEW c, NEW s, NEW n \in Nat, NEW g, g = Sweep(c, s, n, g)
    PROVE  InOrder(c, s, n, g)
<1>1. 1 .. 0 = {} /\ {} \in SUBSET (1 .. n)
    OBVIOUS
<1>2. g[{}] = c
    BY <1>1 DEF Sweep
<1>3. ASSUME NEW i \in 0 .. n, i < n PROVE g[1 .. (i + 1)] = OnTableMessage(g[1 .. i], s[i + 1])
    <2> DEFINE T == 1 .. (i + 1)
    <2>1. T \in SUBSET (1 .. n) /\ T # {} /\ T \ {i + 1} = 1 .. i
        BY <1>3
    <2>2. Max(T) = i + 1
        BY LastIsMax
    <2> HIDE DEF T
    <2>3. g[T] = OnTableMessage(g[T \ {Max(T)}], s[Max(T)])
        BY <2>1 DEF Sweep
    <2> QED
        BY <2>1, <2>2, <2>3 DEF T
<1> QED
    BY <1>1, <1>2, <1>3 DEF InOrder

\* No message: the client is as it was.
LEMMA FedNothing == ASSUME NEW c PROVE Fed(c, <<>>) = c
<1> DEFINE g == CHOOSE g : g = Sweep(c, <<>>, 0, g)
<1>1. g = Sweep(c, <<>>, 0, g)
    BY SweepSolved
<1>2. Fed(c, <<>>) = g[1 .. 0]
    <2>1. DOMAIN <<>> = 1 .. 0
        OBVIOUS
    <2> QED
        BY <2>1, FedSweep
<1> HIDE DEF g
<1>3. g[1 .. 0] = c
    <2> DEFINE s == <<>>
               n == 0
    <2>1. g = Sweep(c, s, n, g) /\ n \in Nat
        BY <1>1
    <2> HIDE DEF s, n
    <2> QED
        BY <2>1, SweepOfFirst DEF InOrder
<1> QED
    BY <1>2, <1>3

\* One more message: handled after the others.
LEMMA FedOneMore ==
    ASSUME NEW c, NEW s, Queue(s), NEW m
    PROVE  Fed(c, Append(s, m)) = OnTableMessage(Fed(c, s), m)
<1> DEFINE n == Len(s)
           t == Append(s, m)
           g == CHOOSE g : g = Sweep(c, s, n, g)
           h == CHOOSE h : h = Sweep(c, t, n + 1, h)
           G == {i \in 0 .. n : h[1 .. i] = g[1 .. i]}
<1>1. /\ n \in Nat /\ DOMAIN s = 1 .. n /\ DOMAIN t = 1 .. (n + 1)
      /\ t[n + 1] = m /\ \A i \in 1 .. n : t[i] = s[i]
    <2> DEFINE S == Entries(s) \union {m}
    <2>1. s \in Seq(S) /\ m \in S
        BY DEF Queue
    <2> HIDE DEF S
    <2> QED
        BY <2>1
<1> HIDE DEF n, t
<1>2. g = Sweep(c, s, n, g) /\ h = Sweep(c, t, n + 1, h)
    BY <1>1, SweepSolved
<1>3. Fed(c, s) = g[1 .. n] /\ Fed(c, t) = h[1 .. (n + 1)]
    BY <1>1, FedSweep
<1> HIDE DEF g, h
<1>4. InOrder(c, s, n, g)
    BY <1>1, <1>2, SweepOfFirst
<1>5. InOrder(c, t, n + 1, h)
    <2> DEFINE k == n + 1
    <2>1. k \in Nat /\ h = Sweep(c, t, k, h)
        BY <1>1, <1>2
    <2> HIDE DEF k
    <2>2. InOrder(c, t, k, h)
        BY <2>1, SweepOfFirst
    <2> QED
        BY <2>2 DEF k
<1>6. 0 \in G
    BY <1>1, <1>4, <1>5 DEF InOrder
<1>7. ASSUME NEW i \in 0 .. n, i \in G, i < n PROVE i + 1 \in G
    <2>1. i + 1 \in 1 .. n /\ i \in 0 .. (n + 1) /\ i < n + 1
        BY <1>1, <1>7
    <2>2. h[1 .. (i + 1)] = OnTableMessage(h[1 .. i], s[i + 1])
        BY <1>1, <1>5, <2>1 DEF InOrder
    <2>3. g[1 .. (i + 1)] = OnTableMessage(g[1 .. i], s[i + 1])
        BY <1>4, <1>7 DEF InOrder
    <2> QED
        BY <1>1, <1>7, <2>1, <2>2, <2>3
<1> HIDE DEF G
<1>8. n \in G
    BY <1>1, <1>6, <1>7, ByCounting
<1>9. n \in 0 .. (n + 1) /\ n < n + 1
    BY <1>1
<1>10. h[1 .. (n + 1)] = OnTableMessage(g[1 .. n], m)
    BY <1>1, <1>5, <1>8, <1>9 DEF G, InOrder
<1> QED
    BY <1>3, <1>10 DEF t
-----------------------------------------------------------------------------
(* What a client shows, and the buttons *)

\* The hand that is shown, and the client that shows it.
HandOf(hand_id, street, cards, on_board, pot, out_seats, all_in, flag, bets) ==
    [hand |-> hand_id, street |-> street, hole_cards |-> cards, board |-> on_board, pot_total |-> pot,
     folded_seats |-> out_seats, all_in_seats |-> all_in, awaiting_action |-> flag,
     bet_this_street |-> bets]
HandShape(h) ==
    /\ h = HandOf(h.hand, h.street, h.hole_cards, h.board, h.pot_total, h.folded_seats,
                  h.all_in_seats, h.awaiting_action, h.bet_this_street)
    /\ h.awaiting_action \in BOOLEAN

\* The same hand with the buttons shown, or not.
Flagged(h, b) == [h EXCEPT !.awaiting_action = b]

\* A hand that is shown is not no hand.
LEMMA ShownIsHand == ASSUME NEW h, HandShape(h) PROVE h # NoHand
<1>1. "street" \in DOMAIN h
    BY DEF HandShape, HandOf
<1>2. "street" \notin DOMAIN NoHand
    BY DEF NoHand
<1> QED
    BY <1>1, <1>2

\* CurrentHand::started.
LEMMA StartedShape == ASSUME NEW n PROVE HandShape(Started(n)) /\ Started(n).awaiting_action = FALSE
BY DEF HandShape, HandOf, Started

\* Two hands that differ in their buttons only.
Twins(x, y, a, b) ==
    \E n, st, ca, bo, po, fo, al, be : /\ x = HandOf(n, st, ca, bo, po, fo, al, a, be)
                                       /\ y = HandOf(n, st, ca, bo, po, fo, al, b, be)

\* What twins are.
LEMMA TwinsAreHands ==
    ASSUME NEW x, NEW y, NEW a \in BOOLEAN, NEW b \in BOOLEAN, Twins(x, y, a, b)
    PROVE  /\ HandShape(x) /\ x # NoHand /\ x.awaiting_action = a
           /\ HandShape(y) /\ y # NoHand /\ y.awaiting_action = b
           /\ y.bet_this_street = x.bet_this_street
           /\ \A v : Flagged(x, v) = Flagged(y, v)
<1>1. PICK n, st, ca, bo, po, fo, al, be : /\ x = HandOf(n, st, ca, bo, po, fo, al, a, be)
                                           /\ y = HandOf(n, st, ca, bo, po, fo, al, b, be)
    BY DEF Twins
<1>2. HandShape(x) /\ x.awaiting_action = a /\ x.bet_this_street = be
    BY <1>1 DEF HandOf, HandShape
<1>3. HandShape(y) /\ y.awaiting_action = b /\ y.bet_this_street = be
    BY <1>1 DEF HandOf, HandShape
<1>4. \A v : Flagged(x, v) = HandOf(n, st, ca, bo, po, fo, al, v, be)
    BY <1>1 DEF HandOf, Flagged
<1>5. \A v : Flagged(y, v) = HandOf(n, st, ca, bo, po, fo, al, v, be)
    BY <1>1 DEF HandOf, Flagged
<1>6. \A v : Flagged(x, v) = Flagged(y, v)
    BY <1>4, <1>5
<1> QED
    BY <1>2, <1>3, <1>6, ShownIsHand

\* A hand and the same hand with other buttons.
LEMMA FlaggedTwin ==
    ASSUME NEW x, HandShape(x), NEW b
    PROVE  Twins(x, Flagged(x, b), x.awaiting_action, b)
<1> DEFINE y == HandOf(x.hand, x.street, x.hole_cards, x.board, x.pot_total, x.folded_seats,
                       x.all_in_seats, b, x.bet_this_street)
<1>1. Flagged(x, b) = y
    BY DEF HandShape, HandOf, Flagged
<1>2. Twins(x, y, x.awaiting_action, b)
    BY DEF HandShape, Twins
<1> QED
    BY <1>1, <1>2

\* update_bet.
LEMMA TwinsBet ==
    ASSUME NEW x, NEW y, NEW a, NEW b, Twins(x, y, a, b), NEW s, NEW n
    PROVE  Twins(UpdateBet(x, s, n), UpdateBet(y, s, n), a, b)
<1>1. PICK k, st, ca, bo, po, fo, al, be : /\ x = HandOf(k, st, ca, bo, po, fo, al, a, be)
                                           /\ y = HandOf(k, st, ca, bo, po, fo, al, b, be)
    BY DEF Twins
<1> DEFINE bets == [t \in TableSeats |-> IF t = s THEN n ELSE be[t]]
<1>2. x.bet_this_street = be /\ y.bet_this_street = be
    BY <1>1 DEF HandOf
<1>3. /\ UpdateBet(x, s, n) = [x EXCEPT !.bet_this_street = bets]
      /\ UpdateBet(y, s, n) = [y EXCEPT !.bet_this_street = bets]
    BY <1>2 DEF UpdateBet
<1> HIDE DEF bets
<1>4. /\ UpdateBet(x, s, n) = HandOf(k, st, ca, bo, po, fo, al, a, bets)
      /\ UpdateBet(y, s, n) = HandOf(k, st, ca, bo, po, fo, al, b, bets)
    BY <1>1, <1>3 DEF HandOf
<1> QED
    BY <1>4 DEF Twins

\* The events in the middle of a hand leave the buttons alone, and do the same
\* whether they are shown or not.
LEMMA MidHandTwins ==
    ASSUME NEW c, NEW d, NEW e, NEW a \in BOOLEAN, NEW b \in BOOLEAN,
           Twins(c.current_hand, d.current_hand, a, b), d.seat = c.seat,
           e.kind \in {"HoleCardsDealt", "BoardDealt", "ActionTaken", "PlayerAllIn"}
    PROVE  Twins(ProjectHand(c, e), ProjectHand(d, e), a, b)
<1> DEFINE h == c.current_hand
           g == d.current_hand
<1>1. Twins(h, g, a, b) /\ h # NoHand /\ g # NoHand /\ h.bet_this_street = g.bet_this_street
    <2>1. Twins(h, g, a, b)
        OBVIOUS
    <2> HIDE DEF h, g
    <2> QED
        BY <2>1, TwinsAreHands
<1> HIDE DEF h, g
<1>2. PICK k, st, ca, bo, po, fo, al, be : /\ h = HandOf(k, st, ca, bo, po, fo, al, a, be)
                                           /\ g = HandOf(k, st, ca, bo, po, fo, al, b, be)
    BY <1>1 DEF Twins
<1>3. CASE e.kind = "HoleCardsDealt"
    <2>1. ASSUME NEW v
          PROVE  /\ [h EXCEPT !.hole_cards = v] = HandOf(k, st, v, bo, po, fo, al, a, be)
                 /\ [g EXCEPT !.hole_cards = v] = HandOf(k, st, v, bo, po, fo, al, b, be)
        <3>1. [h EXCEPT !.hole_cards = v] = HandOf(k, st, v, bo, po, fo, al, a, be)
            BY <1>2 DEF HandOf
        <3>2. [g EXCEPT !.hole_cards = v] = HandOf(k, st, v, bo, po, fo, al, b, be)
            BY <1>2 DEF HandOf
        <3> QED
            BY <3>1, <3>2
    <2>2. ASSUME NEW v PROVE Twins([h EXCEPT !.hole_cards = v], [g EXCEPT !.hole_cards = v], a, b)
        <3> DEFINE x == [h EXCEPT !.hole_cards = v]
                   y == [g EXCEPT !.hole_cards = v]
        <3>1. x = HandOf(k, st, v, bo, po, fo, al, a, be) /\ y = HandOf(k, st, v, bo, po, fo, al, b, be)
            BY <2>1
        <3> HIDE DEF x, y
        <3>2. Twins(x, y, a, b)
            BY <3>1 DEF Twins
        <3> QED
            BY <3>2 DEF x, y
    <2>3. /\ ProjectHand(c, e) = IF e.seat = c.seat THEN [h EXCEPT !.hole_cards = TRUE] ELSE h
          /\ ProjectHand(d, e) = IF e.seat = d.seat THEN [g EXCEPT !.hole_cards = TRUE] ELSE g
        BY <1>1, <1>3 DEF ProjectHand, h, g
    <2> QED
        BY <1>1, <2>2, <2>3
<1>4. CASE e.kind = "BoardDealt"
    <2> DEFINE none == [s \in TableSeats |-> 0]
    <2>1. /\ ProjectBoard(h, e) = [h EXCEPT !.street = e.street, !.board = bo + e.n, !.bet_this_street = none]
          /\ ProjectBoard(g, e) = [g EXCEPT !.street = e.street, !.board = bo + e.n, !.bet_this_street = none]
        <3>1. h.board = bo /\ g.board = bo
            BY <1>2 DEF HandOf
        <3> QED
            BY <3>1 DEF ProjectBoard
    <2> HIDE DEF none
    <2>2. /\ ProjectBoard(h, e) = HandOf(k, e.street, ca, bo + e.n, po, fo, al, a, none)
          /\ ProjectBoard(g, e) = HandOf(k, e.street, ca, bo + e.n, po, fo, al, b, none)
        <3> DEFINE st2 == e.street
                   bo2 == bo + e.n
                   x == ProjectBoard(h, e)
                   y == ProjectBoard(g, e)
        <3>1. /\ x = [h EXCEPT !.street = st2, !.board = bo2, !.bet_this_street = none]
              /\ y = [g EXCEPT !.street = st2, !.board = bo2, !.bet_this_street = none]
            BY <2>1
        <3> HIDE DEF st2, bo2, x, y
        <3>2. x = HandOf(k, st2, ca, bo2, po, fo, al, a, none)
            BY <1>2, <3>1 DEF HandOf
        <3>3. y = HandOf(k, st2, ca, bo2, po, fo, al, b, none)
            BY <1>2, <3>1 DEF HandOf
        <3> QED
            BY <3>2, <3>3 DEF st2, bo2, x, y
    <2>3. Twins(ProjectBoard(h, e), ProjectBoard(g, e), a, b)
        BY <2>2 DEF Twins
    <2>4. ProjectHand(c, e) = ProjectBoard(h, e) /\ ProjectHand(d, e) = ProjectBoard(g, e)
        BY <1>1, <1>4 DEF ProjectHand, h, g
    <2> QED
        BY <2>3, <2>4
<1>5. CASE e.kind = "ActionTaken"
    <2> DEFINE fd == IF e.action = "Fold" THEN fo \union {e.seat} ELSE fo
               x == [h EXCEPT !.pot_total = e.pot_total, !.folded_seats = fd]
               y == [g EXCEPT !.pot_total = e.pot_total, !.folded_seats = fd]
    <2>1. h.folded_seats = fo /\ g.folded_seats = fo
        BY <1>2 DEF HandOf
    <2>2. ProjectAction(h, e) = CASE e.action \in {"Check", "Call"} -> UpdateBet(x, e.seat, MaxBet(h))
                                  [] e.action = "Raise" -> UpdateBet(x, e.seat, e.to)
                                  [] OTHER -> x
        BY <2>1 DEF ProjectAction
    <2>3. ProjectAction(g, e) = CASE e.action \in {"Check", "Call"} -> UpdateBet(y, e.seat, MaxBet(g))
                                  [] e.action = "Raise" -> UpdateBet(y, e.seat, e.to)
                                  [] OTHER -> y
        BY <2>1 DEF ProjectAction
    <2> HIDE DEF fd
    <2> DEFINE pt == e.pot_total
    <2>4. x = HandOf(k, st, ca, bo, pt, fd, al, a, be) /\ y = HandOf(k, st, ca, bo, pt, fd, al, b, be)
        <3>1. /\ x = [h EXCEPT !.pot_total = pt, !.folded_seats = fd]
              /\ y = [g EXCEPT !.pot_total = pt, !.folded_seats = fd]
            OBVIOUS
        <3> HIDE DEF x, y, pt
        <3>2. x = HandOf(k, st, ca, bo, pt, fd, al, a, be)
            BY <1>2, <3>1 DEF HandOf
        <3>3. y = HandOf(k, st, ca, bo, pt, fd, al, b, be)
            BY <1>2, <3>1 DEF HandOf
        <3> QED
            BY <3>2, <3>3
    <2> HIDE DEF x, y, pt
    <2>5. Twins(x, y, a, b)
        BY <2>4 DEF Twins
    <2>6. MaxBet(g) = MaxBet(h)
        BY <1>1 DEF MaxBet
    <2>7. \A n : Twins(UpdateBet(x, e.seat, n), UpdateBet(y, e.seat, n), a, b)
        BY <2>5, TwinsBet
    <2>8. Twins(ProjectAction(h, e), ProjectAction(g, e), a, b)
        <3>1. CASE e.action \in {"Check", "Call"}
            BY <2>2, <2>3, <2>6, <2>7, <3>1
        <3>2. CASE e.action = "Raise"
            BY <2>2, <2>3, <2>7, <3>2
        <3>3. CASE e.action \notin {"Check", "Call", "Raise"}
            BY <2>2, <2>3, <2>5, <3>3
        <3> QED
            BY <3>1, <3>2, <3>3
    <2>9. ProjectHand(c, e) = ProjectAction(h, e) /\ ProjectHand(d, e) = ProjectAction(g, e)
        BY <1>1, <1>5 DEF ProjectHand, h, g
    <2> QED
        BY <2>8, <2>9
<1>6. CASE e.kind = "PlayerAllIn"
    <2> DEFINE ai == al \union {e.seat}
               x == [h EXCEPT !.all_in_seats = ai]
               y == [g EXCEPT !.all_in_seats = ai]
    <2>1. h.all_in_seats = al /\ g.all_in_seats = al
        BY <1>2 DEF HandOf
    <2>2. ProjectAllIn(h, e) = UpdateBet(x, e.seat, e.total) /\ ProjectAllIn(g, e) = UpdateBet(y, e.seat, e.total)
        BY <2>1 DEF ProjectAllIn
    <2> HIDE DEF ai
    <2>3. x = HandOf(k, st, ca, bo, po, fo, ai, a, be) /\ y = HandOf(k, st, ca, bo, po, fo, ai, b, be)
        BY <1>2 DEF HandOf
    <2> HIDE DEF x, y
    <2>4. Twins(x, y, a, b)
        BY <2>3 DEF Twins
    <2>5. Twins(ProjectAllIn(h, e), ProjectAllIn(g, e), a, b)
        BY <2>2, <2>4, TwinsBet
    <2>6. ProjectHand(c, e) = ProjectAllIn(h, e) /\ ProjectHand(d, e) = ProjectAllIn(g, e)
        BY <1>1, <1>6 DEF ProjectHand, h, g
    <2> QED
        BY <2>5, <2>6
<1> QED
    BY <1>3, <1>4, <1>5, <1>6
\* Twins of the same hand are twins.
LEMMA TwinsJoin ==
    ASSUME NEW x, NEW y, NEW z, NEW a, NEW b, NEW c, Twins(x, y, a, b)
    PROVE  Twins(y, x, b, a) /\ (Twins(y, z, b, c) => Twins(x, z, a, c))
<1>1. PICK n, st, ca, bo, po, fo, al, be : /\ x = HandOf(n, st, ca, bo, po, fo, al, a, be)
                                           /\ y = HandOf(n, st, ca, bo, po, fo, al, b, be)
    BY DEF Twins
<1>2. Twins(y, x, b, a)
    BY <1>1 DEF Twins
<1>3. ASSUME Twins(y, z, b, c) PROVE Twins(x, z, a, c)
    <2>1. PICK n2, st2, ca2, bo2, po2, fo2, al2, be2 :
               /\ y = HandOf(n2, st2, ca2, bo2, po2, fo2, al2, b, be2)
               /\ z = HandOf(n2, st2, ca2, bo2, po2, fo2, al2, c, be2)
        BY <1>3 DEF Twins
    <2>2. /\ n2 = n /\ st2 = st /\ ca2 = ca /\ bo2 = bo /\ po2 = po /\ fo2 = fo /\ al2 = al /\ be2 = be
        BY <1>1, <2>1 DEF HandOf
    <2>3. z = HandOf(n, st, ca, bo, po, fo, al, c, be)
        BY <2>1, <2>2
    <2> QED
        BY <1>1, <2>3 DEF Twins
<1> QED
    BY <1>2, <1>3

\* The client.
CoreOf(phase, table, seat, shown, refused, key, is_open, handshake, prompt) ==
    [phase |-> phase, table |-> table, seat |-> seat, current_hand |-> shown, rejection |-> refused,
     session_key |-> key, connection_open |-> is_open, pending_handshake |-> handshake,
     active_prompt |-> prompt]
CoreShape(c) ==
    /\ c = CoreOf(c.phase, c.table, c.seat, c.current_hand, c.rejection, c.session_key,
                  c.connection_open, c.pending_handshake, c.active_prompt)
    /\ c.current_hand = NoHand \/ HandShape(c.current_hand)

\* A client that has its seat at the table.
AtSeat(c) == c.phase = "Seated" /\ c.table = Table /\ c.seat = MySeat

\* The client offers its player the buttons.
Buttons(c) == c.current_hand # NoHand /\ c.current_hand.awaiting_action = TRUE

\* Two clients that show the same, but for the buttons; d has them if c does.
SameHand(h, g) ==
    (h = NoHand /\ g = NoHand) \/ (/\ h.awaiting_action \in BOOLEAN /\ g.awaiting_action \in BOOLEAN
                                   /\ Twins(h, g, h.awaiting_action, g.awaiting_action))
Like(c, d) ==
    /\ c.phase = d.phase /\ c.table = d.table /\ c.seat = d.seat /\ c.active_prompt = d.active_prompt
    /\ SameHand(c.current_hand, d.current_hand)
Behind(c, d) == Like(c, d) /\ (Buttons(c) => Buttons(d))

\* The messages of a hand, as the seat is sent them and as its buffer keeps them,
\* and the ones that it is sent besides.
HandKinds == {"HandStarted", "HandEnded", "HoleCardsDealt", "BoardDealt", "ActionTaken", "PlayerAllIn"}
InHand(m) ==
    \/ m.kind = "TableEvent" /\ m.table = Table /\ m.event.kind \in HandKinds
    \/ m.kind = "Prompt"
ForSeat(m) == InHand(m) \/ m = ActionRejected \/ m = JoinedTable(Table, MySeat)

\* A client shows what it shows.
LEMMA LikeItself ==
    ASSUME NEW c, CoreShape(c)
    PROVE  Like(c, c) /\ Behind(c, c)
<1>1. HandShape(c.current_hand) =>
        Twins(c.current_hand, c.current_hand, c.current_hand.awaiting_action, c.current_hand.awaiting_action)
    BY DEF HandShape, Twins
<1>2. SameHand(c.current_hand, c.current_hand)
    BY <1>1 DEF CoreShape, SameHand, HandShape
<1> QED
    BY <1>2 DEF Like, Behind

\* Showing the same is symmetric and transitive.
LEMMA LikeOthers ==
    ASSUME NEW c, NEW d, Like(c, d), NEW e
    PROVE  Like(d, c) /\ (Like(d, e) => Like(c, e)) /\ (Behind(c, d) /\ Behind(d, e) => Behind(c, e))
<1> DEFINE x == c.current_hand
           y == d.current_hand
           z == e.current_hand
<1>0. SameHand(x, y)
    BY DEF Like
<1> HIDE DEF x, y, z
<1>1. SameHand(y, x)
    BY <1>0, TwinsJoin DEF SameHand
<1>2. ASSUME SameHand(y, z) PROVE SameHand(x, z)
    <2>1. CASE x = NoHand /\ y = NoHand
        <3>1. ~ Twins(y, z, y.awaiting_action, z.awaiting_action) \/ ~ y.awaiting_action \in BOOLEAN
              \/ ~ z.awaiting_action \in BOOLEAN
            BY <2>1, TwinsAreHands
        <3> QED
            BY <1>2, <2>1, <3>1 DEF SameHand
    <2>2. CASE /\ x.awaiting_action \in BOOLEAN /\ y.awaiting_action \in BOOLEAN
               /\ Twins(x, y, x.awaiting_action, y.awaiting_action)
        <3>1. y # NoHand
            BY <2>2, TwinsAreHands
        <3>2. /\ z.awaiting_action \in BOOLEAN
              /\ Twins(y, z, y.awaiting_action, z.awaiting_action)
            BY <1>2, <3>1 DEF SameHand
        <3>3. Twins(x, z, x.awaiting_action, z.awaiting_action)
            BY <2>2, <3>2, TwinsJoin
        <3> QED
            BY <2>2, <3>2, <3>3 DEF SameHand
    <2> QED
        BY <1>0, <2>1, <2>2 DEF SameHand
<1> QED
    BY <1>1, <1>2 DEF Like, Behind, x, y, z

\* What is shown is the same, as the property has it.
LEMMA LikeIsShown ==
    ASSUME NEW c, NEW d, Like(c, d)
    PROVE  Shown(c) = Shown(d)
<1> DEFINE x == c.current_hand
           y == d.current_hand
<1>1. SameHand(x, y) /\ c.active_prompt = d.active_prompt
    BY DEF Like
<1>2. /\ Shown(c) = [hand |-> IF x = NoHand THEN NoHand ELSE Flagged(x, FALSE), prompt |-> c.active_prompt]
      /\ Shown(d) = [hand |-> IF y = NoHand THEN NoHand ELSE Flagged(y, FALSE), prompt |-> d.active_prompt]
    BY DEF Shown, Flagged
<1> HIDE DEF x, y
<1>3. CASE x = NoHand /\ y = NoHand
    BY <1>1, <1>2, <1>3
<1>4. CASE /\ x.awaiting_action \in BOOLEAN /\ y.awaiting_action \in BOOLEAN
           /\ Twins(x, y, x.awaiting_action, y.awaiting_action)
    <2>1. x # NoHand /\ y # NoHand /\ \A v : Flagged(x, v) = Flagged(y, v)
        BY <1>4, TwinsAreHands
    <2>2. Flagged(x, FALSE) = Flagged(y, FALSE)
        BY <2>1, Zenon
    <2> QED
        BY <1>1, <1>2, <2>1, <2>2
<1> QED
    BY <1>1, <1>3, <1>4 DEF SameHand
\* A client with another hand, prompt and notice of a refusal.
Redrawn(c, h, p, j) == [c EXCEPT !.current_hand = h, !.active_prompt = p, !.rejection = j]

\* All of such a client.
LEMMA RedrawnCore ==
    ASSUME NEW c, CoreShape(c), NEW h, NEW p, NEW j
    PROVE  Redrawn(c, h, p, j) = CoreOf(c.phase, c.table, c.seat, h, j, c.session_key,
                                        c.connection_open, c.pending_handshake, p)
<1> DEFINE r == Redrawn(c, h, p, j)
<1>1. r = [c EXCEPT !.current_hand = h, !.active_prompt = p, !.rejection = j]
    BY DEF Redrawn
<1> HIDE DEF r
<1>2. r = CoreOf(c.phase, c.table, c.seat, h, j, c.session_key, c.connection_open, c.pending_handshake, p)
    BY <1>1 DEF CoreShape, CoreOf
<1> QED
    BY <1>2 DEF r

\* A message that changes the hand, the prompt and the notice of a refusal.
LEMMA CoreAfter ==
    ASSUME NEW c, CoreShape(c), NEW h, h = NoHand \/ HandShape(h), NEW p, NEW j, NEW r,
           r = Redrawn(c, h, p, j)
    PROVE  /\ CoreShape(r) /\ r.phase = c.phase /\ r.table = c.table /\ r.seat = c.seat
           /\ r.current_hand = h /\ r.active_prompt = p
<1>1. r = CoreOf(c.phase, c.table, c.seat, h, j, c.session_key, c.connection_open, c.pending_handshake, p)
    BY RedrawnCore
<1>2. /\ r.phase = c.phase /\ r.table = c.table /\ r.seat = c.seat
      /\ r.current_hand = h /\ r.active_prompt = p
    BY <1>1 DEF CoreOf
<1>3. r.rejection = j /\ r.session_key = c.session_key /\ r.connection_open = c.connection_open
      /\ r.pending_handshake = c.pending_handshake
    BY <1>1 DEF CoreOf
<1> QED
    BY <1>1, <1>2, <1>3 DEF CoreShape

\* The buttons of a hand that is shown.
LEMMA Lit ==
    ASSUME NEW h, HandShape(h), NEW b \in BOOLEAN
    PROVE  /\ HandShape(Flagged(h, b)) /\ Flagged(h, b) # NoHand /\ Flagged(h, b).awaiting_action = b
           /\ SameHand(h, h) /\ SameHand(h, Flagged(h, b))
<1> DEFINE g == Flagged(h, b)
           a == h.awaiting_action
<1>1. Twins(h, g, a, b) /\ a \in BOOLEAN
    BY FlaggedTwin DEF HandShape
<1>2. Twins(h, h, a, a)
    BY DEF HandShape, Twins
<1> HIDE DEF g
<1>3. HandShape(g) /\ g # NoHand /\ g.awaiting_action = b
    BY <1>1, TwinsAreHands
<1>4. SameHand(h, h) /\ SameHand(h, g)
    BY <1>1, <1>2, <1>3 DEF SameHand
<1> QED
    BY <1>3, <1>4 DEF g

\* project_engine_event, of an event at the table where the client sits.
LEMMA EventCore ==
    ASSUME NEW c, CoreShape(c), NEW e, e.kind \in HandKinds, NEW table,
           c.phase = "Seated" /\ c.table = table
    PROVE  LET r == ProjectEngineEvent(c, table, e)
           IN  /\ CoreShape(r) /\ r.phase = c.phase /\ r.table = c.table /\ r.seat = c.seat
               /\ r.current_hand = ProjectHand(c, e)
               /\ r.active_prompt = IF e.kind \in {"HandStarted", "HandEnded"} THEN NoMessage ELSE c.active_prompt
<1> DEFINE r == ProjectEngineEvent(c, table, e)
           h == ProjectHand(c, e)
           p == IF e.kind \in {"HandStarted", "HandEnded"} THEN NoMessage ELSE c.active_prompt
           j == c.rejection /\ e.kind # "HandStarted"
<1>1. h = NoHand \/ HandShape(h)
    <2>1. CASE e.kind = "HandStarted"
        <3>1. h = Started(e.hand)
            BY <2>1 DEF ProjectHand
        <3> QED
            BY <3>1, StartedShape
    <2>2. CASE e.kind = "HandEnded"
        BY <2>2 DEF ProjectHand
    <2>3. CASE e.kind \notin {"HandStarted", "HandEnded"} /\ c.current_hand = NoHand
        BY <2>3 DEF ProjectHand
    <2>4. CASE e.kind \notin {"HandStarted", "HandEnded"} /\ c.current_hand # NoHand
        <3> DEFINE x == c.current_hand
                   a == x.awaiting_action
        <3>1. HandShape(x)
            BY <2>4 DEF CoreShape
        <3>2. Twins(x, x, a, a) /\ a \in BOOLEAN
            BY <3>1 DEF HandShape, Twins
        <3> HIDE DEF a
        <3>3. Twins(ProjectHand(c, e), ProjectHand(c, e), a, a)
            BY <2>4, <3>2, MidHandTwins DEF HandKinds
        <3> HIDE DEF h
        <3> QED
            BY <3>2, <3>3, TwinsAreHands DEF h
    <2> QED
        BY <2>1, <2>2, <2>3, <2>4
<1>2. r = Redrawn(c, h, p, j)
    BY DEF ProjectEngineEvent, Redrawn
<1> HIDE DEF r, h, p, j
<1>3. /\ CoreShape(r) /\ r.phase = c.phase /\ r.table = c.table /\ r.seat = c.seat
      /\ r.current_hand = h /\ r.active_prompt = p
    BY <1>1, <1>2, CoreAfter
<1> QED
    BY <1>3 DEF r, h, p

\* The hand with its buttons, if there is one.
LitHand(h) == IF h = NoHand THEN NoHand ELSE Flagged(h, TRUE)

\* OnPrompt, with the buttons in a hand that is shown.
LEMMA PromptCore ==
    ASSUME NEW c, CoreShape(c), NEW m
    PROVE  LET r == OnPrompt(c, m)
           IN  /\ CoreShape(r) /\ r.phase = c.phase /\ r.table = c.table /\ r.seat = c.seat
               /\ r.current_hand = LitHand(c.current_hand) /\ r.active_prompt = m
<1> DEFINE r == OnPrompt(c, m)
           x == c.current_hand
           h == IF x = NoHand THEN NoHand ELSE Flagged(x, TRUE)
<1>1. h = NoHand \/ HandShape(h)
    BY Lit DEF CoreShape
<1> DEFINE j == FALSE
<1>2. r = [c EXCEPT !.active_prompt = m, !.current_hand = h, !.rejection = j]
    BY DEF OnPrompt, Flagged
<1> HIDE DEF r, h, j
<1>3. r = CoreOf(c.phase, c.table, c.seat, h, j, c.session_key, c.connection_open, c.pending_handshake, m)
    BY <1>2 DEF CoreShape, CoreOf
<1>4. Redrawn(c, h, m, j)
        = CoreOf(c.phase, c.table, c.seat, h, j, c.session_key, c.connection_open, c.pending_handshake, m)
    BY RedrawnCore
<1>5. /\ CoreShape(r) /\ r.phase = c.phase /\ r.table = c.table /\ r.seat = c.seat
      /\ r.current_hand = h /\ r.active_prompt = m
    BY <1>1, <1>3, <1>4, CoreAfter
<1> QED
    BY <1>5 DEF r, h, LitHand

\* OnActionRejected: the buttons come back while a prompt is open.
LEMMA RefusedCore ==
    ASSUME NEW c, CoreShape(c)
    PROVE  LET r == OnActionRejected(c)
           IN  /\ CoreShape(r) /\ r.phase = c.phase /\ r.table = c.table /\ r.seat = c.seat
               /\ r.current_hand = (IF c.current_hand = NoHand \/ c.active_prompt = NoMessage
                                    THEN c.current_hand ELSE Flagged(c.current_hand, TRUE))
               /\ r.active_prompt = c.active_prompt
<1> DEFINE r == OnActionRejected(c)
           x == c.current_hand
           h == IF x = NoHand \/ c.active_prompt = NoMessage THEN x ELSE Flagged(x, TRUE)
           j == TRUE
<1>1. h = NoHand \/ HandShape(h)
    BY Lit DEF CoreShape
<1>2. r = [c EXCEPT !.current_hand = h, !.rejection = j]
    BY DEF OnActionRejected, Flagged
<1> DEFINE p == c.active_prompt
<1> HIDE DEF r, h, j
<1>4. r = CoreOf(c.phase, c.table, c.seat, h, j, c.session_key, c.connection_open, c.pending_handshake, p)
    BY <1>2 DEF CoreShape, CoreOf
<1>5. Redrawn(c, h, p, j)
        = CoreOf(c.phase, c.table, c.seat, h, j, c.session_key, c.connection_open, c.pending_handshake, p)
    BY RedrawnCore
<1>3. /\ CoreShape(r) /\ r.phase = c.phase /\ r.table = c.table /\ r.seat = c.seat
      /\ r.current_hand = h /\ r.active_prompt = c.active_prompt
    BY <1>1, <1>4, <1>5, CoreAfter
<1> QED
    BY <1>3 DEF r, h

\* OnJoinedTable: the client is at its seat, with no hand shown.
LEMMA JoinedCore ==
    ASSUME NEW c, CoreShape(c)
    PROVE  LET r == OnJoinedTable(c, JoinedTable(Table, MySeat))
           IN  CoreShape(r) /\ AtSeat(r) /\ r.current_hand = NoHand /\ r.active_prompt = NoMessage
<1> DEFINE r == OnJoinedTable(c, JoinedTable(Table, MySeat))
           j == FALSE
           p == NoMessage
<1>1. r = [c EXCEPT !.phase = "Seated", !.table = Table, !.seat = MySeat,
                    !.current_hand = NoHand, !.active_prompt = p, !.rejection = j]
    BY DEF OnJoinedTable, JoinedTable
<1> HIDE DEF r, j, p
<1>2. r = CoreOf("Seated", Table, MySeat, NoHand, j, c.session_key, c.connection_open, c.pending_handshake, p)
    BY <1>1 DEF CoreShape, CoreOf
<1>3. /\ r.phase = "Seated" /\ r.table = Table /\ r.seat = MySeat
      /\ r.current_hand = NoHand /\ r.active_prompt = p
    BY <1>2 DEF CoreOf
<1>4. r.rejection = j /\ r.session_key = c.session_key /\ r.connection_open = c.connection_open
      /\ r.pending_handshake = c.pending_handshake
    BY <1>2 DEF CoreOf
<1>5. CoreShape(r)
    BY <1>2, <1>3, <1>4 DEF CoreShape
<1> QED
    BY <1>3, <1>5 DEF r, p, AtSeat
\* A message starts the hand.
Starts(m) == m.kind = "TableEvent" /\ m.table = Table /\ m.event.kind = "HandStarted"

\* The kinds of message, and what handles each.
LEMMA Handlers ==
    ASSUME NEW c, NEW m, ForSeat(m)
    PROVE  \/ /\ m.kind = "TableEvent" /\ m.table = Table /\ m.event.kind \in HandKinds
              /\ OnTableMessage(c, m) = ProjectEngineEvent(c, m.table, m.event)
           \/ m.kind = "Prompt" /\ OnTableMessage(c, m) = OnPrompt(c, m)
           \/ m = ActionRejected /\ OnTableMessage(c, m) = OnActionRejected(c)
           \/ m = JoinedTable(Table, MySeat) /\ OnTableMessage(c, m) = OnJoinedTable(c, m)
<1>1. CASE m = ActionRejected
    <2>1. m.kind = "ActionRejected"
        BY <1>1 DEF ActionRejected
    <2> QED
        BY <1>1, <2>1 DEF OnTableMessage
<1>2. CASE m = JoinedTable(Table, MySeat)
    <2>1. m.kind = "JoinedTable"
        BY <1>2 DEF JoinedTable
    <2> QED
        BY <1>2, <2>1 DEF OnTableMessage
<1>3. CASE m.kind = "TableEvent" /\ m.table = Table /\ m.event.kind \in HandKinds
    BY <1>3 DEF OnTableMessage
<1>4. CASE m.kind = "Prompt"
    BY <1>4 DEF OnTableMessage
<1> QED
    BY <1>1, <1>2, <1>3, <1>4 DEF ForSeat, InHand

\* handle_inbound keeps a client a client, at its seat; a hand is shown from its
\* start to its end.
LEMMA StepKept ==
    ASSUME NEW c, CoreShape(c), NEW m, ForSeat(m)
    PROVE  LET r == OnTableMessage(c, m)
           IN  /\ CoreShape(r) /\ (AtSeat(c) => AtSeat(r))
               /\ m = JoinedTable(Table, MySeat) => AtSeat(r)
               /\ AtSeat(c) /\ InHand(m) /\ ~ Ends(m) /\ (c.current_hand # NoHand \/ Starts(m))
                    => r.current_hand # NoHand
               /\ m.kind = "Prompt" => r.active_prompt = m /\ (c.current_hand # NoHand => Buttons(r))
               /\ m = ActionRejected =>
                    /\ Buttons(c) \/ (c.current_hand # NoHand /\ c.active_prompt # NoMessage) => Buttons(r)
                    /\ Like(c, r)
               /\ AtSeat(c) /\ Ends(m) => r.current_hand = NoHand /\ r.active_prompt = NoMessage
<1> DEFINE r == OnTableMessage(c, m)
           x == c.current_hand
<1>1. CASE /\ m.kind = "TableEvent" /\ m.table = Table /\ m.event.kind \in HandKinds
           /\ r = ProjectEngineEvent(c, m.table, m.event)
    <2> DEFINE e == m.event
    <2>0. m # ActionRejected /\ m # JoinedTable(Table, MySeat) /\ m.kind # "Prompt"
        BY <1>1 DEF ActionRejected, JoinedTable
    <2>1. CASE c.phase = "Seated" /\ c.table = Table
        <3>1. /\ CoreShape(r) /\ r.phase = c.phase /\ r.table = c.table /\ r.seat = c.seat
              /\ r.current_hand = ProjectHand(c, e)
              /\ r.active_prompt = IF e.kind \in {"HandStarted", "HandEnded"} THEN NoMessage ELSE c.active_prompt
            BY <1>1, <2>1, EventCore
        <3>2. Ends(m) => ProjectHand(c, e) = NoHand /\ r.active_prompt = NoMessage
            BY <3>1 DEF Ends, ProjectHand
        <3>3. Starts(m) => ProjectHand(c, e) # NoHand
            <4>1. Starts(m) => ProjectHand(c, e) = Started(e.hand)
                BY DEF Starts, ProjectHand
            <4> QED
                BY <4>1, StartedShape, ShownIsHand
        <3>4. ~ Ends(m) /\ ~ Starts(m) /\ x # NoHand => ProjectHand(c, e) # NoHand
            <4> SUFFICES ASSUME ~ Ends(m), ~ Starts(m), x # NoHand PROVE ProjectHand(c, e) # NoHand
                OBVIOUS
            <4>1. e.kind \in {"HoleCardsDealt", "BoardDealt", "ActionTaken", "PlayerAllIn"}
                BY <1>1 DEF Ends, Starts, HandKinds
            <4> DEFINE a == x.awaiting_action
            <4>2. Twins(x, x, a, a) /\ a \in BOOLEAN
                BY DEF CoreShape, HandShape, Twins
            <4> HIDE DEF a
            <4>3. Twins(ProjectHand(c, e), ProjectHand(c, e), a, a)
                BY <4>1, <4>2, MidHandTwins
            <4> DEFINE h == ProjectHand(c, e)
            <4>4. Twins(h, h, a, a) /\ a \in BOOLEAN
                BY <4>2, <4>3
            <4> HIDE DEF h
            <4>5. h # NoHand
                BY ONLY <4>4, TwinsAreHands
            <4> QED
                BY <4>5 DEF h
        <3> HIDE DEF r
        <3> QED
            BY <2>0, <3>1, <3>2, <3>3, <3>4 DEF AtSeat, r
    <2>2. CASE ~ (c.phase = "Seated" /\ c.table = Table)
        <3>1. r = c
            BY <1>1, <2>2 DEF ProjectEngineEvent
        <3> HIDE DEF r
        <3> QED
            BY <2>0, <2>2, <3>1 DEF AtSeat, r
    <2> QED
        BY <2>1, <2>2
<1>2. CASE m.kind = "Prompt" /\ r = OnPrompt(c, m)
    <2>1. /\ CoreShape(r) /\ r.phase = c.phase /\ r.table = c.table /\ r.seat = c.seat
          /\ r.current_hand = LitHand(x) /\ r.active_prompt = m
        BY <1>2, PromptCore
    <2>2. x # NoHand => Flagged(x, TRUE) # NoHand /\ Flagged(x, TRUE).awaiting_action = TRUE
        BY Lit DEF CoreShape
    <2>3. m # ActionRejected /\ m # JoinedTable(Table, MySeat) /\ ~ Ends(m) /\ ~ Starts(m)
        BY <1>2 DEF ActionRejected, JoinedTable, Ends, Starts
    <2> HIDE DEF r
    <2> QED
        BY <2>1, <2>2, <2>3 DEF AtSeat, Buttons, LitHand, r
<1>3. CASE m = ActionRejected /\ r = OnActionRejected(c)
    <2>1. /\ CoreShape(r) /\ r.phase = c.phase /\ r.table = c.table /\ r.seat = c.seat
          /\ r.current_hand = (IF x = NoHand \/ c.active_prompt = NoMessage THEN x ELSE Flagged(x, TRUE))
          /\ r.active_prompt = c.active_prompt
        BY <1>3, RefusedCore
    <2>2. x # NoHand => /\ Flagged(x, TRUE) # NoHand /\ Flagged(x, TRUE).awaiting_action = TRUE
                        /\ SameHand(x, x) /\ SameHand(x, Flagged(x, TRUE))
        BY Lit DEF CoreShape
    <2>3. m.kind = "ActionRejected" /\ m # JoinedTable(Table, MySeat) /\ ~ Ends(m) /\ ~ Starts(m) /\ ~ InHand(m)
        BY <1>3 DEF ActionRejected, JoinedTable, Ends, Starts, InHand
    <2>4. SameHand(x, r.current_hand)
        BY <2>1, <2>2 DEF SameHand
    <2> HIDE DEF r
    <2> QED
        BY <2>1, <2>2, <2>3, <2>4 DEF AtSeat, Buttons, Like, r
<1>4. CASE m = JoinedTable(Table, MySeat) /\ r = OnJoinedTable(c, m)
    <2>1. CoreShape(r) /\ AtSeat(r) /\ r.current_hand = NoHand /\ r.active_prompt = NoMessage
        BY <1>4, JoinedCore
    <2>2. m # ActionRejected /\ ~ Ends(m) /\ ~ Starts(m) /\ ~ InHand(m) /\ m.kind # "Prompt"
        BY <1>4 DEF ActionRejected, JoinedTable, Ends, Starts, InHand
    <2> HIDE DEF r
    <2> QED
        BY <2>1, <2>2 DEF r
<1> QED
    BY <1>1, <1>2, <1>3, <1>4, Handlers

\* Clients that show the same go on showing the same, and one that is ahead with
\* its buttons stays ahead.
LEMMA StepAlike ==
    ASSUME NEW c, CoreShape(c), NEW d, CoreShape(d), Like(c, d), NEW m, ForSeat(m)
    PROVE  /\ Like(OnTableMessage(c, m), OnTableMessage(d, m))
           /\ Behind(c, d) => Behind(OnTableMessage(c, m), OnTableMessage(d, m))
<1> DEFINE r == OnTableMessage(c, m)
           q == OnTableMessage(d, m)
           x == c.current_hand
           y == d.current_hand
<1>0. /\ c.phase = d.phase /\ c.table = d.table /\ c.seat = d.seat /\ c.active_prompt = d.active_prompt
      /\ SameHand(x, y) /\ (x = NoHand <=> y = NoHand)
      /\ x # NoHand => HandShape(x) /\ HandShape(y)
    <2>1. SameHand(x, y)
        BY DEF Like
    <2> HIDE DEF x, y
    <2>2. (x = NoHand <=> y = NoHand) /\ (x # NoHand => HandShape(x) /\ HandShape(y))
        BY <2>1, TwinsAreHands DEF SameHand
    <2> QED
        BY <2>1, <2>2 DEF Like, x, y
<1>1. CASE m.kind = "TableEvent" /\ m.table = Table /\ m.event.kind \in HandKinds
    <2> DEFINE e == m.event
               g == ProjectHand(c, e)
               h == ProjectHand(d, e)
    <2>0. r = ProjectEngineEvent(c, Table, e) /\ q = ProjectEngineEvent(d, Table, e)
        BY <1>1 DEF OnTableMessage
    <2>1. CASE c.phase = "Seated" /\ c.table = Table
        <3>1. /\ r.phase = c.phase /\ r.table = c.table /\ r.seat = c.seat /\ r.current_hand = g
              /\ r.active_prompt = IF e.kind \in {"HandStarted", "HandEnded"} THEN NoMessage ELSE c.active_prompt
            BY <1>1, <2>0, <2>1, EventCore
        <3>2. /\ q.phase = d.phase /\ q.table = d.table /\ q.seat = d.seat /\ q.current_hand = h
              /\ q.active_prompt = IF e.kind \in {"HandStarted", "HandEnded"} THEN NoMessage ELSE d.active_prompt
            <4>1. d.phase = "Seated" /\ d.table = Table
                BY <1>0, <2>1
            <4> QED
                BY <1>1, <2>0, <4>1, EventCore
        <3>3. SameHand(g, h) /\ (Behind(c, d) /\ Buttons(r) => Buttons(q))
            <4>1. CASE e.kind = "HandStarted"
                <5>1. g = Started(e.hand) /\ h = Started(e.hand)
                    BY <4>1 DEF ProjectHand
                <5>2. HandShape(g) /\ g.awaiting_action = FALSE /\ g = h
                    BY <5>1, StartedShape
                <5>3. SameHand(g, h)
                    BY <5>2, Lit
                <5> QED
                    BY <3>1, <5>2, <5>3 DEF Buttons
            <4>2. CASE e.kind = "HandEnded" \/ (e.kind # "HandStarted" /\ x = NoHand)
                <5>1. g = NoHand /\ h = NoHand
                    BY <1>0, <4>2 DEF ProjectHand
                <5> QED
                    BY <3>1, <5>1 DEF SameHand, Buttons
            <4>3. CASE e.kind \notin {"HandStarted", "HandEnded"} /\ x # NoHand
                <5> DEFINE a == x.awaiting_action
                           b == y.awaiting_action
                <5>1. Twins(x, y, a, b) /\ a \in BOOLEAN /\ b \in BOOLEAN
                    BY <1>0, <4>3 DEF SameHand
                <5> HIDE DEF a, b
                <5>2. Twins(g, h, a, b)
                    BY <1>0, <1>1, <4>3, <5>1, MidHandTwins DEF HandKinds
                <5> HIDE DEF g, h
                <5>3. g.awaiting_action = a /\ h.awaiting_action = b /\ g # NoHand /\ h # NoHand
                    <6>1. Twins(g, h, a, b) /\ a \in BOOLEAN /\ b \in BOOLEAN
                        BY <5>1, <5>2
                    <6> QED
                        BY ONLY <6>1, TwinsAreHands, Zenon
                <5>4. SameHand(g, h)
                    BY <5>1, <5>2, <5>3 DEF SameHand
                <5>5. Behind(c, d) /\ a = TRUE => b = TRUE
                    BY <1>0, <4>3 DEF Behind, Buttons, a, b
                <5> QED
                    BY <3>1, <3>2, <5>3, <5>4, <5>5 DEF Buttons
            <4> QED
                BY <4>1, <4>2, <4>3
        <3> HIDE DEF r, q, g, h
        <3> QED
            BY <1>0, <3>1, <3>2, <3>3 DEF Like, Behind, r, q
    <2>2. CASE ~ (c.phase = "Seated" /\ c.table = Table)
        <3>1. r = c /\ q = d
            BY <1>0, <2>0, <2>2 DEF ProjectEngineEvent
        <3> QED
            BY <3>1
    <2> QED
        BY <2>1, <2>2
<1>2. CASE m.kind = "Prompt"
    <2>0. r = OnPrompt(c, m) /\ q = OnPrompt(d, m)
        BY <1>2 DEF OnTableMessage
    <2>1. /\ r.phase = c.phase /\ r.table = c.table /\ r.seat = c.seat
          /\ r.current_hand = LitHand(x) /\ r.active_prompt = m
        BY <2>0, PromptCore
    <2>2. /\ q.phase = d.phase /\ q.table = d.table /\ q.seat = d.seat
          /\ q.current_hand = LitHand(y) /\ q.active_prompt = m
        BY <2>0, PromptCore
    <2>3. CASE x = NoHand
        <3> HIDE DEF r, q
        <3> QED
            BY <1>0, <2>1, <2>2, <2>3 DEF Like, Behind, SameHand, Buttons, LitHand, r, q
    <2>4. CASE x # NoHand
        <3> DEFINE g == Flagged(x, TRUE)
                   h == Flagged(y, TRUE)
        <3>1. /\ SameHand(x, g) /\ SameHand(y, h)
              /\ HandShape(g) /\ HandShape(h) /\ g # NoHand /\ h # NoHand
              /\ g.awaiting_action = TRUE /\ h.awaiting_action = TRUE
            BY <1>0, <2>4, Lit
        <3>2. g = h
            <4>1. Twins(x, y, x.awaiting_action, y.awaiting_action)
                  /\ x.awaiting_action \in BOOLEAN /\ y.awaiting_action \in BOOLEAN
                BY <1>0, <2>4 DEF SameHand
            <4> DEFINE a == x.awaiting_action
                       b == y.awaiting_action
            <4>2. Twins(x, y, a, b) /\ a \in BOOLEAN /\ b \in BOOLEAN
                BY <4>1
            <4> HIDE DEF x, y, a, b
            <4>3. \A v : Flagged(x, v) = Flagged(y, v)
                BY ONLY <4>2, TwinsAreHands
            <4> QED
                BY <4>3, Zenon
        <3> HIDE DEF g, h
        <3>3. SameHand(g, h)
            BY <3>1, <3>2, Lit
        <3>4. r.current_hand = g /\ q.current_hand = h
            BY <1>0, <2>1, <2>2, <2>4 DEF g, h, LitHand
        <3> HIDE DEF r, q
        <3> QED
            BY <1>0, <2>1, <2>2, <3>1, <3>3, <3>4 DEF Like, Behind, Buttons, r, q
    <2> QED
        BY <2>3, <2>4
<1>3. CASE m = ActionRejected
    <2>1. Like(c, r) /\ Like(d, q)
        BY <1>3, StepKept
    <2>2. Like(r, q)
        BY <2>1, LikeOthers
    <2>3. r = OnActionRejected(c)
        <3>1. m.kind = "ActionRejected"
            BY <1>3 DEF ActionRejected
        <3> QED
            BY <3>1 DEF OnTableMessage
    <2>4. r.current_hand = (IF x = NoHand \/ c.active_prompt = NoMessage THEN x ELSE Flagged(x, TRUE))
        BY <2>3, RefusedCore
    <2>5. Buttons(r) => Buttons(c) \/ (x # NoHand /\ c.active_prompt # NoMessage)
        BY <2>4 DEF Buttons
    <2>6. Behind(c, d) /\ Buttons(r) => Buttons(d) \/ (y # NoHand /\ d.active_prompt # NoMessage)
        BY <1>0, <2>5 DEF Behind
    <2>7. Buttons(d) \/ (y # NoHand /\ d.active_prompt # NoMessage) => Buttons(q)
        BY <1>3, StepKept
    <2> QED
        BY <2>2, <2>6, <2>7 DEF Behind
<1>4. CASE m = JoinedTable(Table, MySeat)
    <2>0. r = OnJoinedTable(c, m) /\ q = OnJoinedTable(d, m)
        <3>1. m.kind = "JoinedTable"
            BY <1>4 DEF JoinedTable
        <3> QED
            BY <3>1 DEF OnTableMessage
    <2>1. AtSeat(r) /\ r.current_hand = NoHand /\ r.active_prompt = NoMessage
        BY <1>4, <2>0, JoinedCore
    <2>2. AtSeat(q) /\ q.current_hand = NoHand /\ q.active_prompt = NoMessage
        BY <1>4, <2>0, JoinedCore
    <2> HIDE DEF r, q
    <2> QED
        BY <2>1, <2>2 DEF AtSeat, Like, Behind, SameHand, Buttons, r, q
<1> QED
    BY <1>1, <1>2, <1>3, <1>4 DEF ForSeat, InHand
\* A message that starts the hand leaves nothing of what was shown before.
LEMMA StartAlike ==
    ASSUME NEW c, CoreShape(c), AtSeat(c), NEW d, CoreShape(d), AtSeat(d), NEW m, Starts(m)
    PROVE  Behind(OnTableMessage(c, m), OnTableMessage(d, m))
<1> DEFINE r == OnTableMessage(c, m)
           q == OnTableMessage(d, m)
           e == m.event
           g == Started(e.hand)
<1>1. /\ r = ProjectEngineEvent(c, Table, e) /\ q = ProjectEngineEvent(d, Table, e)
      /\ e.kind = "HandStarted" /\ e.kind \in HandKinds
    BY DEF Starts, OnTableMessage, HandKinds
<1>2. ProjectHand(c, e) = g /\ ProjectHand(d, e) = g
    BY <1>1 DEF ProjectHand
<1>3. /\ r.phase = c.phase /\ r.table = c.table /\ r.seat = c.seat /\ r.current_hand = g
      /\ r.active_prompt = NoMessage
    <2>1. c.phase = "Seated" /\ c.table = Table
        BY DEF AtSeat
    <2> QED
        BY <1>1, <1>2, <2>1, EventCore
<1>4. /\ q.phase = d.phase /\ q.table = d.table /\ q.seat = d.seat /\ q.current_hand = g
      /\ q.active_prompt = NoMessage
    <2>1. d.phase = "Seated" /\ d.table = Table
        BY DEF AtSeat
    <2> QED
        BY <1>1, <1>2, <2>1, EventCore
<1>5. SameHand(g, g)
    BY StartedShape, Lit
<1> HIDE DEF r, q, g
<1> QED
    BY <1>3, <1>4, <1>5 DEF AtSeat, Like, Behind, Buttons, r, q

\* The first i messages of a queue.
First(s, i) == SubSeq(s, 1, i)

\* The first messages, one more at a time.
LEMMA FirstOnes ==
    ASSUME NEW s, Queue(s)
    PROVE  /\ Len(s) \in Nat /\ First(s, 0) = <<>> /\ First(s, Len(s)) = s
           /\ \A i \in 0 .. Len(s) :
                 /\ Queue(First(s, i))
                 /\ i < Len(s) => /\ First(s, i + 1) = Append(First(s, i), s[i + 1])
                                  /\ s[i + 1] \in Entries(s)
<1> DEFINE S == Entries(s)
<1>1. s \in Seq(S)
    BY DEF Queue
<1>2. Len(s) \in Nat /\ DOMAIN s = 1 .. Len(s)
    BY <1>1
<1>3. \A i \in 1 .. Len(s) : s[i] \in S
    BY <1>2 DEF Entries
<1> HIDE DEF S
<1>4. ASSUME NEW i \in 0 .. Len(s)
      PROVE  /\ First(s, i) \in Seq(S) /\ Len(First(s, i)) = i
             /\ \A j \in 1 .. i : First(s, i)[j] = s[j]
    <2>1. \A j \in 1 .. i : s[j] \in S
        BY <1>2, <1>3
    <2> QED
        BY <1>1, <1>2, <2>1, SubSeqProperties DEF First
<1>5. First(s, 0) = <<>>
    BY <1>2, <1>4
<1>6. First(s, Len(s)) = s
    <2>1. Len(s) \in 0 .. Len(s)
        BY <1>2
    <2> QED
        BY <1>1, <1>2, <1>4, <2>1, SeqEqual
<1>7. ASSUME NEW i \in 0 .. Len(s) PROVE Queue(First(s, i))
    <2> DEFINE t == First(s, i)
    <2>1. t \in Seq(S)
        BY <1>4
    <2> HIDE DEF t
    <2>2. DOMAIN t = 1 .. Len(t) /\ Len(t) \in Nat /\ t = [j \in 1 .. Len(t) |-> t[j]]
        BY <2>1
    <2>3. \A j \in 1 .. Len(t) : t[j] \in Entries(t)
        BY <2>2 DEF Entries
    <2>4. t \in [1 .. Len(t) -> Entries(t)]
        BY <2>2, <2>3
    <2>5. Queue(t)
        BY <2>2, <2>4 DEF Queue
    <2> QED
        BY <2>5 DEF t
<1>8. ASSUME NEW i \in 0 .. Len(s), i < Len(s)
      PROVE  First(s, i + 1) = Append(First(s, i), s[i + 1]) /\ s[i + 1] \in S
    <2> DEFINE t == First(s, i)
               u == First(s, i + 1)
               x == s[i + 1]
    <2>1. i + 1 \in 1 .. Len(s) /\ i + 1 \in 0 .. Len(s)
        BY <1>2, <1>8
    <2>2. x \in S
        BY <1>3, <2>1
    <2>3. t \in Seq(S) /\ Len(t) = i /\ \A j \in 1 .. i : t[j] = s[j]
        BY <1>4
    <2>4. u \in Seq(S) /\ Len(u) = i + 1 /\ \A j \in 1 .. (i + 1) : u[j] = s[j]
        BY <1>4, <2>1
    <2> HIDE DEF t, u
    <2>5. /\ Append(t, x) \in Seq(S) /\ Len(Append(t, x)) = i + 1
          /\ \A j \in 1 .. (i + 1) : Append(t, x)[j] = s[j]
        BY <2>2, <2>3
    <2>6. u = Append(t, x)
        BY <2>4, <2>5, SeqEqual
    <2> QED
        BY <2>2, <2>6 DEF t, u
<1> QED
    BY <1>2, <1>5, <1>6, <1>7, <1>8 DEF S

\* The ends of a replay.
LEMMA FedEnds ==
    ASSUME NEW c, NEW s, Queue(s)
    PROVE  Fed(c, First(s, 0)) = c /\ Fed(c, First(s, Len(s))) = Fed(c, s)
BY FirstOnes, FedNothing

\* A replay, message by message.
LEMMA FedNext ==
    ASSUME NEW c, NEW s, Queue(s), NEW i \in 0 .. Len(s), i < Len(s)
    PROVE  Fed(c, First(s, i + 1)) = OnTableMessage(Fed(c, First(s, i)), s[i + 1])
<1> DEFINE t == First(s, i)
           x == s[i + 1]
<1>1. Queue(t) /\ First(s, i + 1) = Append(t, x)
    BY FirstOnes
<1> HIDE DEF t, x
<1>2. Fed(c, Append(t, x)) = OnTableMessage(Fed(c, t), x)
    BY <1>1, FedOneMore
<1> QED
    BY <1>1, <1>2 DEF t, x

\* A replay keeps a client a client, at its seat.
LEMMA FedShape ==
    ASSUME NEW c, CoreShape(c), NEW s, Queue(s), \A m \in Entries(s) : InHand(m)
    PROVE  CoreShape(Fed(c, s)) /\ (AtSeat(c) => AtSeat(Fed(c, s)))
<1> DEFINE n == Len(s)
           F(i) == Fed(c, First(s, i))
           G == {i \in 0 .. n : CoreShape(F(i)) /\ (AtSeat(c) => AtSeat(F(i)))}
<1>1. n \in Nat /\ F(0) = c /\ F(n) = Fed(c, s)
    BY FirstOnes, FedEnds
<1>2. 0 \in G
    BY <1>1
<1>3. ASSUME NEW i \in 0 .. n, i \in G, i < n PROVE i + 1 \in G
    <2> DEFINE d == F(i)
               r == F(i + 1)
               m == s[i + 1]
    <2>1. CoreShape(d) /\ (AtSeat(c) => AtSeat(d))
        BY <1>3
    <2>2. r = OnTableMessage(d, m)
        <3>1. i \in 0 .. Len(s) /\ i < Len(s)
            BY <1>3
        <3> HIDE DEF G
        <3> QED
            BY <3>1, FedNext
    <2>3. ForSeat(m)
        BY <1>3, FirstOnes DEF ForSeat
    <2> HIDE DEF d, r, m
    <2>4. CoreShape(r) /\ (AtSeat(d) => AtSeat(r))
        BY <2>1, <2>2, <2>3, StepKept
    <2> QED
        BY <1>1, <1>3, <2>1, <2>4 DEF r
<1> HIDE DEF G, n
<1>4. n \in G
    BY <1>1, <1>2, <1>3, ByCounting
<1> QED
    BY <1>1, <1>4 DEF G

\* A replay shows two clients that show the same, the same.
LEMMA FedAlike ==
    ASSUME NEW c, CoreShape(c), NEW d, CoreShape(d), Like(c, d),
           NEW s, Queue(s), \A m \in Entries(s) : InHand(m)
    PROVE  Like(Fed(c, s), Fed(d, s)) /\ (Behind(c, d) => Behind(Fed(c, s), Fed(d, s)))
<1> DEFINE n == Len(s)
           F(i) == Fed(c, First(s, i))
           E(i) == Fed(d, First(s, i))
           G == {i \in 0 .. n : /\ CoreShape(F(i)) /\ CoreShape(E(i)) /\ Like(F(i), E(i))
                                /\ Behind(c, d) => Behind(F(i), E(i))}
<1>1. n \in Nat /\ F(0) = c /\ F(n) = Fed(c, s) /\ E(0) = d /\ E(n) = Fed(d, s)
    BY FirstOnes, FedEnds
<1>2. 0 \in G
    BY <1>1
<1>3. ASSUME NEW i \in 0 .. n, i \in G, i < n PROVE i + 1 \in G
    <2> DEFINE x == F(i)
               y == E(i)
               p == F(i + 1)
               q == E(i + 1)
               m == s[i + 1]
    <2>1. CoreShape(x) /\ CoreShape(y) /\ Like(x, y) /\ (Behind(c, d) => Behind(x, y))
        BY <1>3
    <2>2. p = OnTableMessage(x, m) /\ q = OnTableMessage(y, m)
        <3>1. i \in 0 .. Len(s) /\ i < Len(s)
            BY <1>3
        <3> HIDE DEF G
        <3> QED
            BY <3>1, FedNext
    <2>3. ForSeat(m)
        BY <1>3, FirstOnes DEF ForSeat
    <2> HIDE DEF x, y, p, q, m
    <2>4. CoreShape(p) /\ CoreShape(q)
        BY <2>1, <2>2, <2>3, StepKept
    <2>5. Like(p, q) /\ (Behind(x, y) => Behind(p, q))
        BY <2>1, <2>2, <2>3, StepAlike
    <2> QED
        BY <1>1, <1>3, <2>1, <2>4, <2>5 DEF p, q
<1> HIDE DEF G, n
<1>4. n \in G
    BY <1>1, <1>2, <1>3, ByCounting
<1> QED
    BY <1>1, <1>4 DEF G

\* A replay from the start of the hand shows any two clients at the seat the same.
LEMMA FedFromStart ==
    ASSUME NEW c, CoreShape(c), AtSeat(c), NEW d, CoreShape(d), AtSeat(d),
           NEW s, Queue(s), s # <<>>, Starts(s[1]), \A m \in Entries(s) : InHand(m)
    PROVE  Behind(Fed(c, s), Fed(d, s))
<1> DEFINE n == Len(s)
           F(i) == Fed(c, First(s, i))
           E(i) == Fed(d, First(s, i))
           G == {i \in 0 .. n : /\ CoreShape(F(i)) /\ CoreShape(E(i))
                                /\ i = 0 \/ Behind(F(i), E(i))}
<1>1. n \in Nat /\ F(0) = c /\ F(n) = Fed(c, s) /\ E(0) = d /\ E(n) = Fed(d, s)
    BY FirstOnes, FedEnds
<1>2. 0 \in G
    BY <1>1
<1>3. ASSUME NEW i \in 0 .. n, i \in G, i < n PROVE i + 1 \in G
    <2> DEFINE x == F(i)
               y == E(i)
               p == F(i + 1)
               q == E(i + 1)
               m == s[i + 1]
    <2>1. CoreShape(x) /\ CoreShape(y) /\ (i = 0 \/ Behind(x, y))
        BY <1>3
    <2>2. p = OnTableMessage(x, m) /\ q = OnTableMessage(y, m)
        <3>1. i \in 0 .. Len(s) /\ i < Len(s)
            BY <1>3
        <3> HIDE DEF G
        <3> QED
            BY <3>1, FedNext
    <2>3. ForSeat(m)
        BY <1>3, FirstOnes DEF ForSeat
    <2>0. (i = 0 => x = c /\ y = d /\ Starts(m))
        BY <1>1
    <2> HIDE DEF x, y, p, q, m
    <2>4. CoreShape(p) /\ CoreShape(q)
        BY <2>1, <2>2, <2>3, StepKept
    <2>5. Behind(p, q)
        <3>1. CASE i = 0
            BY <2>0, <2>1, <2>2, <3>1, StartAlike
        <3>2. CASE Behind(x, y)
            <4>1. Like(x, y)
                BY <3>2 DEF Behind
            <4> QED
                BY <2>1, <2>2, <2>3, <3>2, <4>1, StepAlike
        <3> QED
            BY <2>1, <3>1, <3>2
    <2> QED
        BY <1>1, <1>3, <2>4, <2>5 DEF p, q
<1>4. n \in G
    <2>1. n \in Nat /\ 0 \in G /\ \A i \in 0 .. n : i \in G /\ i < n => i + 1 \in G
        <3> HIDE DEF G
        <3> QED
            BY <1>1, <1>2, <1>3
    <2> HIDE DEF G, n
    <2>2. \A i \in 0 .. n : i \in G
        BY ONLY <2>1, ByCounting
    <2> QED
        BY <2>1, <2>2
<1>5. n # 0
    BY DEF Queue
<1> QED
    BY <1>1, <1>4, <1>5
-----------------------------------------------------------------------------
(* The queue to the client, read to its end *)

\* A replay of a hand, and what the client may find in its queue.
ReplayOfHand(m) == m.kind = "ReplayEvents" /\ Queue(m.events) /\ \A x \in Entries(m.events) : InHand(x)
Arrives(m) == ForSeat(m) \/ ReplayOfHand(m)

\* The client after a message.
Inbound(c, m) == HandleInbound(c, m).core

\* handle_inbound, of a message and of a replay.
LEMMA InboundIs ==
    ASSUME NEW c, NEW m
    PROVE  /\ ForSeat(m) => Inbound(c, m) = OnTableMessage(c, m)
           /\ ReplayOfHand(m) => Inbound(c, m) = Fed(c, m.events)
<1>1. ForSeat(m) => m.kind \in {"TableEvent", "Prompt", "ActionRejected", "JoinedTable"}
    BY DEF ForSeat, InHand, ActionRejected, JoinedTable
<1>2. ASSUME ForSeat(m) PROVE Inbound(c, m) = OnTableMessage(c, m)
    <2>1. HandleInbound(c, m) = To(OnTableMessage(c, m), <<>>)
        BY <1>1, <1>2 DEF HandleInbound
    <2> QED
        BY <2>1 DEF Inbound, To
<1>3. ASSUME ReplayOfHand(m) PROVE Inbound(c, m) = Fed(c, m.events)
    <2>1. m.kind = "ReplayEvents"
        BY <1>3 DEF ReplayOfHand
    <2>2. HandleInbound(c, m) = To(OnReplay(c, m), <<>>)
        BY <2>1 DEF HandleInbound
    <2>3. OnReplay(c, m) = Fed(c, m.events)
        BY DEF OnReplay, Fed
    <2> QED
        BY <2>2, <2>3 DEF Inbound, To
<1> QED
    BY <1>2, <1>3

\* Whatever arrives, a client stays a client, at its seat.
LEMMA InboundKept ==
    ASSUME NEW c, CoreShape(c), NEW m, Arrives(m)
    PROVE  CoreShape(Inbound(c, m)) /\ (AtSeat(c) => AtSeat(Inbound(c, m)))
<1>1. CASE ForSeat(m)
    <2>1. Inbound(c, m) = OnTableMessage(c, m)
        BY <1>1, InboundIs
    <2> QED
        BY <1>1, <2>1, StepKept
<1>2. CASE ReplayOfHand(m)
    <2> DEFINE s == m.events
    <2>1. Inbound(c, m) = Fed(c, s) /\ Queue(s) /\ \A x \in Entries(s) : InHand(x)
        BY <1>2, InboundIs DEF ReplayOfHand
    <2> HIDE DEF s
    <2> QED
        BY <2>1, FedShape
<1> QED
    BY <1>1, <1>2 DEF Arrives

\* Whatever arrives, what is shown alike stays so.
LEMMA InboundAlike ==
    ASSUME NEW c, CoreShape(c), NEW d, CoreShape(d), Like(c, d), NEW m, Arrives(m)
    PROVE  Like(Inbound(c, m), Inbound(d, m)) /\ (Behind(c, d) => Behind(Inbound(c, m), Inbound(d, m)))
<1>1. CASE ForSeat(m)
    <2>1. Inbound(c, m) = OnTableMessage(c, m) /\ Inbound(d, m) = OnTableMessage(d, m)
        BY <1>1, InboundIs
    <2> QED
        BY <1>1, <2>1, StepAlike
<1>2. CASE ReplayOfHand(m)
    <2> DEFINE s == m.events
    <2>1. /\ Inbound(c, m) = Fed(c, s) /\ Inbound(d, m) = Fed(d, s)
          /\ Queue(s) /\ \A x \in Entries(s) : InHand(x)
        BY <1>2, InboundIs DEF ReplayOfHand
    <2> HIDE DEF s
    <2> QED
        BY <2>1, FedAlike
<1> QED
    BY <1>1, <1>2 DEF Arrives

\* w: the client c, after each message of the queue q.  It may have more buttons
\* than w says, since it could have read a refusal that w does not know of.
Reads(w, c, q) ==
    /\ \A i \in 0 .. Len(q) : CoreShape(w[i])
    /\ Behind(w[0], c) /\ AtSeat(w[Len(q)])
    /\ \A i \in 1 .. Len(q) : Behind(w[i], Inbound(w[i - 1], q[i]))

\* The client c that has read q shows what f shows.
CanRead(c, q, f) == \E w : Reads(w, c, q) /\ w[Len(q)] = f

\* Nothing to read.
LEMMA ReadNothing ==
    ASSUME NEW c, CoreShape(c), NEW f
    PROVE  /\ AtSeat(c) => CanRead(c, <<>>, c)
           /\ CanRead(c, <<>>, f) => Behind(f, c)
<1>1. Len(<<>>) = 0
    OBVIOUS
<1>2. ASSUME AtSeat(c) PROVE CanRead(c, <<>>, c)
    <2> DEFINE w == [i \in 0 .. 0 |-> c]
    <2>1. w[0] = c
        OBVIOUS
    <2> HIDE DEF w
    <2>2. Reads(w, c, <<>>) /\ w[Len(<<>>)] = c
        BY <1>1, <1>2, <2>1, LikeItself DEF Reads
    <2> QED
        BY <2>2 DEF CanRead
<1>3. ASSUME CanRead(c, <<>>, f) PROVE Behind(f, c)
    <2>1. PICK w : Reads(w, c, <<>>) /\ w[Len(<<>>)] = f
        BY <1>3 DEF CanRead
    <2> QED
        BY <1>1, <2>1 DEF Reads
<1> QED
    BY <1>2, <1>3

\* The client that has read the queue is at its seat.
LEMMA ReadAtSeat ==
    ASSUME NEW c, NEW q, Len(q) \in Nat, NEW f, CanRead(c, q, f)
    PROVE  CoreShape(f) /\ AtSeat(f)
<1>1. PICK w : Reads(w, c, q) /\ w[Len(q)] = f
    BY DEF CanRead
<1> QED
    BY <1>1 DEF Reads

\* One more message in the queue.
LEMMA ReadOneMore ==
    ASSUME NEW c, NEW q, Queue(q), NEW f, CanRead(c, q, f), NEW m, Arrives(m)
    PROVE  CanRead(c, Append(q, m), Inbound(f, m))
<1>1. PICK w : Reads(w, c, q) /\ w[Len(q)] = f
    BY DEF CanRead
<1> DEFINE n == Len(q)
           t == Append(q, m)
           g == Inbound(f, m)
           u == [i \in 0 .. (n + 1) |-> IF i = n + 1 THEN g ELSE w[i]]
<1>2. /\ n \in Nat /\ Len(t) = n + 1 /\ t[n + 1] = m /\ \A i \in 1 .. n : t[i] = q[i]
    <2> DEFINE S == Entries(q) \union {m}
    <2>1. q \in Seq(S) /\ m \in S
        BY DEF Queue
    <2> HIDE DEF S
    <2> QED
        BY <2>1
<1>3. CoreShape(f) /\ AtSeat(f)
    BY <1>2, ReadAtSeat
<1>4. CoreShape(g) /\ AtSeat(g)
    BY <1>3, InboundKept
<1>5. Behind(g, g)
    BY <1>4, LikeItself
<1> HIDE DEF n, t, g
<1>6. u[n + 1] = g /\ \A i \in 0 .. n : u[i] = w[i]
    BY <1>2
<1> HIDE DEF u
<1>7. \A i \in 0 .. (n + 1) : CoreShape(u[i])
    <2>1. ASSUME NEW i \in 0 .. (n + 1) PROVE CoreShape(u[i])
        <3>1. CASE i = n + 1
            BY <1>4, <1>6, <3>1
        <3>2. CASE i # n + 1
            <4>1. i \in 0 .. n
                BY <1>2, <3>2
            <4> QED
                BY <1>1, <1>6, <4>1 DEF Reads, n
        <3> QED
            BY <3>1, <3>2
    <2> QED
        BY <2>1
<1>8. ASSUME NEW i \in 1 .. (n + 1) PROVE Behind(u[i], Inbound(u[i - 1], t[i]))
    <2>1. CASE i = n + 1
        <3>1. i - 1 = n /\ n \in 0 .. n
            BY <1>2, <2>1
        <3>2. u[i - 1] = f /\ u[i] = g /\ t[i] = m
            BY <1>1, <1>2, <1>6, <2>1, <3>1 DEF n
        <3> QED
            BY <1>5, <3>2 DEF g
    <2>2. CASE i # n + 1
        <3>1. i \in 1 .. n /\ i \in 0 .. n /\ i - 1 \in 0 .. n
            BY <1>2, <2>2
        <3>2. u[i] = w[i] /\ u[i - 1] = w[i - 1] /\ t[i] = q[i]
            BY <1>2, <1>6, <3>1
        <3>3. Behind(w[i], Inbound(w[i - 1], q[i]))
            BY <1>1, <3>1 DEF Reads, n
        <3> QED
            BY <3>2, <3>3
    <2> QED
        BY <2>1, <2>2
<1>9. Behind(u[0], c)
    BY <1>1, <1>2, <1>6 DEF Reads
<1>10. Reads(u, c, t)
    BY <1>2, <1>4, <1>6, <1>7, <1>8, <1>9 DEF Reads
<1>11. u[Len(t)] = g
    BY <1>2, <1>6
<1> QED
    BY <1>10, <1>11 DEF CanRead, t, g

\* The client reads a message.
LEMMA ReadFirst ==
    ASSUME NEW c, CoreShape(c), NEW q, Queue(q), q # <<>>, \A m \in Entries(q) : Arrives(m),
           NEW f, CanRead(c, q, f)
    PROVE  CanRead(Inbound(c, Head(q)), Tail(q), f)
<1>1. PICK w : Reads(w, c, q) /\ w[Len(q)] = f
    BY DEF CanRead
<1> DEFINE n == Len(q)
           t == Tail(q)
           m == Head(q)
           u == [i \in 0 .. (n - 1) |-> w[i + 1]]
<1>2. /\ n \in Nat \ {0} /\ Len(t) = n - 1 /\ m = q[1] /\ \A i \in 1 .. (n - 1) : t[i] = q[i + 1]
    BY DEF Queue
<1>3. Arrives(m)
    BY ShiftedQueue
<1> HIDE DEF n, t, m
<1>4. \A i \in 0 .. (n - 1) : u[i] = w[i + 1] /\ i + 1 \in 0 .. n
    BY <1>2
<1> HIDE DEF u
<1>5. /\ \A i \in 0 .. n : CoreShape(w[i])
      /\ Behind(w[0], c) /\ AtSeat(w[n])
      /\ \A i \in 1 .. n : Behind(w[i], Inbound(w[i - 1], q[i]))
    BY <1>1 DEF Reads, n
<1>6. u[n - 1] = w[n] /\ u[0] = w[1] /\ n - 1 \in 0 .. (n - 1)
    BY <1>2, <1>4
<1>7. Behind(w[1], Inbound(w[0], m))
    <2>1. 1 \in 1 .. n /\ 1 - 1 = 0
        BY <1>2
    <2> QED
        BY <1>2, <1>5, <2>1
<1>8. Behind(w[1], Inbound(c, m))
    <2>1. CoreShape(w[0]) /\ Like(w[0], c) /\ Behind(w[0], c)
        BY <1>2, <1>5 DEF Behind
    <2>2. Behind(Inbound(w[0], m), Inbound(c, m))
        BY <1>3, <2>1, InboundAlike
    <2>3. Like(w[1], Inbound(w[0], m))
        BY <1>7 DEF Behind
    <2> QED
        BY <1>7, <2>2, <2>3, LikeOthers
<1>9. ASSUME NEW i \in 1 .. (n - 1) PROVE Behind(u[i], Inbound(u[i - 1], t[i]))
    <2>1. /\ i + 1 \in 1 .. n /\ (i + 1) - 1 = i /\ i \in 0 .. (n - 1) /\ i - 1 \in 0 .. (n - 1)
          /\ (i - 1) + 1 = i
        BY <1>2
    <2>2. u[i] = w[i + 1] /\ u[i - 1] = w[i] /\ t[i] = q[i + 1]
        BY <1>2, <1>4, <2>1
    <2>3. Behind(w[i + 1], Inbound(w[i], q[i + 1]))
        BY <1>5, <2>1
    <2> QED
        BY <2>2, <2>3
<1>10. \A i \in 0 .. (n - 1) : CoreShape(u[i])
    BY <1>4, <1>5
<1>11. Reads(u, Inbound(c, m), t)
    BY <1>2, <1>5, <1>6, <1>8, <1>9, <1>10 DEF Reads
<1>12. u[Len(t)] = f
    BY <1>1, <1>2, <1>6 DEF n
<1> QED
    BY <1>11, <1>12 DEF CanRead, t, m
\* The same client without its buttons.
Dark(c) == Redrawn(c, IF c.current_hand = NoHand THEN NoHand ELSE Flagged(c.current_hand, FALSE),
                   c.active_prompt, c.rejection)

\* Without its buttons a client shows the same.
LEMMA DarkIsLike ==
    ASSUME NEW c, CoreShape(c)
    PROVE  CoreShape(Dark(c)) /\ Like(Dark(c), c) /\ ~ Buttons(Dark(c)) /\ (AtSeat(c) => AtSeat(Dark(c)))
<1> DEFINE x == c.current_hand
           h == IF x = NoHand THEN NoHand ELSE Flagged(x, FALSE)
           p == c.active_prompt
           j == c.rejection
           r == Dark(c)
<1>1. x # NoHand => /\ HandShape(Flagged(x, FALSE)) /\ SameHand(x, Flagged(x, FALSE))
                    /\ Flagged(x, FALSE).awaiting_action = FALSE
    BY Lit DEF CoreShape
<1>2. h = NoHand \/ HandShape(h)
    BY <1>1
<1>3. r = Redrawn(c, h, p, j)
    BY DEF Dark
<1>4. SameHand(x, h) /\ (h # NoHand => h.awaiting_action = FALSE)
    BY <1>1 DEF SameHand
<1> HIDE DEF h, p, j, r
<1>5. /\ CoreShape(r) /\ r.phase = c.phase /\ r.table = c.table /\ r.seat = c.seat
      /\ r.current_hand = h /\ r.active_prompt = p
    BY <1>2, <1>3, CoreAfter
<1>6. Like(c, r)
    BY <1>4, <1>5 DEF Like, p
<1>7. Like(r, c)
    BY <1>6, LikeOthers
<1>8. ~ Buttons(r)
    BY <1>4, <1>5 DEF Buttons
<1> QED
    BY <1>5, <1>7, <1>8 DEF AtSeat, r

\* Whatever its buttons, the client that has read its queue shows the same.
LEMMA ReadDark ==
    ASSUME NEW c, NEW d, Like(c, d), NEW q, Queue(q), \A m \in Entries(q) : Arrives(m),
           NEW f, CanRead(c, q, f)
    PROVE  CanRead(d, q, Dark(f)) /\ Like(Dark(f), f)
<1>1. PICK w : Reads(w, c, q) /\ w[Len(q)] = f
    BY DEF CanRead
<1> DEFINE n == Len(q)
           u == [i \in 0 .. n |-> Dark(w[i])]
<1>2. n \in Nat /\ n \in 0 .. n /\ 0 \in 0 .. n /\ DOMAIN q = 1 .. n
    BY DEF Queue
<1> HIDE DEF n
<1>3. \A i \in 0 .. n : u[i] = Dark(w[i])
    OBVIOUS
<1> HIDE DEF u
<1>4. /\ \A i \in 0 .. n : CoreShape(w[i])
      /\ Behind(w[0], c) /\ AtSeat(w[n])
      /\ \A i \in 1 .. n : Behind(w[i], Inbound(w[i - 1], q[i]))
    BY <1>1 DEF Reads, n
<1>5. \A i \in 0 .. n : CoreShape(u[i]) /\ Like(u[i], w[i]) /\ ~ Buttons(u[i])
    BY <1>3, <1>4, DarkIsLike
<1>6. AtSeat(u[n])
    BY <1>2, <1>3, <1>4, DarkIsLike
<1>7. Behind(u[0], d)
    <2>1. Like(u[0], w[0]) /\ Like(w[0], c) /\ ~ Buttons(u[0])
        BY <1>2, <1>4, <1>5 DEF Behind
    <2>2. Like(u[0], c)
        BY <2>1, LikeOthers
    <2>3. Like(u[0], d)
        BY <2>2, LikeOthers
    <2> QED
        BY <2>1, <2>3 DEF Behind
<1>8. ASSUME NEW i \in 1 .. n PROVE Behind(u[i], Inbound(u[i - 1], q[i]))
    <2> DEFINE a == w[i - 1]
               b == u[i - 1]
               m == q[i]
               x == w[i]
               y == u[i]
    <2>1. i \in 0 .. n /\ i - 1 \in 0 .. n
        BY <1>2
    <2>2. /\ Like(x, Inbound(a, m)) /\ CoreShape(a) /\ CoreShape(b) /\ Like(b, a)
          /\ Like(y, x) /\ ~ Buttons(y)
        BY <1>4, <1>5, <2>1 DEF Behind
    <2>3. Arrives(m)
        BY <1>2 DEF Entries
    <2> HIDE DEF a, b, m, x, y
    <2>4. Like(a, b)
        BY <2>2, LikeOthers
    <2>5. Like(Inbound(a, m), Inbound(b, m))
        BY <2>2, <2>3, <2>4, InboundAlike
    <2>6. Like(y, Inbound(a, m))
        BY <2>2, LikeOthers
    <2>7. Like(y, Inbound(b, m))
        BY <2>5, <2>6, LikeOthers
    <2>8. Behind(y, Inbound(b, m))
        BY <2>2, <2>7 DEF Behind
    <2> QED
        BY <2>8 DEF y, b, m
<1>9. Reads(u, d, q)
    BY <1>5, <1>6, <1>7, <1>8 DEF Reads, n
<1>10. u[n] = Dark(f) /\ Like(u[n], w[n]) /\ w[n] = f
    BY <1>1, <1>2, <1>3, <1>5 DEF n
<1> QED
    BY <1>9, <1>10 DEF CanRead, n

-----------------------------------------------------------------------------
(* The calls of the engine thread, made to their end *)

\* A call takes what the client will have been sent from f to g, and what the
\* buffer rebuilds from b to k.
Does(x, f, b, g, k) ==
    \/ x.call = "replay_push" /\ Like(f, g) /\ k = OnTableMessage(b, x.message)
    \/ x.call \in {"current().try_send", "try_send"} /\ Like(OnTableMessage(f, x.message), g) /\ k = b
    \/ x.call = "pending" /\ Like(f, g) /\ k = b
    \/ x.call = "replay_end" /\ Like(f, g) /\ k = Joined(NoKey)
Doable(x) == x.call \in {"replay_push", "current().try_send", "try_send"} => ForSeat(x.message)

\* l and k: the two after each of the calls t, which end alike.
Makes(l, k, t, f, b) ==
    /\ \A i \in 0 .. Len(t) : CoreShape(l[i])
    /\ Like(f, l[0]) /\ k[0] = b
    /\ \A i \in 1 .. Len(t) : Does(t[i], l[i - 1], k[i - 1], l[i], k[i])
    /\ Like(l[Len(t)], k[Len(t)])
CanMake(t, f, b) == \E l, k : Makes(l, k, t, f, b)

\* No call to make.
LEMMA MakeNothing ==
    ASSUME NEW f, CoreShape(f), NEW b
    PROVE  CanMake(<<>>, f, b) <=> Like(f, b)
<1>1. Len(<<>>) = 0
    OBVIOUS
<1>2. ASSUME Like(f, b) PROVE CanMake(<<>>, f, b)
    <2> DEFINE l == [i \in 0 .. 0 |-> f]
               k == [i \in 0 .. 0 |-> b]
    <2>1. l[0] = f /\ k[0] = b
        OBVIOUS
    <2> HIDE DEF l, k
    <2>2. Makes(l, k, <<>>, f, b)
        BY <1>1, <1>2, <2>1, LikeItself DEF Makes
    <2> QED
        BY <2>2 DEF CanMake
<1>3. ASSUME CanMake(<<>>, f, b) PROVE Like(f, b)
    <2>1. PICK l, k : Makes(l, k, <<>>, f, b)
        BY <1>3 DEF CanMake
    <2>2. Like(f, l[0]) /\ Like(l[0], k[0]) /\ k[0] = b
        BY <1>1, <2>1 DEF Makes
    <2> QED
        BY <2>2, LikeOthers
<1> QED
    BY <1>2, <1>3

\* Only what is shown matters.
LEMMA MakeAlike ==
    ASSUME NEW t, NEW f, NEW g, Like(f, g), NEW b, CanMake(t, f, b)
    PROVE  CanMake(t, g, b)
<1>1. PICK l, k : Makes(l, k, t, f, b)
    BY DEF CanMake
<1>2. Like(f, l[0])
    BY <1>1 DEF Makes
<1>3. Like(g, l[0])
    BY <1>2, LikeOthers
<1>4. Makes(l, k, t, g, b)
    BY <1>1, <1>3 DEF Makes
<1> QED
    BY <1>4 DEF CanMake

\* What a call does to clients that show the same.
LEMMA DoesAlike ==
    ASSUME NEW x, Doable(x), NEW f, CoreShape(f), NEW h, CoreShape(h), Like(f, h),
           NEW b, NEW g, NEW k, NEW g2, NEW k2, Does(x, f, b, g, k), Does(x, h, b, g2, k2)
    PROVE  Like(g, g2) /\ k = k2
<1>1. CASE x.call \in {"replay_push", "pending", "replay_end"}
    <2>1. Like(f, g) /\ Like(h, g2) /\ k = k2
        BY <1>1 DEF Does
    <2>2. Like(g, f)
        BY <2>1, LikeOthers
    <2>3. Like(g, h)
        BY <2>2, LikeOthers
    <2> QED
        BY <2>1, <2>3, LikeOthers
<1>2. CASE x.call \in {"current().try_send", "try_send"}
    <2> DEFINE p == OnTableMessage(f, x.message)
               q == OnTableMessage(h, x.message)
               m == x.message
    <2>1. Like(p, g) /\ Like(q, g2) /\ k = k2
        BY <1>2 DEF Does
    <2>2. ForSeat(m)
        BY <1>2 DEF Doable
    <2>3. Like(p, q)
        BY <2>2, StepAlike
    <2> HIDE DEF p, q
    <2>4. Like(g, p)
        BY <2>1, LikeOthers
    <2>5. Like(g, q)
        BY <2>3, <2>4, LikeOthers
    <2> QED
        BY <2>1, <2>5, LikeOthers
<1> QED
    BY <1>1, <1>2 DEF Does

\* What a call leads to may be replaced by what shows the same.
LEMMA DoesOther ==
    ASSUME NEW x, NEW f, NEW b, NEW g, NEW k, NEW h, Does(x, f, b, g, k), Like(g, h)
    PROVE  Does(x, f, b, h, k)
<1>1. \A e : Like(e, g) => Like(e, h)
    BY LikeOthers
<1> QED
    BY <1>1 DEF Does

\* The first call, and the others.
LEMMA MakeFirst ==
    ASSUME NEW t, Queue(t), t # <<>>, Doable(Head(t)), NEW f, CoreShape(f), NEW b,
           NEW g, CoreShape(g), NEW e, Does(Head(t), f, b, g, e)
    PROVE  CanMake(t, f, b) <=> CanMake(Tail(t), g, e)
<1> DEFINE n == Len(t)
           s == Tail(t)
           x == Head(t)
<1>1. /\ n \in Nat \ {0} /\ Len(s) = n - 1 /\ x = t[1] /\ \A i \in 1 .. (n - 1) : s[i] = t[i + 1]
    BY DEF Queue
<1>2. Doable(x) /\ Does(x, f, b, g, e)
    OBVIOUS
<1> HIDE DEF n, s, x
<1>3. ASSUME CanMake(t, f, b) PROVE CanMake(s, g, e)
    <2>1. PICK l, k : Makes(l, k, t, f, b)
        BY <1>3 DEF CanMake
    <2> DEFINE u == [i \in 0 .. (n - 1) |-> l[i + 1]]
               v == [i \in 0 .. (n - 1) |-> k[i + 1]]
    <2>2. \A i \in 0 .. (n - 1) : u[i] = l[i + 1] /\ v[i] = k[i + 1] /\ i + 1 \in 0 .. n
        BY <1>1
    <2> HIDE DEF u, v
    <2>3. /\ \A i \in 0 .. n : CoreShape(l[i])
          /\ Like(f, l[0]) /\ k[0] = b
          /\ \A i \in 1 .. n : Does(t[i], l[i - 1], k[i - 1], l[i], k[i])
          /\ Like(l[n], k[n])
        BY <2>1 DEF Makes, n
    <2>4. Does(x, l[0], b, l[1], k[1]) /\ CoreShape(l[0])
        <3>1. 1 \in 1 .. n /\ 1 - 1 = 0 /\ 0 \in 0 .. n
            BY <1>1
        <3> QED
            BY <1>1, <2>3, <3>1
    <2>5. Like(g, l[1]) /\ e = k[1]
        <3> DEFINE h == l[0]
                   g2 == l[1]
                   k2 == k[1]
        <3>1. Does(x, h, b, g2, k2) /\ CoreShape(h) /\ Like(f, h)
            BY <2>3, <2>4
        <3> HIDE DEF h, g2, k2
        <3>2. Like(g, g2) /\ e = k2
            BY <1>2, <3>1, DoesAlike
        <3> QED
            BY <3>2 DEF g2, k2
    <2>6. u[0] = l[1] /\ v[0] = k[1] /\ u[n - 1] = l[n] /\ v[n - 1] = k[n]
        BY <1>1, <2>2
    <2>7. ASSUME NEW i \in 1 .. (n - 1) PROVE Does(s[i], u[i - 1], v[i - 1], u[i], v[i])
        <3>1. /\ i + 1 \in 1 .. n /\ (i + 1) - 1 = i /\ i \in 0 .. (n - 1) /\ i - 1 \in 0 .. (n - 1)
              /\ (i - 1) + 1 = i
            BY <1>1
        <3>2. /\ u[i] = l[i + 1] /\ u[i - 1] = l[i] /\ v[i] = k[i + 1] /\ v[i - 1] = k[i]
              /\ s[i] = t[i + 1]
            BY <1>1, <2>2, <3>1
        <3>3. Does(t[i + 1], l[i], k[i], l[i + 1], k[i + 1])
            BY <2>3, <3>1
        <3> QED
            BY <3>2, <3>3
    <2>8. \A i \in 0 .. (n - 1) : CoreShape(u[i])
        BY <2>2, <2>3
    <2>9. Makes(u, v, s, g, e)
        BY <1>1, <2>3, <2>5, <2>6, <2>7, <2>8 DEF Makes
    <2> QED
        BY <2>9 DEF CanMake
<1>4. ASSUME CanMake(s, g, e) PROVE CanMake(t, f, b)
    <2>1. PICK l, k : Makes(l, k, s, g, e)
        BY <1>4 DEF CanMake
    <2> DEFINE u == [i \in 0 .. n |-> IF i = 0 THEN f ELSE l[i - 1]]
               v == [i \in 0 .. n |-> IF i = 0 THEN b ELSE k[i - 1]]
    <2>2. /\ u[0] = f /\ v[0] = b
          /\ \A i \in 1 .. n : u[i] = l[i - 1] /\ v[i] = k[i - 1] /\ i - 1 \in 0 .. (n - 1)
        BY <1>1
    <2> HIDE DEF u, v
    <2>3. /\ \A i \in 0 .. (n - 1) : CoreShape(l[i])
          /\ Like(g, l[0]) /\ k[0] = e
          /\ \A i \in 1 .. (n - 1) : Does(s[i], l[i - 1], k[i - 1], l[i], k[i])
          /\ Like(l[n - 1], k[n - 1])
        BY <1>1, <2>1 DEF Makes
    <2>4. Does(x, f, b, l[0], k[0])
        <3> DEFINE h == l[0]
        <3>1. Like(g, h) /\ k[0] = e
            BY <2>3
        <3> HIDE DEF h
        <3>2. Does(x, f, b, h, e)
            BY <1>2, <3>1, DoesOther
        <3> QED
            BY <3>1, <3>2 DEF h
    <2>5. ASSUME NEW i \in 0 .. n PROVE CoreShape(u[i])
        <3>1. CASE i = 0
            BY <2>2, <3>1
        <3>2. CASE i # 0
            <4>1. i \in 1 .. n
                BY <1>1, <3>2
            <4> QED
                BY <2>2, <2>3, <4>1
        <3> QED
            BY <3>1, <3>2
    <2>6. ASSUME NEW i \in 1 .. n PROVE Does(t[i], u[i - 1], v[i - 1], u[i], v[i])
        <3>1. CASE i = 1
            <4>1. u[i - 1] = f /\ v[i - 1] = b /\ u[i] = l[0] /\ v[i] = k[0] /\ t[i] = x
                BY <1>1, <2>2, <3>1
            <4> QED
                BY <2>4, <4>1
        <3>2. CASE i # 1
            <4>1. i - 1 \in 1 .. (n - 1) /\ i - 1 \in 1 .. n /\ (i - 1) + 1 = i
                BY <1>1, <3>2
            <4>2. /\ u[i - 1] = l[(i - 1) - 1] /\ v[i - 1] = k[(i - 1) - 1]
                  /\ u[i] = l[i - 1] /\ v[i] = k[i - 1] /\ t[i] = s[i - 1]
                BY <1>1, <2>2, <4>1
            <4>3. Does(s[i - 1], l[(i - 1) - 1], k[(i - 1) - 1], l[i - 1], k[i - 1])
                BY <2>3, <4>1
            <4> QED
                BY <4>2, <4>3
        <3> QED
            BY <3>1, <3>2
    <2>7. f = u[0] /\ Like(f, f) /\ u[n] = l[n - 1] /\ v[n] = k[n - 1]
        BY <1>1, <2>2, LikeItself
    <2>8. Makes(u, v, t, f, b)
        BY <1>1, <2>2, <2>3, <2>5, <2>6, <2>7 DEF Makes, n
    <2> QED
        BY <2>8 DEF CanMake
<1> QED
    BY <1>3, <1>4 DEF s
-----------------------------------------------------------------------------
(* The calls that the engine thread makes for an event *)

\* The calls for an event, for a player who goes all in, and for a prompt.
Fanned(m) == <<ReplayPush(m), SendCurrent(m)>>
FannedTwice(m, n) == <<ReplayPush(m), SendCurrent(m), ReplayPush(n), SendCurrent(n)>>
Asking(c, p) == <<Register(c, p), SendTo(c, p), ReplayPush(p)>>
AskingSent(c, p) == <<SendTo(c, p), ReplayPush(p)>>

\* The fields of the calls.
LEMMA CallFields ==
    /\ \A m : /\ ReplayPush(m).call = "replay_push" /\ ReplayPush(m).message = m
              /\ SendCurrent(m).call = "current().try_send" /\ SendCurrent(m).message = m
    /\ \A c, m : /\ Register(c, m).call = "pending" /\ Register(c, m).message = m /\ Register(c, m).conn = c
                 /\ SendTo(c, m).call = "try_send" /\ SendTo(c, m).message = m /\ SendTo(c, m).conn = c
    /\ ReplayEnd.call = "replay_end"
    /\ \A h : ReplayBegin(h).call = "replay_begin" /\ ReplayBegin(h).hand = h
BY DEF ReplayPush, SendCurrent, Register, SendTo, ReplayEnd, ReplayBegin

\* Calls, one after the other.
LEMMA CallsInTurn ==
    /\ \A a : Queue(<<a>>) /\ <<a>> # <<>> /\ Head(<<a>>) = a /\ Tail(<<a>>) = <<>>
    /\ \A a, b : Queue(<<a, b>>) /\ <<a, b>> # <<>> /\ Head(<<a, b>>) = a /\ Tail(<<a, b>>) = <<b>>
    /\ \A a, b, c : /\ Queue(<<a, b, c>>) /\ <<a, b, c>> # <<>> /\ Head(<<a, b, c>>) = a
                    /\ Tail(<<a, b, c>>) = <<b, c>>
    /\ \A a, b, c, d : /\ Queue(<<a, b, c, d>>) /\ Entries(<<a, b, c, d>>) = {a, b, c, d}
                       /\ <<a, b, c, d>> # <<>> /\ Head(<<a, b, c, d>>) = a
                       /\ Tail(<<a, b, c, d>>) = <<b, c, d>>
<1>1. \A a, b, c, d : Queue(<<a, b, c, d>>) /\ Entries(<<a, b, c, d>>) = {a, b, c, d}
    BY DEF Queue, Entries
<1>2. \A a, b, c, d : /\ <<a, b, c, d>> # <<>> /\ Head(<<a, b, c, d>>) = a
                      /\ Tail(<<a, b, c, d>>) = <<b, c, d>>
    OBVIOUS
<1> QED
    BY <1>1, <1>2, ShortQueues

\* The calls for two events, joined.
LEMMA CallsOfTwo ==
    ASSUME NEW a, NEW b, NEW c, NEW d
    PROVE  <<a, b>> \o <<c, d>> = <<a, b, c, d>>
<1> DEFINE S == {a, b, c, d}
<1>1. <<a, b>> \in Seq(S) /\ <<c, d>> \in Seq(S) /\ <<a, b, c, d>> \in Seq(S)
    OBVIOUS
<1> HIDE DEF S
<1>2. /\ <<a, b>> \o <<c, d>> \in Seq(S) /\ Len(<<a, b>> \o <<c, d>>) = 4
      /\ (<<a, b>> \o <<c, d>>)[1] = a /\ (<<a, b>> \o <<c, d>>)[2] = b
      /\ (<<a, b>> \o <<c, d>>)[3] = c /\ (<<a, b>> \o <<c, d>>)[4] = d
    BY <1>1
<1>3. \A i \in 1 .. 4 : (<<a, b>> \o <<c, d>>)[i] = <<a, b, c, d>>[i]
    BY <1>2
<1> QED
    BY <1>1, <1>2, <1>3, SeqEqual

\* The client that has just sat down, and the one that a takeover connects.
LEMMA NewClients ==
    LET fresh == OnWelcome(CoreNew(NoKey), Welcome(1)).core
    IN  /\ CoreShape(fresh)
        /\ CoreShape(Joined(NoKey)) /\ AtSeat(Joined(NoKey))
        /\ Joined(NoKey).current_hand = NoHand /\ Joined(NoKey).active_prompt = NoMessage
<1> DEFINE fresh == OnWelcome(CoreNew(NoKey), Welcome(1)).core
<1>1. fresh = CoreOf("Lobby", NoTable, NoSeat, NoHand, FALSE, 1, FALSE, NoMessage, NoMessage)
    <2> DEFINE n == CoreNew(NoKey)
               e == Enter(n, "Lobby")
    <2>1. n = CoreOf("Disconnected", NoTable, NoSeat, NoHand, FALSE, NoKey, FALSE, NoMessage, NoMessage)
        BY DEF CoreNew, CoreOf
    <2> HIDE DEF n
    <2>2. e = CoreOf("Lobby", NoTable, NoSeat, NoHand, FALSE, NoKey, FALSE, NoMessage, NoMessage)
        <3> HIDE DEF e
        <3>1. e = [n EXCEPT !.phase = "Lobby", !.table = NoTable, !.seat = NoSeat]
            BY DEF e, Enter
        <3> QED
            BY <2>1, <3>1 DEF CoreOf
    <2> HIDE DEF e
    <2>3. fresh = [e EXCEPT !.session_key = 1]
        BY DEF OnWelcome, To, Welcome, n, e
    <2> HIDE DEF fresh
    <2> QED
        BY <2>2, <2>3 DEF CoreOf
<1>2. Joined(NoKey) = OnJoinedTable(fresh, JoinedTable(Table, MySeat))
    BY DEF Joined
<1> HIDE DEF fresh
<1>3. CoreShape(fresh)
    BY <1>1 DEF CoreShape, CoreOf
<1>4. /\ CoreShape(Joined(NoKey)) /\ AtSeat(Joined(NoKey))
      /\ Joined(NoKey).current_hand = NoHand /\ Joined(NoKey).active_prompt = NoMessage
    BY <1>2, <1>3, JoinedCore
<1> QED
    BY <1>3, <1>4 DEF fresh

\* The calls for an event: both sides take it.
LEMMA FanFirst ==
    ASSUME NEW m, ForSeat(m), NEW t, Queue(t), t # <<>>, NEW u, Tail(t) = u, Queue(u), u # <<>>,
           Head(t) = ReplayPush(m), Head(u) = SendCurrent(m),
           NEW f, CoreShape(f), NEW b
    PROVE  CanMake(t, f, b) <=> CanMake(Tail(u), OnTableMessage(f, m), OnTableMessage(b, m))
<1> DEFINE g == OnTableMessage(f, m)
           e == OnTableMessage(b, m)
           x == Head(t)
           y == Head(u)
<1>1. x.call = "replay_push" /\ x.message = m /\ y.call = "current().try_send" /\ y.message = m
    BY CallFields
<1>2. CoreShape(g)
    BY StepKept
<1>3. Like(f, f) /\ Like(g, g)
    BY <1>2, LikeItself
<1>4. Does(x, f, b, f, e) /\ Does(y, f, e, g, e) /\ Doable(x) /\ Doable(y)
    <2> HIDE DEF x, y
    <2> QED
        BY <1>1, <1>3 DEF Does, Doable
<1> HIDE DEF g, e
<1>5. CanMake(t, f, b) <=> CanMake(Tail(t), f, e)
    BY <1>4, MakeFirst
<1>6. CanMake(u, f, e) <=> CanMake(Tail(u), g, e)
    BY <1>2, <1>4, MakeFirst
<1> QED
    BY <1>5, <1>6 DEF g, e

\* An event that both sides take: they go on showing the same.
LEMMA FannedMade ==
    ASSUME NEW f, CoreShape(f), NEW b, CoreShape(b), Like(f, b), NEW m, ForSeat(m)
    PROVE  CanMake(Fanned(m), f, b)
<1> DEFINE x == ReplayPush(m)
           y == SendCurrent(m)
           t == <<x, y>>
           u == <<y>>
           g == OnTableMessage(f, m)
           e == OnTableMessage(b, m)
<1>1. /\ Queue(t) /\ t # <<>> /\ Tail(t) = u /\ Queue(u) /\ u # <<>> /\ Head(t) = ReplayPush(m)
      /\ Head(u) = SendCurrent(m) /\ Tail(u) = <<>>
    <2> HIDE DEF x, y
    <2>1. /\ Queue(t) /\ t # <<>> /\ Tail(t) = u /\ Queue(u) /\ u # <<>> /\ Head(t) = x
          /\ Head(u) = y /\ Tail(u) = <<>>
        BY CallsInTurn
    <2> QED
        BY <2>1 DEF x, y
<1>2. CoreShape(g) /\ Like(g, e)
    BY StepKept, StepAlike
<1> HIDE DEF t, u
<1>3. CanMake(t, f, b) <=> CanMake(<<>>, g, e)
    BY <1>1, FanFirst
<1> HIDE DEF g, e
<1>4. CanMake(<<>>, g, e)
    BY <1>2, MakeNothing
<1> QED
    BY <1>3, <1>4 DEF t, Fanned, x, y

\* Two of them.
LEMMA FannedTwiceMade ==
    ASSUME NEW f, CoreShape(f), NEW b, CoreShape(b), Like(f, b), NEW m, ForSeat(m), NEW n, ForSeat(n)
    PROVE  CanMake(FannedTwice(m, n), f, b)
<1> DEFINE x == ReplayPush(m)
           y == SendCurrent(m)
           v == ReplayPush(n)
           w == SendCurrent(n)
           t == <<x, y, v, w>>
           u == <<y, v, w>>
           g == OnTableMessage(f, m)
           e == OnTableMessage(b, m)
<1>1. /\ Queue(t) /\ t # <<>> /\ Tail(t) = u /\ Queue(u) /\ u # <<>> /\ Head(t) = ReplayPush(m)
      /\ Head(u) = SendCurrent(m) /\ Tail(u) = Fanned(n)
    <2> HIDE DEF x, y, v, w
    <2>1. /\ Queue(t) /\ t # <<>> /\ Tail(t) = u /\ Queue(u) /\ u # <<>> /\ Head(t) = x
          /\ Head(u) = y /\ Tail(u) = <<v, w>>
        BY CallsInTurn
    <2> QED
        BY <2>1 DEF x, y, v, w, Fanned
<1>2. CoreShape(g) /\ CoreShape(e) /\ Like(g, e)
    BY StepKept, StepAlike
<1> HIDE DEF t, u
<1>3. CanMake(t, f, b) <=> CanMake(Tail(u), g, e)
    BY <1>1, FanFirst
<1> HIDE DEF g, e
<1>4. CanMake(Fanned(n), g, e)
    BY <1>2, FannedMade
<1> QED
    BY <1>1, <1>3, <1>4 DEF t, FannedTwice, x, y, v, w

\* The result of a hand, and the empty buffer after it.
LEMMA ClosingMade ==
    ASSUME NEW f, CoreShape(f), AtSeat(f), NEW b, NEW m, InHand(m), Ends(m)
    PROVE  CanMake(Closing(m), f, b)
<1> DEFINE x == ReplayPush(m)
           y == SendCurrent(m)
           z == ReplayEnd
           t == <<x, y, z>>
           u == <<y, z>>
           g == OnTableMessage(f, m)
           e == OnTableMessage(b, m)
           j == Joined(NoKey)
           s == <<z>>
<1>1. /\ Queue(t) /\ t # <<>> /\ Tail(t) = u /\ Queue(u) /\ u # <<>> /\ Head(t) = ReplayPush(m)
      /\ Head(u) = SendCurrent(m) /\ Tail(u) = s
      /\ Queue(s) /\ s # <<>> /\ Tail(s) = <<>> /\ Head(s) = z
    <2> HIDE DEF x, y, z
    <2>1. /\ Queue(t) /\ t # <<>> /\ Tail(t) = u /\ Queue(u) /\ u # <<>> /\ Head(t) = x
          /\ Head(u) = y /\ Tail(u) = s
          /\ Queue(s) /\ s # <<>> /\ Tail(s) = <<>> /\ Head(s) = z
        BY CallsInTurn
    <2> QED
        BY <2>1 DEF x, y
<1>2. ForSeat(m)
    BY DEF ForSeat
<1>3. CoreShape(g) /\ AtSeat(g) /\ g.current_hand = NoHand /\ g.active_prompt = NoMessage
    BY <1>2, StepKept
<1> HIDE DEF t, u, s
<1>4. CanMake(t, f, b) <=> CanMake(s, g, e)
    BY <1>1, <1>2, FanFirst
<1>5. z.call = "replay_end"
    BY CallFields
<1> HIDE DEF g, e, j, z
<1>6. Like(g, g) /\ Like(g, j)
    <2>1. AtSeat(j) /\ j.current_hand = NoHand /\ j.active_prompt = NoMessage
        BY NewClients DEF j
    <2> QED
        BY <1>3, <2>1, LikeItself DEF Like, SameHand, AtSeat
<1>7. Does(z, g, e, g, j) /\ Doable(z)
    BY <1>5, <1>6 DEF Does, Doable, j
<1>8. CanMake(s, g, e) <=> CanMake(Tail(s), g, j)
    BY <1>1, <1>3, <1>7, MakeFirst
<1>9. CanMake(<<>>, g, j)
    BY <1>3, <1>6, MakeNothing
<1> QED
    BY <1>1, <1>4, <1>8, <1>9 DEF t, Closing, x, y, z

\* A prompt that is sent and kept, from its sending on and from its keeping on.
LEMMA PromptMade ==
    ASSUME NEW p, ForSeat(p), NEW c, NEW f, CoreShape(f), NEW b
    PROVE  /\ CanMake(<<ReplayPush(p)>>, f, b) <=> Like(f, OnTableMessage(b, p))
           /\ CanMake(AskingSent(c, p), f, b) <=> Like(OnTableMessage(f, p), OnTableMessage(b, p))
           /\ CanMake(Asking(c, p), f, b) <=> Like(OnTableMessage(f, p), OnTableMessage(b, p))
<1> DEFINE x == Register(c, p)
           y == SendTo(c, p)
           z == ReplayPush(p)
           g == OnTableMessage(f, p)
           e == OnTableMessage(b, p)
           s == <<z>>
           u == <<y, z>>
           t == <<x, y, z>>
<1>1. /\ Queue(s) /\ s # <<>> /\ Head(s) = z /\ Tail(s) = <<>>
      /\ Queue(u) /\ u # <<>> /\ Head(u) = y /\ Tail(u) = s
      /\ Queue(t) /\ t # <<>> /\ Head(t) = x /\ Tail(t) = u
    <2> HIDE DEF x, y, z
    <2> QED
        BY CallsInTurn
<1>2. /\ x.call = "pending" /\ y.call = "try_send" /\ y.message = p
      /\ z.call = "replay_push" /\ z.message = p
    BY CallFields
<1>3. CoreShape(g)
    BY StepKept
<1>4. Like(f, f) /\ Like(g, g)
    BY <1>3, LikeItself
<1> HIDE DEF x, y, z
<1>5. /\ Does(x, f, b, f, b) /\ Doable(x) /\ Does(y, f, b, g, b) /\ Doable(y)
      /\ Does(z, f, b, f, e) /\ Does(z, g, b, g, e) /\ Doable(z)
    BY <1>2, <1>4 DEF Does, Doable
<1> HIDE DEF g, e, s, t, u
<1>6. CanMake(s, f, b) <=> CanMake(Tail(s), f, e)
    BY <1>1, <1>5, MakeFirst
<1>7. CanMake(s, g, b) <=> CanMake(Tail(s), g, e)
    BY <1>1, <1>3, <1>5, MakeFirst
<1>8. CanMake(u, f, b) <=> CanMake(s, g, b)
    <2>1. CanMake(u, f, b) <=> CanMake(Tail(u), g, b)
        BY <1>1, <1>3, <1>5, MakeFirst
    <2> QED
        BY <1>1, <2>1
<1>9. CanMake(t, f, b) <=> CanMake(u, f, b)
    <2>1. CanMake(t, f, b) <=> CanMake(Tail(t), f, b)
        BY <1>1, <1>5, MakeFirst
    <2> QED
        BY <1>1, <2>1
<1>10. (CanMake(<<>>, f, e) <=> Like(f, e)) /\ (CanMake(<<>>, g, e) <=> Like(g, e))
    BY <1>3, MakeNothing
<1>11. s = <<ReplayPush(p)>> /\ u = AskingSent(c, p) /\ t = Asking(c, p)
    BY DEF s, u, t, x, y, z, AskingSent, Asking
<1> QED
    BY <1>1, <1>6, <1>7, <1>8, <1>9, <1>10, <1>11 DEF g, e

-----------------------------------------------------------------------------
(* What the client shows, and what its buffer would show: the invariant *)

\* Nothing but messages of hands is kept, and on its way nothing else that the
\* client does not know how to read.
ViewTypes ==
    /\ CoreShape(core) /\ Queue(in)
    /\ \A m \in Entries(out) : Arrives(m)
    /\ \A m \in Entries(buf.events) \union Entries(reply.events) : InHand(m)
    /\ \A x \in Entries(todo) : Carries(x) => InHand(x.message)
    /\ \A c \in Conns : pending[c] = NoMessage \/ InHand(pending[c])
    /\ lifted = NoMessage \/ InHand(lifted)

\* The buffer of a hand starts with the start of the hand.
Begun ==
    /\ buf.events # <<>> => Starts(buf.events[1])
    /\ buf.events = <<>> => \/ todo = <<>> /\ stage = "Idle"
                            \/ todo = Opening
                            \/ todo = Fanned(TableEvent(Table, HandStarted(hand)))

\* A client that has missed nothing has the seat, and the calls are for it.
HoldsSeat ==
    /\ clean => /\ bound = conn /\ session \in {"Reading", "Replying"}
                /\ \A x \in Entries(todo) : x.call = "try_send" => x.conn = conn
    /\ session = "Replying" => reply # NoBuffer

\* A player is asked in a hand that has begun; the prompt is registered, then sent,
\* then kept.
Prompting ==
    stage \in {"Asked", "Answered"} =>
        /\ asked.kind = "Prompt" /\ buf.events # <<>>
        /\ \/ todo = <<>> \/ todo = <<ReplayPush(asked)>>
           \/ \E c \in Conns : todo = AskingSent(c, asked) \/ todo = Asking(c, asked)

\* The buffer of a hand that is played shows the hand, and the prompt once kept.
KeptView ==
    /\ buf.events # <<>> /\ stage # "Idle" => Rebuilt.current_hand # NoHand
    /\ stage = "Asked" /\ todo = <<>> => Buttons(Rebuilt) /\ Rebuilt.active_prompt = asked

\* The engine waits for the player, whose connection holds the prompt; it has been sent.
Waiting ==
    /\ stage = "Asked" /\ (todo = <<>> \/ todo = <<ReplayPush(asked)>>)
    /\ pending[conn] = asked /\ ~ Submitted

\* f: the client when it has read its queue.  If it has missed nothing, it and the
\* buffer will show the same once the engine thread has made its calls.
Catches(f) ==
    /\ CanRead(core, out, f)
    /\ clean /\ todo # Opening => CanMake(todo, f, Rebuilt)
    /\ clean /\ Waiting => Buttons(f)
LiveView == \E f : Catches(f)

ViewInv == ViewTypes /\ Begun /\ HoldsSeat /\ Prompting /\ KeptView /\ LiveView

\* The engine thread has an event: the calls it has to make for it.
Emits ==
    /\ todo = <<>> /\ UNCHANGED <<buf, bound, out, clean, in, core, conn, session, lifted, reply>>
    /\ pending' = pending \/ (stage = "Asked" /\ pending' = [pending EXCEPT ![bound] = NoMessage])
    /\ \/ stage = "Idle" /\ stage' = "Dealing" /\ todo' = Opening'
       \/ /\ stage # "Idle" /\ stage' \in {"Dealing", "Playing"}
          /\ \/ todo' = <<>>
             \/ \E m : InHand(m) /\ todo' = Fanned(m)
             \/ \E m, n : InHand(m) /\ InHand(n) /\ todo' = FannedTwice(m, n)
       \/ stage # "Idle" /\ stage' = "Idle" /\ \E m : InHand(m) /\ Ends(m) /\ todo' = Closing(m)
       \/ /\ stage # "Idle" /\ stage' = "Asked" /\ asked'.kind = "Prompt" /\ todo' = Asking(bound, asked')

\* Everything that is told of a hand is a message of a hand.
LEMMA HandMessages ==
    /\ \A h : InHand(TableEvent(Table, HandStarted(h))) /\ Starts(TableEvent(Table, HandStarted(h)))
    /\ \A h, s : InHand(TableEvent(Table, HoleCardsDealt(h, s)))
    /\ \A h, s, n : InHand(TableEvent(Table, BoardDealt(h, s, n)))
    /\ \A h, s, a, n, k : InHand(TableEvent(Table, ActionTaken(h, s, a, n, k)))
    /\ \A h, s, n : InHand(TableEvent(Table, PlayerAllIn(h, s, n)))
    /\ \A h, s : InHand(TableEvent(Table, HandEnded(h, s))) /\ Ends(TableEvent(Table, HandEnded(h, s)))
    /\ \A h, s, n : PromptMessage(Table, h, s, n).kind = "Prompt"
<1> USE DEF InHand, HandKinds, Starts, Ends, TableEvent
<1>1. \A h : InHand(TableEvent(Table, HandStarted(h))) /\ Starts(TableEvent(Table, HandStarted(h)))
    BY DEF HandStarted
<1>2. \A h, s : InHand(TableEvent(Table, HoleCardsDealt(h, s)))
    BY DEF HoleCardsDealt
<1>3. \A h, s, n : InHand(TableEvent(Table, BoardDealt(h, s, n)))
    BY DEF BoardDealt
<1>4. \A h, s, a, n, k : InHand(TableEvent(Table, ActionTaken(h, s, a, n, k)))
    BY DEF ActionTaken
<1>5. \A h, s, n : InHand(TableEvent(Table, PlayerAllIn(h, s, n)))
    BY DEF PlayerAllIn
<1>6. \A h, s : InHand(TableEvent(Table, HandEnded(h, s))) /\ Ends(TableEvent(Table, HandEnded(h, s)))
    BY DEF HandEnded
<1>7. \A h, s, n : PromptMessage(Table, h, s, n).kind = "Prompt"
    BY DEF PromptMessage
<1> HIDE DEF InHand, HandKinds, Starts, Ends, TableEvent
<1> QED
    BY <1>1, <1>2, <1>3, <1>4, <1>5, <1>6, <1>7

\* A seat acts: one event, or two.
LEMMA ActionEmits ==
    ASSUME NEW s, NEW action, ActionBy(s, action), stage # "Idle"
    PROVE  Emits
<1> DEFINE a == TableEvent(Table, PlayerAllIn(hand, s, acts'))
           b == TableEvent(Table, ActionTaken(hand, s, action, acts', acts'))
<1>1. /\ todo = <<>> /\ stage' = "Playing"
      /\ UNCHANGED <<buf, bound, pending, out, clean, in, core, conn, session, lifted, reply>>
      /\ todo' = (IF action = "AllIn" THEN <<ReplayPush(a), SendCurrent(a)>> ELSE <<>>)
                  \o <<ReplayPush(b), SendCurrent(b)>>
    BY DEF ActionBy, Emit, Fan, link, wire, client, serving
<1>2. InHand(a) /\ InHand(b)
    BY HandMessages
<1> HIDE DEF a, b
<1> DEFINE w == ReplayPush(a)
           x == SendCurrent(a)
           y == ReplayPush(b)
           z == SendCurrent(b)
<1>3. todo' = (IF action = "AllIn" THEN <<w, x>> ELSE <<>>) \o <<y, z>>
    BY <1>1
<1>4. Fanned(b) = <<y, z>> /\ FannedTwice(a, b) = <<w, x, y, z>>
    BY DEF Fanned, FannedTwice
<1> HIDE DEF w, x, y, z
<1>5. CASE action = "AllIn"
    <2>1. todo' = <<w, x>> \o <<y, z>>
        BY <1>3, <1>5
    <2>2. <<w, x>> \o <<y, z>> = <<w, x, y, z>>
        BY CallsOfTwo
    <2>3. todo' = FannedTwice(a, b)
        BY <1>4, <2>1, <2>2
    <2> QED
        BY <1>1, <1>2, <2>3 DEF Emits
<1>6. CASE action # "AllIn"
    <2>1. todo' = <<>> \o <<y, z>>
        BY <1>3, <1>6
    <2>2. <<y, z>> \in Seq({y, z})
        OBVIOUS
    <2>3. todo' = Fanned(b)
        BY <1>4, <2>1, <2>2
    <2> QED
        BY <1>1, <1>2, <2>3 DEF Emits
<1> QED
    BY <1>5, <1>6

\* BroadcastSink.on_event and RemoteAgent.act: the calls that follow.
LEMMA EngineEmits ==
    ASSUME \/ StartHand \/ DealBoard \/ Act \/ Answered \/ Elapsed \/ EndHand
           \/ \E s \in Seats : BlindAllIn(s) \/ DealHoleCards(s) \/ OtherActs(s)
    PROVE  Emits
<1>1. CASE StartHand
    <2> DEFINE m == TableEvent(Table, HandStarted(hand'))
               a == ReplayBegin(hand')
               b == ReplayPush(m)
               c == SendCurrent(m)
    <2>1. /\ todo = <<>> /\ stage = "Idle" /\ stage' = "Dealing" /\ todo' = <<a>> \o <<b, c>>
          /\ UNCHANGED <<buf, bound, pending, out, clean, in, core, conn, session, lifted, reply>>
        BY <1>1 DEF StartHand, Emit, Fan, link, wire, client, serving
    <2>2. Opening' = <<a, b, c>>
        BY DEF Opening
    <2> HIDE DEF a, b, c
    <2>3. todo' = Opening'
        BY <2>1, <2>2, CallsJoined
    <2> QED
        BY <2>1, <2>3 DEF Emits
<1>2. CASE DealBoard
    <2> DEFINE m == TableEvent(Table, BoardDealt(hand, StreetAfter(board), Cards(board)))
    <2>1. /\ todo = <<>> /\ stage = "Playing" /\ stage' = stage /\ todo' = Fanned(m)
          /\ UNCHANGED <<buf, bound, pending, out, clean, in, core, conn, session, lifted, reply>>
        BY <1>2 DEF DealBoard, Emit, Fan, Fanned, link, wire, client, serving
    <2>2. InHand(m)
        BY HandMessages
    <2> HIDE DEF m
    <2> QED
        BY <2>1, <2>2 DEF Emits
<1>3. CASE Act
    <2>1. /\ todo = <<>> /\ stage = "Playing" /\ stage' = "Asked" /\ todo' = Asking(bound, asked')
          /\ asked' = PromptMessage(Table, hand, Me, acts)
          /\ UNCHANGED <<buf, bound, pending, out, clean, in, core, conn, session, lifted, reply>>
        BY <1>3 DEF Act, Emit, Asking, link, wire, client, serving
    <2>2. asked'.kind = "Prompt"
        BY <2>1, HandMessages
    <2> QED
        BY <2>1, <2>2 DEF Emits
<1>4. CASE Answered
    BY <1>4, ActionEmits DEF Answered
<1>5. CASE Elapsed
    <2> DEFINE m == TableEvent(Table, ActionTaken(hand, Me, "Fold", acts', acts'))
    <2>1. /\ todo = <<>> /\ stage = "Asked" /\ stage' = "Playing" /\ todo' = Fanned(m)
          /\ pending' = [pending EXCEPT ![bound] = NoMessage]
          /\ UNCHANGED <<buf, bound, out, clean, in, core, conn, session, lifted, reply>>
        BY <1>5 DEF Elapsed, Fan, Fanned, wire, client, serving
    <2>2. InHand(m)
        BY HandMessages
    <2> HIDE DEF m
    <2> QED
        BY <2>1, <2>2 DEF Emits
<1>6. CASE EndHand
    <2> DEFINE m == TableEvent(Table, HandEnded(hand, ShownTo(Me)))
               a == ReplayPush(m)
               b == SendCurrent(m)
               c == ReplayEnd
    <2>1. /\ todo = <<>> /\ stage = "Playing" /\ stage' = "Idle" /\ todo' = <<a, b>> \o <<c>>
          /\ UNCHANGED <<buf, bound, pending, out, clean, in, core, conn, session, lifted, reply>>
        BY <1>6 DEF EndHand, Emit, Fan, link, wire, client, serving
    <2>2. InHand(m) /\ Ends(m)
        BY HandMessages
    <2> HIDE DEF m
    <2>3. Closing(m) = <<a, b, c>>
        BY DEF Closing
    <2> HIDE DEF a, b, c
    <2>4. todo' = Closing(m)
        BY <2>1, <2>3, CallsJoined
    <2> QED
        BY <2>1, <2>2, <2>4 DEF Emits
<1>7. ASSUME NEW s \in Seats, DealHoleCards(s) PROVE Emits
    <2> DEFINE m == TableEvent(Table, HoleCardsDealt(hand, s))
    <2>1. /\ todo = <<>> /\ stage = "Dealing" /\ stage' \in {"Dealing", "Playing"}
          /\ todo' = <<>> \/ todo' = Fanned(m)
          /\ UNCHANGED <<buf, bound, pending, out, clean, in, core, conn, session, lifted, reply>>
        BY <1>7 DEF DealHoleCards, HoleCardsFor, Emit, Fan, Fanned, link, wire, client, serving
    <2>2. InHand(m)
        BY HandMessages
    <2> HIDE DEF m
    <2> QED
        BY <2>1, <2>2 DEF Emits
<1>8. ASSUME NEW s \in Seats, OtherActs(s) PROVE Emits
    BY <1>8, ActionEmits DEF OtherActs
<1>9. ASSUME NEW s \in Seats, BlindAllIn(s) PROVE Emits
    <2> DEFINE m == TableEvent(Table, PlayerAllIn(hand, s, 0))
    <2>1. /\ todo = <<>> /\ stage = "Dealing" /\ stage' = stage /\ todo' = Fanned(m)
          /\ UNCHANGED <<buf, bound, pending, out, clean, in, core, conn, session, lifted, reply>>
        BY <1>9 DEF BlindAllIn, Emit, Fan, Fanned, link, wire, client, serving
    <2>2. InHand(m)
        BY HandMessages
    <2> HIDE DEF m
    <2> QED
        BY <2>1, <2>2 DEF Emits
<1> QED
    BY <1>1, <1>2, <1>3, <1>4, <1>5, <1>6, <1>7, <1>8, <1>9

\* A message goes into the queue, or it is lost and the client has missed something.
Delivers(m) == (out' = Append(out, m) /\ clean' = clean) \/ (out' = out /\ ~ clean')

\* Connection::try_send, on the connection of a client that has missed nothing.
LEMMA Delivered ==
    ASSUME NEW c, NEW m, TrySend(c, m), clean => c = conn
    PROVE  Delivers(m)
<1>1. CASE c # conn
    <2>1. out' = out /\ clean' = clean
        BY <1>1 DEF TrySend, wire
    <2>2. ~ clean
        BY <1>1
    <2> QED
        BY <2>1, <2>2, Zenon DEF Delivers
<1>2. CASE c = conn
    <2>1. (out' = Append(out, m) /\ clean' = clean) \/ (out' = out /\ clean' = FALSE)
        BY <1>2 DEF TrySend
    <2> QED
        BY <2>1, Zenon DEF Delivers
<1> QED
    BY <1>1, <1>2

\* What the engine thread does with a call x.
Performs(x) ==
    \/ /\ todo = Opening /\ stage # "Idle" /\ buf' = [hand |-> hand, events |-> <<>>]
       /\ todo' = Fanned(TableEvent(Table, HandStarted(hand)))
       /\ clean' = (bound = conn /\ session = "Reading") /\ UNCHANGED <<pending, out>>
    \/ /\ x.call = "replay_push" /\ InHand(x.message) /\ (stage # "Idle" => ~ Ends(x.message))
       /\ buf'.events = Append(buf.events, x.message) /\ UNCHANGED <<pending, out, clean>>
    \/ /\ x.call = "replay_end" /\ stage = "Idle" /\ todo' = <<>> /\ buf' = NoBuffer
       /\ UNCHANGED <<pending, out, clean>>
    \/ /\ x.call \in {"current().try_send", "try_send"} /\ InHand(x.message) /\ Delivers(x.message)
       /\ UNCHANGED <<buf, pending>>
    \/ /\ x.call = "pending" /\ InHand(x.message) /\ pending' = [pending EXCEPT ![x.conn] = x.message]
       /\ UNCHANGED <<buf, out, clean>>

\* The calls that are due, by where the hand is.
LEMMA CallsDue ==
    ASSUME FeedInv, todo # <<>>
    PROVE  \/ todo = Opening /\ stage # "Idle"
           \/ /\ buf.hand # 0 /\ Carries(Head(todo))
              /\ stage # "Idle" => ~ Ends(Head(todo).message)
           \/ stage = "Idle" /\ todo = <<ReplayEnd>>
<1>1. CASE stage # "Idle" /\ todo # Opening
    <2>1. Head(todo) \in Entries(todo)
        BY ShiftedQueue DEF FeedInv, FeedTypes
    <2> QED
        BY <1>1, <2>1 DEF FeedInv, HandKept, HandCall
<1>2. CASE stage = "Idle"
    <2>1. buf.hand # 0 /\ (ResultDue \/ ResultKept)
        BY <1>2 DEF FeedInv, HandOver
    <2>2. CASE todo # <<ReplayEnd>>
        <3>1. PICK m : todo = Closing(m) \/ todo = <<SendCurrent(m), ReplayEnd>>
            BY <2>1, <2>2 DEF ResultDue, ResultKept
        <3> DEFINE a == ReplayPush(m)
                   b == SendCurrent(m)
                   c == ReplayEnd
        <3>2. todo = <<a, b, c>> \/ todo = <<b, c>>
            BY <3>1 DEF Closing
        <3>3. Carries(a) /\ Carries(b)
            BY CallFields DEF Carries
        <3> HIDE DEF a, b, c
        <3>4. Head(todo) = a \/ Head(todo) = b
            BY <3>2, CallsInTurn
        <3> QED
            BY <1>2, <2>1, <3>3, <3>4
    <2> QED
        BY <1>2, <2>2
<1> QED
    BY <1>1, <1>2

\* A call, made.
LEMMA CallPerforms ==
    ASSUME FeedInv, ViewTypes, HoldsSeat, Call
    PROVE  /\ todo # <<>> /\ todo' = Tail(todo) /\ Performs(Head(todo))
           /\ UNCHANGED <<stage, hand, asked, bound, in, core, conn, session, lifted, reply>>
<1> DEFINE x == Head(todo)
<1>1. /\ todo # <<>> /\ todo' = Tail(todo)
      /\ UNCHANGED <<stage, hand, asked, in, core, conn, session, lifted, reply>>
    BY DEF Call, engine, client, serving
<1>2. x \in Entries(todo)
    BY <1>1, ShiftedQueue DEF FeedInv, FeedTypes
<1>3. CASE todo = Opening /\ stage # "Idle"
    <2> DEFINE m == TableEvent(Table, HandStarted(hand))
               a == ReplayBegin(hand)
               b == ReplayPush(m)
               c == SendCurrent(m)
    <2>1. todo = <<a, b, c>> /\ Fanned(m) = <<b, c>>
        BY <1>3 DEF Opening, Fanned
    <2>2. a.call = "replay_begin" /\ a.hand = hand
        BY CallFields
    <2> HIDE DEF a, b, c
    <2>3. Head(todo) = a /\ Tail(todo) = <<b, c>>
        BY <2>1, CallsInTurn
    <2>4. DoBegin
        BY <2>2, <2>3 DEF Call
    <2>5. UNCHANGED bound /\ Performs(x)
        BY <1>1, <1>3, <2>1, <2>2, <2>3, <2>4 DEF DoBegin, Performs
    <2> QED
        BY <1>1, <2>5
<1>4. CASE stage = "Idle" /\ todo = <<ReplayEnd>>
    <2> DEFINE a == ReplayEnd
    <2>1. a.call = "replay_end" /\ todo = <<a>>
        BY <1>4, CallFields
    <2> HIDE DEF a
    <2>2. x = a /\ Tail(todo) = <<>>
        BY <2>1, CallsInTurn
    <2>3. DoEnd
        BY <2>1, <2>2 DEF Call
    <2>4. UNCHANGED bound /\ Performs(x)
        BY <1>1, <1>4, <2>1, <2>2, <2>3 DEF DoEnd, Performs, wire
    <2> QED
        BY <1>1, <2>4
<1>5. CASE buf.hand # 0 /\ Carries(x) /\ (stage # "Idle" => ~ Ends(x.message))
    <2>1. InHand(x.message)
        BY <1>2, <1>5 DEF ViewTypes
    <2>2. CASE x.call = "replay_push"
        <3>1. DoPush
            BY <2>2 DEF Call
        <3>2. buf = [hand |-> buf.hand, events |-> buf.events]
            BY DEF FeedInv, FeedTypes
        <3>3. buf' = [buf EXCEPT !.events = Append(@, x.message)]
            BY <1>5, <3>1 DEF DoPush
        <3> HIDE DEF x
        <3>4. buf'.events = Append(buf.events, x.message)
            BY <3>2, <3>3
        <3> QED
            BY <1>1, <1>5, <2>1, <2>2, <3>1, <3>4 DEF DoPush, Performs, wire, x
    <2>3. CASE x.call = "current().try_send"
        <3>1. TrySend(bound, x.message) /\ UNCHANGED link
            BY <2>3 DEF Call, DoSendCurrent
        <3>2. clean => bound = conn
            BY DEF HoldsSeat
        <3> HIDE DEF x
        <3>3. Delivers(x.message)
            BY <3>1, <3>2, Delivered
        <3> QED
            BY <1>1, <2>1, <2>3, <3>1, <3>3 DEF Performs, link, x
    <2>4. CASE x.call = "try_send"
        <3>1. TrySend(x.conn, x.message) /\ UNCHANGED link
            BY <2>4 DEF Call, DoSendTo
        <3>2. clean => x.conn = conn
            BY <1>2, <2>4 DEF HoldsSeat
        <3> HIDE DEF x
        <3>3. Delivers(x.message)
            BY <3>1, <3>2, Delivered
        <3> QED
            BY <1>1, <2>1, <2>4, <3>1, <3>3 DEF Performs, link, x
    <2>5. CASE x.call = "pending"
        <3>1. DoRegister
            BY <2>5 DEF Call
        <3> QED
            BY <1>1, <2>1, <2>5, <3>1 DEF DoRegister, Performs, wire
    <2> QED
        BY <1>5, <2>2, <2>3, <2>4, <2>5 DEF Carries
<1> QED
    BY <1>1, <1>3, <1>4, <1>5, CallsDue

-----------------------------------------------------------------------------
(* The engine thread has an event *)

\* A prompt is a message of its hand.
LEMMA PromptInHand == ASSUME NEW p, p.kind = "Prompt" PROVE InHand(p) /\ p # NoMessage /\ ~ Ends(p)
BY DEF InHand, NoMessage, Ends

\* The calls for an event: messages of the hand, and a prompt for one connection.
LEMMA EmittedCalls ==
    ASSUME Emits, NEW x \in Entries(todo')
    PROVE  (Carries(x) => InHand(x.message)) /\ (x.call = "try_send" => x.conn = bound)
<1> DEFINE Fine == (Carries(x) => InHand(x.message)) /\ (x.call = "try_send" => x.conn = bound)
<1> SUFFICES Fine
    OBVIOUS
<1>1. ASSUME NEW m, InHand(m), x \in {ReplayPush(m), SendCurrent(m), ReplayEnd, ReplayBegin(hand')} PROVE Fine
    BY <1>1, CallFields DEF Carries
<1>2. CASE todo' = Opening'
    <2> DEFINE m == TableEvent(Table, HandStarted(hand'))
    <2>1. Entries(Opening') = {ReplayBegin(hand'), ReplayPush(m), SendCurrent(m)}
        BY ShortQueues DEF Opening
    <2>2. InHand(m)
        BY HandMessages
    <2> HIDE DEF m, Fine
    <2>3. x \in {ReplayPush(m), SendCurrent(m), ReplayEnd, ReplayBegin(hand')}
        BY <1>2, <2>1
    <2> QED
        BY <1>1, <2>2, <2>3
<1>3. CASE todo' = <<>>
    BY <1>3, ShortQueues
<1>4. ASSUME NEW m, InHand(m), todo' = Fanned(m) PROVE Fine
    <2>1. Entries(Fanned(m)) = {ReplayPush(m), SendCurrent(m)}
        BY ShortQueues DEF Fanned
    <2> HIDE DEF Fine
    <2> QED
        BY <1>1, <1>4, <2>1
<1>5. ASSUME NEW m, NEW n, InHand(m), InHand(n), todo' = FannedTwice(m, n) PROVE Fine
    <2>1. Entries(FannedTwice(m, n)) = {ReplayPush(m), SendCurrent(m), ReplayPush(n), SendCurrent(n)}
        BY CallsInTurn DEF FannedTwice
    <2> HIDE DEF Fine
    <2>2. x \in {ReplayPush(m), SendCurrent(m)} \/ x \in {ReplayPush(n), SendCurrent(n)}
        BY <1>5, <2>1
    <2> QED
        BY <1>1, <1>5, <2>2
<1>6. ASSUME NEW m, InHand(m), todo' = Closing(m) PROVE Fine
    <2>1. Entries(Closing(m)) = {ReplayPush(m), SendCurrent(m), ReplayEnd}
        BY ShortQueues DEF Closing
    <2> HIDE DEF Fine
    <2> QED
        BY <1>1, <1>6, <2>1
<1>7. CASE asked'.kind = "Prompt" /\ todo' = Asking(bound, asked')
    <2> DEFINE p == asked'
    <2>1. InHand(p)
        BY <1>7, PromptInHand
    <2> HIDE DEF p
    <2>2. Entries(Asking(bound, p)) = {Register(bound, p), SendTo(bound, p), ReplayPush(p)}
        BY ShortQueues DEF Asking
    <2>3. x \in {Register(bound, p), SendTo(bound, p), ReplayPush(p)}
        BY <1>7, <2>2 DEF p
    <2> QED
        BY <2>1, <2>3, CallFields
<1> HIDE DEF Fine
<1> QED
    BY <1>2, <1>3, <1>4, <1>5, <1>6, <1>7 DEF Emits

\* With no call left to make, a hand that is played has begun.
LEMMA HandBegun ==
    ASSUME Begun, todo = <<>>, stage # "Idle"
    PROVE  buf.events # <<>>
BY DEF Begun, Opening, Fanned

\* What is kept and on its way, when the engine thread has an event.
LEMMA EmitKept ==
    ASSUME FeedInv, ViewInv, Emits
    PROVE  ViewTypes' /\ Begun' /\ HoldsSeat' /\ Prompting' /\ KeptView'
<1> USE DEF ViewInv
<1>1. /\ todo = <<>> /\ UNCHANGED <<buf, bound, out, clean, in, core, conn, session, lifted, reply>>
      /\ pending' = pending \/ pending' = [pending EXCEPT ![bound] = NoMessage]
      /\ stage' = "Idle" \/ stage # "Idle" \/ (stage = "Idle" /\ stage' = "Dealing" /\ todo' = Opening')
      /\ stage' \in {"Asked", "Answered"} =>
            stage # "Idle" /\ asked'.kind = "Prompt" /\ todo' = Asking(bound, asked')
      /\ stage = "Idle" => todo' = Opening'
    BY DEF Emits
<1>2. ViewTypes'
    <2>1. \A x \in Entries(todo') : Carries(x) => InHand(x.message)
        BY EmittedCalls
    <2>2. \A c \in Conns : pending'[c] = NoMessage \/ InHand(pending'[c])
        BY <1>1 DEF ViewTypes, FeedInv, FeedTypes
    <2> QED
        BY <1>1, <2>1, <2>2 DEF ViewTypes
<1>3. Begun'
    <2>1. buf.events = <<>> => stage = "Idle"
        BY <1>1, HandBegun
    <2> QED
        BY <1>1, <2>1 DEF Begun
<1>4. HoldsSeat'
    <2>1. \A x \in Entries(todo') : x.call = "try_send" => x.conn = bound
        BY EmittedCalls
    <2> QED
        BY <1>1, <2>1 DEF HoldsSeat
<1>5. Prompting'
    <2>1. stage # "Idle" => buf.events # <<>>
        BY <1>1, HandBegun
    <2>2. bound \in Conns
        BY DEF FeedInv, FeedTypes
    <2> QED
        BY <1>1, <2>1, <2>2 DEF Prompting
<1>6. KeptView'
    <2>1. Rebuilt' = Rebuilt
        BY <1>1 DEF Rebuilt
    <2>2. stage = "Idle" => buf.events = <<>>
        BY <1>1, ShortQueues DEF FeedInv, HandOver, ResultDue, ResultKept, Closing, NoBuffer
    <2>3. \A c, p : Asking(c, p) # <<>>
        BY DEF Asking
    <2> QED
        BY <1>1, <2>1, <2>2, <2>3 DEF KeptView
<1> QED
    BY <1>2, <1>3, <1>4, <1>5, <1>6

\* What the buffer rebuilds is a client at the seat.
LEMMA RebuiltShape ==
    ASSUME FeedTypes, ViewTypes
    PROVE  CoreShape(Rebuilt) /\ AtSeat(Rebuilt) /\ Rebuilt = Fed(Joined(NoKey), buf.events)
<1> DEFINE j == Joined(NoKey)
           s == buf.events
<1>1. CoreShape(j) /\ AtSeat(j)
    BY NewClients
<1>2. Queue(s) /\ \A m \in Entries(s) : InHand(m)
    BY DEF FeedTypes, ViewTypes
<1>3. Rebuilt = Fed(j, s)
    BY DEF Rebuilt, Fed
<1> HIDE DEF j, s
<1>4. CoreShape(Fed(j, s)) /\ AtSeat(Fed(j, s))
    BY <1>1, <1>2, FedShape
<1> QED
    BY <1>3, <1>4 DEF j, s

\* The live view, when the engine thread has an event.
LEMMA EmitView ==
    ASSUME FeedInv, ViewInv, Emits
    PROVE  LiveView'
<1>1. PICK f : Catches(f)
    BY DEF ViewInv, LiveView
<1>2. /\ todo = <<>> /\ UNCHANGED <<buf, out, clean, core>>
      /\ stage' = "Asked" => todo' = Asking(bound, asked')
    BY DEF Emits
<1>3. CanRead(core, out, f)' /\ CoreShape(f) /\ AtSeat(f)
    <2>1. CanRead(core, out, f)
        BY <1>1 DEF Catches
    <2>2. Len(out) \in Nat
        BY DEF FeedInv, FeedTypes, Queue
    <2>3. CoreShape(f) /\ AtSeat(f)
        BY <2>1, <2>2, ReadAtSeat
    <2>4. CanRead(core', out', f)
        BY <1>2, <2>1
    <2> QED
        BY <2>3, <2>4
<1>4. ~ Waiting'
    <2>1. \A c, p : Asking(c, p) # <<>> /\ Asking(c, p) # <<ReplayPush(p)>>
        BY DEF Asking
    <2> QED
        BY <1>2, <2>1 DEF Waiting
<1> DEFINE b == Rebuilt
<1>5. CoreShape(b) /\ Rebuilt' = b
    BY <1>2, RebuiltShape DEF FeedInv, ViewInv, Rebuilt
<1>6. ASSUME clean', todo' # Opening' PROVE CanMake(todo', f, b)
    <2>1. CanMake(<<>>, f, b)
        BY <1>1, <1>2, <1>6 DEF Catches, Opening
    <2> HIDE DEF b
    <2>2. Like(f, b)
        BY <1>3, <2>1, MakeNothing
    <2>3. \A m : InHand(m) => ForSeat(m)
        BY DEF ForSeat
    <2>4. CASE todo' = <<>>
        BY <2>1, <2>4
    <2>5. ASSUME NEW m, InHand(m), todo' = Fanned(m) PROVE CanMake(todo', f, b)
        BY <1>3, <1>5, <2>2, <2>3, <2>5, FannedMade
    <2>6. ASSUME NEW m, NEW n, InHand(m), InHand(n), todo' = FannedTwice(m, n) PROVE CanMake(todo', f, b)
        BY <1>3, <1>5, <2>2, <2>3, <2>6, FannedTwiceMade
    <2>7. ASSUME NEW m, InHand(m), Ends(m), todo' = Closing(m) PROVE CanMake(todo', f, b)
        BY <1>3, <2>7, ClosingMade
    <2>8. CASE asked'.kind = "Prompt" /\ todo' = Asking(bound, asked')
        <3> DEFINE p == asked'
                   g == OnTableMessage(f, p)
                   e == OnTableMessage(b, p)
        <3>1. ForSeat(p)
            BY <2>3, <2>8, PromptInHand
        <3>2. Like(g, e)
            <4> HIDE DEF p
            <4> QED
                BY <1>3, <1>5, <2>2, <3>1, StepAlike
        <3>3. todo' = Asking(bound, p)
            BY <2>8
        <3> HIDE DEF p
        <3>4. CanMake(Asking(bound, p), f, b)
            BY <1>3, <3>1, <3>2, PromptMade
        <3> QED
            BY <3>3, <3>4
    <2> QED
        BY <1>6, <2>4, <2>5, <2>6, <2>7, <2>8 DEF Emits
<1>7. Catches(f)'
    BY <1>3, <1>4, <1>5, <1>6 DEF Catches
<1> QED
    BY <1>7 DEF LiveView

-----------------------------------------------------------------------------
(* The engine thread makes a call *)

\* The first calls of a hand.
LEMMA FirstCalls ==
    /\ todo = Opening => Head(todo).call = "replay_begin"
    /\ \A m : Head(Fanned(m)) = ReplayPush(m) /\ Fanned(m) # <<>>
    /\ \A m : Entries(Fanned(m)) = {ReplayPush(m), SendCurrent(m)}
<1>1. todo = Opening => Head(todo).call = "replay_begin"
    <2> DEFINE m == TableEvent(Table, HandStarted(hand))
               a == ReplayBegin(hand)
               b == ReplayPush(m)
               c == SendCurrent(m)
    <2>1. a.call = "replay_begin"
        BY CallFields
    <2>2. Opening = <<a, b, c>>
        BY DEF Opening
    <2> HIDE DEF a, b, c
    <2>3. Head(<<a, b, c>>) = a
        BY CallsInTurn
    <2> QED
        BY <2>1, <2>2, <2>3
<1>2. \A m : Head(Fanned(m)) = ReplayPush(m) /\ Fanned(m) # <<>>
    BY CallsInTurn DEF Fanned
<1>3. \A m : Entries(Fanned(m)) = {ReplayPush(m), SendCurrent(m)}
    BY ShortQueues DEF Fanned
<1> QED
    BY <1>1, <1>2, <1>3

\* The calls of RemoteAgent.act.
LEMMA PromptCalls ==
    ASSUME Prompting, stage \in {"Asked", "Answered"}, todo # <<>>
    PROVE  \/ /\ todo = <<ReplayPush(asked)>> /\ Tail(todo) = <<>>
              /\ Head(todo).call = "replay_push" /\ Head(todo).message = asked
           \/ \E c \in Conns : /\ todo = AskingSent(c, asked) /\ Tail(todo) = <<ReplayPush(asked)>>
                               /\ Head(todo).call = "try_send" /\ Head(todo).message = asked
           \/ \E c \in Conns : /\ todo = Asking(c, asked) /\ Tail(todo) = AskingSent(c, asked)
                               /\ Head(todo).call = "pending"
<1> DEFINE z == ReplayPush(asked)
<1>1. z.call = "replay_push" /\ z.message = asked
    BY CallFields
<1>2. CASE todo = <<z>>
    <2> HIDE DEF z
    <2>1. Head(todo) = z /\ Tail(todo) = <<>>
        BY <1>2, CallsInTurn
    <2> QED
        BY <1>1, <1>2, <2>1 DEF z
<1>3. ASSUME NEW c \in Conns, todo = AskingSent(c, asked)
      PROVE  Tail(todo) = <<z>> /\ Head(todo).call = "try_send" /\ Head(todo).message = asked
    <2> DEFINE y == SendTo(c, asked)
    <2>1. y.call = "try_send" /\ y.message = asked /\ todo = <<y, z>>
        BY <1>3, CallFields DEF AskingSent
    <2> HIDE DEF y, z
    <2>2. Head(todo) = y /\ Tail(todo) = <<z>>
        BY <2>1, CallsInTurn
    <2> QED
        BY <2>1, <2>2
<1>4. ASSUME NEW c \in Conns, todo = Asking(c, asked)
      PROVE  Tail(todo) = AskingSent(c, asked) /\ Head(todo).call = "pending"
    <2> DEFINE x == Register(c, asked)
               y == SendTo(c, asked)
    <2>1. x.call = "pending" /\ todo = <<x, y, z>> /\ AskingSent(c, asked) = <<y, z>>
        BY <1>4, CallFields DEF Asking, AskingSent
    <2> HIDE DEF x, y, z
    <2>2. Head(todo) = x /\ Tail(todo) = <<y, z>>
        BY <2>1, CallsInTurn
    <2> QED
        BY <2>1, <2>2
<1> QED
    BY <1>2, <1>3, <1>4 DEF Prompting

\* The first of a queue that has one more.
LEMMA AppendedFirst ==
    ASSUME NEW s, Queue(s), NEW y
    PROVE  Append(s, y) # <<>> /\ Append(s, y)[1] = (IF s = <<>> THEN y ELSE s[1])
<1> DEFINE S == Entries(s) \union {y}
           u == Append(s, y)
<1>1. s \in Seq(S) /\ y \in S
    BY DEF Queue
<1> HIDE DEF S
<1>2. /\ u # <<>> /\ Len(s) \in Nat /\ u[Len(s) + 1] = y
      /\ \A i \in 1 .. Len(s) : u[i] = s[i]
    BY <1>1, AppendProperties
<1>3. s = <<>> <=> Len(s) = 0
    BY <1>1, EmptySeq
<1> QED
    BY <1>2, <1>3

\* A call that keeps a message: the first one is the start of the hand.
LEMMA PushBegins ==
    ASSUME Begun, todo # <<>>, Head(todo).call = "replay_push", buf.events = <<>>
    PROVE  Starts(Head(todo).message)
<1> DEFINE m == TableEvent(Table, HandStarted(hand))
<1>1. todo = Fanned(m)
    BY FirstCalls DEF Begun
<1>2. Starts(m)
    BY HandMessages
<1> HIDE DEF m
<1>3. Head(todo) = ReplayPush(m)
    BY <1>1, FirstCalls
<1> QED
    BY <1>2, <1>3, CallFields

\* What a call keeps and sends.
LEMMA CallTypes ==
    ASSUME FeedInv, ViewInv, Call
    PROVE  ViewTypes'
<1> DEFINE x == Head(todo)
<1>1. /\ todo # <<>> /\ todo' = Tail(todo) /\ Performs(x)
      /\ UNCHANGED <<stage, hand, asked, bound, in, core, conn, session, lifted, reply>>
    BY CallPerforms DEF ViewInv
<1>2. Entries(todo) = Entries(todo') \union {x}
    BY <1>1, ShiftedQueue DEF FeedInv, FeedTypes
<1> HIDE DEF x
<1>3. \A m \in Entries(out') : Arrives(m)
    <2>1. \A m \in Entries(out) : Arrives(m)
        BY DEF ViewInv, ViewTypes
    <2>2. CASE out' = out
        BY <2>1, <2>2
    <2>3. CASE InHand(x.message) /\ out' = Append(out, x.message)
        <3> DEFINE m == x.message
        <3>1. Arrives(m)
            BY <2>3 DEF Arrives, ForSeat
        <3>2. Queue(out)
            BY DEF FeedInv, FeedTypes
        <3> HIDE DEF m
        <3>3. Entries(Append(out, m)) = Entries(out) \union {m}
            BY <3>2, AppendedQueue
        <3> QED
            BY <2>1, <2>3, <3>1, <3>3 DEF m
    <2> QED
        BY <1>1, <2>2, <2>3 DEF Performs, Delivers
<1>4. \A m \in Entries(buf'.events) : InHand(m)
    <2>1. (\A m \in Entries(buf.events) : InHand(m)) /\ Queue(buf.events)
        BY DEF ViewInv, ViewTypes, FeedInv, FeedTypes
    <2>2. CASE buf' = buf
        BY <2>1, <2>2
    <2>3. CASE buf'.events = <<>>
        BY <2>3, ShortQueues
    <2>4. CASE InHand(x.message) /\ buf'.events = Append(buf.events, x.message)
        <3> DEFINE m == x.message
                   s == buf.events
        <3>1. Queue(s)
            BY <2>1
        <3> HIDE DEF m, s
        <3>2. Entries(Append(s, m)) = Entries(s) \union {m}
            BY <3>1, AppendedQueue
        <3> QED
            BY <2>1, <2>4, <3>2 DEF m, s
    <2>5. NoBuffer.events = <<>>
        BY DEF NoBuffer
    <2> QED
        BY <1>1, <2>2, <2>3, <2>4, <2>5 DEF Performs
<1>5. \A c \in Conns : pending'[c] = NoMessage \/ InHand(pending'[c])
    <2>1. pending' = pending \/ (InHand(x.message) /\ pending' = [pending EXCEPT ![x.conn] = x.message])
        BY <1>1 DEF Performs
    <2> QED
        BY <2>1 DEF FeedInv, FeedTypes, ViewInv, ViewTypes
<1>6. \A y \in Entries(todo') : Carries(y) => InHand(y.message)
    BY <1>2 DEF ViewInv, ViewTypes
<1> QED
    BY <1>1, <1>3, <1>4, <1>5, <1>6 DEF ViewInv, ViewTypes

\* What a call leaves to do.
LEMMA CallOrder ==
    ASSUME FeedInv, ViewInv, Call
    PROVE  Begun' /\ HoldsSeat' /\ Prompting'
<1> USE DEF ViewInv
<1> DEFINE x == Head(todo)
<1>1. /\ todo # <<>> /\ todo' = Tail(todo) /\ Performs(x)
      /\ UNCHANGED <<stage, hand, asked, bound, in, core, conn, session, lifted, reply>>
    BY CallPerforms
<1>2. Entries(todo) = Entries(todo') \union {x}
    BY <1>1, ShiftedQueue DEF FeedInv, FeedTypes
<1>3. Begun'
    <2> DEFINE m == TableEvent(Table, HandStarted(hand))
    <2>1. CASE todo = Opening /\ buf' = [hand |-> hand, events |-> <<>>] /\ todo' = Fanned(m)
        <3>1. buf'.events = <<>> /\ m' = m
            BY <1>1, <2>1
        <3> QED
            BY <2>1, <3>1 DEF Begun
    <2>2. CASE x.call = "replay_push" /\ buf'.events = Append(buf.events, x.message)
        <3> DEFINE s == buf.events
                   y == x.message
        <3>1. Queue(s) /\ (s # <<>> => Starts(s[1])) /\ (s = <<>> => Starts(y))
            BY <1>1, <2>2, PushBegins DEF FeedInv, FeedTypes, Begun
        <3> HIDE DEF s, y
        <3>2. Append(s, y) # <<>> /\ Append(s, y)[1] = (IF s = <<>> THEN y ELSE s[1])
            BY <3>1, AppendedFirst
        <3>3. buf'.events = Append(s, y)
            BY <2>2 DEF s, y
        <3> QED
            BY <3>1, <3>2, <3>3 DEF Begun
    <2>3. CASE stage = "Idle" /\ todo' = <<>> /\ buf' = NoBuffer
        BY <1>1, <2>3 DEF Begun, NoBuffer
    <2>4. CASE x.call \in {"current().try_send", "try_send", "pending"} /\ buf' = buf
        <3>1. buf.events # <<>>
            <4>1. todo # Opening
                BY <2>4, FirstCalls
            <4>2. todo # Fanned(m)
                <5> HIDE DEF m
                <5>1. Head(Fanned(m)).call = "replay_push"
                    BY FirstCalls, CallFields
                <5> QED
                    BY <2>4, <5>1
            <4> QED
                BY <1>1, <4>1, <4>2 DEF Begun
        <3> QED
            BY <2>4, <3>1 DEF Begun
    <2> HIDE DEF x
    <2> QED
        BY <1>1, <2>1, <2>2, <2>3, <2>4 DEF Performs
<1>4. HoldsSeat'
    <2>1. CASE todo' = Fanned(TableEvent(Table, HandStarted(hand))) /\ clean' = (bound = conn /\ session = "Reading")
        <3> DEFINE m == TableEvent(Table, HandStarted(hand))
        <3>1. Entries(todo') = {ReplayPush(m), SendCurrent(m)}
            BY <2>1, FirstCalls
        <3> HIDE DEF m
        <3>2. \A y \in Entries(todo') : y.call # "try_send"
            BY <3>1, CallFields
        <3> QED
            BY <1>1, <2>1, <3>2 DEF HoldsSeat
    <2>2. CASE clean' => clean
        BY <1>1, <1>2, <2>2 DEF HoldsSeat
    <2>3. CASE clean' = clean
        <3>1. clean' => clean
            BY <2>3, Zenon
        <3> QED
            BY <2>2, <3>1
    <2> HIDE DEF x
    <2> QED
        BY <1>1, <2>1, <2>2, <2>3 DEF Performs, Delivers
<1>5. Prompting'
    <2>1. CASE stage \notin {"Asked", "Answered"}
        BY <1>1, <2>1 DEF Prompting
    <2>2. CASE stage \in {"Asked", "Answered"}
        <3>1. /\ x.call \in {"replay_push", "try_send", "pending"}
              /\ \/ todo' = <<>> \/ todo' = <<ReplayPush(asked)>> \/ \E c \in Conns : todo' = AskingSent(c, asked)
            BY <1>1, <2>2, PromptCalls
        <3>2. buf'.events # <<>>
            <4>1. todo # Opening
                BY <3>1, FirstCalls
            <4>2. CASE buf' = buf
                BY <2>2, <4>2 DEF Prompting
            <4>3. CASE buf'.events = Append(buf.events, x.message)
                <5>1. Queue(buf.events)
                    BY DEF FeedInv, FeedTypes
                <5> DEFINE s == buf.events
                           y == x.message
                <5> HIDE DEF s, y
                <5>2. Append(s, y) # <<>>
                    BY <5>1, AppendedFirst DEF s
                <5> QED
                    BY <4>3, <5>2 DEF s, y
            <4> HIDE DEF x
            <4> QED
                BY <1>1, <2>2, <3>1, <4>1, <4>2, <4>3 DEF Performs
        <3> QED
            BY <1>1, <2>2, <3>1, <3>2 DEF Prompting
    <2> QED
        BY <2>1, <2>2
<1> QED
    BY <1>3, <1>4, <1>5

\* One more message in the buffer.
LEMMA RebuiltNext ==
    ASSUME FeedTypes, NEW m, buf'.events = Append(buf.events, m)
    PROVE  Rebuilt' = OnTableMessage(Rebuilt, m)
<1> DEFINE j == Joined(NoKey)
           s == buf.events
<1>1. Queue(s) /\ Rebuilt = Fed(j, s) /\ Rebuilt' = Fed(j, Append(s, m))
    BY DEF FeedTypes, Rebuilt, Fed
<1> HIDE DEF j, s
<1>2. Fed(j, Append(s, m)) = OnTableMessage(Fed(j, s), m)
    BY <1>1, FedOneMore
<1> QED
    BY <1>1, <1>2

\* What the buffer shows after a call.
LEMMA CallKept ==
    ASSUME FeedInv, ViewInv, Call
    PROVE  KeptView'
<1> USE DEF ViewInv
<1> DEFINE x == Head(todo)
           m == x.message
<1>1. /\ todo # <<>> /\ todo' = Tail(todo) /\ Performs(x)
      /\ UNCHANGED <<stage, hand, asked, bound, in, core, conn, session, lifted, reply>>
    BY CallPerforms
<1>2. stage = "Asked" /\ todo' = <<>> => x.call = "replay_push" /\ m = asked
    <2>1. \A c \in Conns : AskingSent(c, asked) # <<>> /\ <<ReplayPush(asked)>> # <<>>
        BY DEF AskingSent
    <2> QED
        BY <1>1, <2>1, PromptCalls
<1>3. CASE x.call = "replay_push" /\ InHand(m) /\ (stage # "Idle" => ~ Ends(m)) /\ buf'.events = Append(buf.events, m)
    <2> DEFINE b == Rebuilt
               r == OnTableMessage(b, m)
    <2>1. Rebuilt' = r
        BY <1>3, RebuiltNext DEF FeedInv
    <2>2. CoreShape(b) /\ AtSeat(b)
        BY RebuiltShape DEF FeedInv
    <2>3. stage # "Idle" => b.current_hand # NoHand \/ Starts(m)
        BY <1>1, <1>3, PushBegins DEF KeptView
    <2>4. stage = "Asked" => buf.events # <<>> /\ asked.kind = "Prompt"
        BY DEF Prompting
    <2>5. stage = "Asked" => b.current_hand # NoHand
        BY <2>4 DEF KeptView
    <2>6. ForSeat(m)
        BY <1>3 DEF ForSeat
    <2> HIDE DEF b, m, x
    <2>7. /\ AtSeat(b) /\ InHand(m) /\ ~ Ends(m) /\ (b.current_hand # NoHand \/ Starts(m)) => r.current_hand # NoHand
          /\ m.kind = "Prompt" => r.active_prompt = m /\ (b.current_hand # NoHand => Buttons(r))
        BY <2>2, <2>6, StepKept
    <2> HIDE DEF r
    <2>8. stage # "Idle" => r.current_hand # NoHand
        BY <1>3, <2>2, <2>3, <2>7
    <2>9. stage = "Asked" /\ todo' = <<>> => Buttons(r) /\ r.active_prompt = asked
        BY <1>2, <2>4, <2>5, <2>7
    <2> QED
        BY <1>1, <2>1, <2>8, <2>9 DEF KeptView
<1>4. CASE buf'.events = <<>> /\ x.call # "replay_push"
    BY <1>1, <1>2, <1>4 DEF KeptView
<1>5. CASE buf' = buf /\ x.call # "replay_push"
    <2>1. Rebuilt' = Rebuilt
        BY <1>5 DEF Rebuilt
    <2> QED
        BY <1>1, <1>2, <1>5, <2>1 DEF KeptView
<1>6. todo = Opening => x.call # "replay_push"
    BY FirstCalls
<1>7. NoBuffer.events = <<>>
    BY DEF NoBuffer
<1> HIDE DEF x
<1> QED
    BY <1>1, <1>3, <1>4, <1>5, <1>6, <1>7 DEF Performs

\* Where one shows a hand, so does the other.
LEMMA LikeHands ==
    ASSUME NEW c, NEW d, Like(c, d)
    PROVE  d.current_hand # NoHand => c.current_hand # NoHand
<1> DEFINE h == c.current_hand
           g == d.current_hand
           a == h.awaiting_action
           b == g.awaiting_action
<1>1. (h = NoHand /\ g = NoHand) \/ (a \in BOOLEAN /\ b \in BOOLEAN /\ Twins(h, g, a, b))
    BY DEF Like, SameHand
<1> HIDE DEF h, g, a, b
<1>2. a \in BOOLEAN /\ b \in BOOLEAN /\ Twins(h, g, a, b) => h # NoHand
    BY TwinsAreHands
<1> QED
    BY <1>1, <1>2 DEF h, g

\* A prompt that leaves a hand found one, and shows its buttons.
LEMMA PromptLights ==
    ASSUME NEW c, CoreShape(c), NEW p, p.kind = "Prompt", OnTableMessage(c, p).current_hand # NoHand
    PROVE  Buttons(OnTableMessage(c, p))
<1>1. ForSeat(p)
    BY PromptInHand DEF ForSeat
<1>2. OnTableMessage(c, p) = OnPrompt(c, p)
    BY DEF OnTableMessage
<1>3. OnPrompt(c, p).current_hand = LitHand(c.current_hand)
    BY PromptCore
<1>4. c.current_hand # NoHand
    BY <1>2, <1>3 DEF LitHand
<1> QED
    BY <1>1, <1>4, StepKept

\* A client that has missed nothing, when its player is asked and the prompt is on
\* its way: it will show the hand and the prompt.
LEMMA AskedView ==
    ASSUME FeedInv, ViewInv, stage = "Asked", clean,
           todo = <<>> \/ todo = <<ReplayPush(asked)>>, NEW f, Catches(f)
    PROVE  f.current_hand # NoHand /\ f.active_prompt = asked
<1> USE DEF ViewInv
<1> DEFINE b == Rebuilt
           p == asked
           e == OnTableMessage(b, p)
<1>1. CoreShape(b) /\ AtSeat(b) /\ CoreShape(f)
    <2>1. CanRead(core, out, f) /\ Len(out) \in Nat
        BY DEF Catches, FeedInv, FeedTypes, Queue
    <2>2. CoreShape(f)
        BY <2>1, ReadAtSeat
    <2> QED
        BY <2>2, RebuiltShape DEF FeedInv
<1>2. p.kind = "Prompt" /\ b.current_hand # NoHand
    BY DEF Prompting, KeptView
<1>3. ForSeat(p) /\ InHand(p) /\ ~ Ends(p)
    BY <1>2, PromptInHand DEF ForSeat
<1>4. todo # Opening /\ CanMake(todo, f, b)
    <2>1. <<>> # Opening /\ <<ReplayPush(asked)>> # Opening
        BY DEF Opening
    <2> QED
        BY <2>1 DEF Catches
<1>5. CASE todo = <<>>
    <2>1. b.active_prompt = p
        BY <1>5 DEF KeptView
    <2> HIDE DEF b, p
    <2>2. Like(f, b)
        BY <1>1, <1>4, <1>5, MakeNothing
    <2> QED
        BY <1>2, <2>1, <2>2, LikeHands DEF Like, p
<1>6. CASE todo = <<ReplayPush(p)>>
    <2> HIDE DEF b, p
    <2>1. Like(f, e)
        BY <1>1, <1>3, <1>4, <1>6, PromptMade
    <2>2. e.active_prompt = p /\ e.current_hand # NoHand
        BY <1>1, <1>2, <1>3, StepKept
    <2> HIDE DEF e
    <2>3. f.current_hand # NoHand /\ f.active_prompt = p
        BY <2>1, <2>2, LikeHands DEF Like
    <2> QED
        BY <2>3 DEF p
<1> QED
    BY <1>5, <1>6

\* The live view after a call.
LEMMA CallView ==
    ASSUME FeedInv, ViewInv, Call
    PROVE  LiveView'
<1> USE DEF ViewInv
<1> DEFINE x == Head(todo)
           m == x.message
           b == Rebuilt
<1>1. /\ todo # <<>> /\ todo' = Tail(todo) /\ Performs(x)
      /\ UNCHANGED <<stage, hand, asked, bound, in, core, conn, session, lifted, reply>>
    BY CallPerforms
<1>2. PICK f : Catches(f)
    BY DEF LiveView
<1>3. CanRead(core, out, f) /\ CoreShape(f) /\ AtSeat(f)
    <2>1. CanRead(core, out, f) /\ Len(out) \in Nat
        BY <1>2 DEF Catches, FeedInv, FeedTypes, Queue
    <2> QED
        BY <2>1, ReadAtSeat
<1>4. CoreShape(b) /\ AtSeat(b) /\ Queue(todo) /\ Queue(out)
    BY RebuiltShape DEF FeedInv, FeedTypes
<1>5. CASE /\ todo = Opening /\ buf' = [hand |-> hand, events |-> <<>>]
           /\ todo' = Fanned(TableEvent(Table, HandStarted(hand))) /\ UNCHANGED out
    <2> DEFINE s == TableEvent(Table, HandStarted(hand))
               j == Joined(NoKey)
               g == OnTableMessage(f, s)
               e == OnTableMessage(j, s)
    <2>1. CoreShape(j) /\ AtSeat(j)
        BY NewClients
    <2>2. Rebuilt' = j
        <3>1. buf'.events = <<>>
            BY <1>5
        <3>2. Fed(j, <<>>) = j
            BY FedNothing
        <3> QED
            BY <3>1, <3>2 DEF Rebuilt, Fed
    <2>3. Starts(s) /\ ForSeat(s)
        BY HandMessages DEF ForSeat
    <2> HIDE DEF s, j
    <2>4. Like(g, e) /\ CoreShape(g)
        BY <1>3, <2>1, <2>3, StartAlike, StepKept DEF Behind
    <2>5. CanMake(Fanned(s), f, j)
        <3> DEFINE y == ReplayPush(s)
                   z == SendCurrent(s)
                   t == <<y, z>>
                   u == <<z>>
        <3>1. /\ Queue(t) /\ t # <<>> /\ Tail(t) = u /\ Queue(u) /\ u # <<>> /\ Head(t) = ReplayPush(s)
              /\ Head(u) = SendCurrent(s) /\ Tail(u) = <<>>
            <4> HIDE DEF y, z
            <4>1. /\ Queue(t) /\ t # <<>> /\ Tail(t) = u /\ Queue(u) /\ u # <<>> /\ Head(t) = y
                  /\ Head(u) = z /\ Tail(u) = <<>>
                BY CallsInTurn
            <4> QED
                BY <4>1 DEF y, z
        <3> HIDE DEF t, u
        <3>2. CanMake(t, f, j) <=> CanMake(Tail(u), g, e)
            BY <1>3, <2>3, <3>1, FanFirst
        <3> HIDE DEF g, e
        <3>3. CanMake(<<>>, g, e)
            BY <2>4, MakeNothing
        <3> QED
            BY <3>1, <3>2, <3>3 DEF t, Fanned, y, z
    <2>6. ~ Waiting'
        <3>1. Fanned(s) # <<>> /\ Fanned(s) # <<ReplayPush(asked)>>
            BY DEF Fanned
        <3> QED
            BY <1>1, <1>5, <3>1 DEF Waiting, s
    <2>7. CanRead(core', out', f)
        BY <1>1, <1>3, <1>5
    <2>8. CanMake(todo', f, Rebuilt')
        BY <1>5, <2>2, <2>5 DEF s
    <2>9. Catches(f)'
        BY <2>6, <2>7, <2>8 DEF Catches
    <2> QED
        BY <2>9 DEF LiveView
<1>6. CASE x.call \in {"replay_push", "replay_end", "pending"} /\ UNCHANGED <<out, clean>>
    <2>1. todo # Opening
        BY <1>6, FirstCalls
    <2>2. CASE x.call = "replay_push" /\ InHand(m) /\ buf'.events = Append(buf.events, m)
        <3> DEFINE e == OnTableMessage(b, m)
        <3>1. Rebuilt' = e
            BY <2>2, RebuiltNext DEF FeedInv
        <3>2. Like(f, f) /\ ForSeat(m)
            BY <1>3, <2>2, LikeItself DEF ForSeat
        <3>3. Does(x, f, b, f, e) /\ Doable(x)
            BY <2>2, <3>2 DEF Does, Doable
        <3> HIDE DEF e, b
        <3>4. CanMake(todo, f, b) <=> CanMake(Tail(todo), f, e)
            BY <1>1, <1>3, <1>4, <3>3, MakeFirst
        <3>5. clean' => CanMake(todo', f, Rebuilt')
            <4>1. clean => CanMake(todo, f, b)
                BY <1>2, <2>1 DEF Catches, b
            <4>2. clean' = clean /\ todo' = Tail(todo) /\ Rebuilt' = e
                BY <1>1, <1>6, <3>1
            <4> QED
                BY <3>4, <4>1, <4>2, Zenon
        <3>6. Waiting' => Waiting
            <4>1. stage = "Asked" => todo = <<ReplayPush(asked)>>
                BY <1>1, <2>2, PromptCalls
            <4> QED
                BY <1>1, <2>2, <4>1, <1>6 DEF Waiting, Submitted, Performs
        <3>7. Catches(f)'
            <4>1. clean' /\ Waiting' => Buttons(f)
                <5>1. clean' = clean
                    BY <1>6
                <5>2. clean /\ Waiting => Buttons(f)
                    BY <1>2 DEF Catches
                <5> QED
                    BY <3>6, <5>1, <5>2, Zenon
            <4>2. CanRead(core', out', f)
                BY <1>1, <1>3, <1>6
            <4> QED
                BY <3>5, <4>1, <4>2 DEF Catches
        <3> QED
            BY <3>7 DEF LiveView
    <2>3. CASE x.call = "replay_end" /\ stage = "Idle" /\ buf' = NoBuffer
        <3> DEFINE j == Joined(NoKey)
        <3>1. Rebuilt' = j
            <4>1. buf'.events = <<>>
                BY <2>3 DEF NoBuffer
            <4>2. Fed(j, <<>>) = j
                BY FedNothing
            <4> QED
                BY <4>1, <4>2 DEF Rebuilt, Fed
        <3>2. Like(f, f)
            BY <1>3, LikeItself
        <3>3. Does(x, f, b, f, j) /\ Doable(x)
            BY <2>3, <3>2 DEF Does, Doable
        <3> HIDE DEF j, b
        <3>4. CanMake(todo, f, b) <=> CanMake(Tail(todo), f, j)
            BY <1>1, <1>3, <1>4, <3>3, MakeFirst
        <3>5. clean' => CanMake(todo', f, Rebuilt')
            <4>1. clean => CanMake(todo, f, b)
                BY <1>2, <2>1 DEF Catches, b
            <4>2. clean' = clean /\ todo' = Tail(todo) /\ Rebuilt' = j
                BY <1>1, <1>6, <3>1
            <4> QED
                BY <3>4, <4>1, <4>2, Zenon
        <3>6. ~ Waiting'
            BY <1>1, <2>3 DEF Waiting
        <3>7. CanRead(core', out', f)
            BY <1>1, <1>3, <1>6
        <3>8. Catches(f)'
            BY <3>5, <3>6, <3>7 DEF Catches
        <3> QED
            BY <3>8 DEF LiveView
    <2>4. CASE x.call = "pending" /\ buf' = buf
        <3>1. Rebuilt' = b
            BY <2>4 DEF Rebuilt
        <3>2. Like(f, f)
            BY <1>3, LikeItself
        <3>3. Does(x, f, b, f, b) /\ Doable(x)
            BY <2>4, <3>2 DEF Does, Doable
        <3> HIDE DEF b
        <3>4. CanMake(todo, f, b) <=> CanMake(Tail(todo), f, b)
            BY <1>1, <1>3, <1>4, <3>3, MakeFirst
        <3>5. clean' => CanMake(todo', f, Rebuilt')
            <4>1. clean => CanMake(todo, f, b)
                BY <1>2, <2>1 DEF Catches, b
            <4>2. clean' = clean /\ todo' = Tail(todo) /\ Rebuilt' = b
                BY <1>1, <1>6, <3>1
            <4> QED
                BY <3>4, <4>1, <4>2, Zenon
        <3>6. ~ Waiting'
            <4>1. stage = "Asked" => \E c \in Conns : todo' = AskingSent(c, asked)
                BY <1>1, <2>4, PromptCalls
            <4>2. \A c : AskingSent(c, asked) # <<>> /\ AskingSent(c, asked) # <<ReplayPush(asked)>>
                BY DEF AskingSent
            <4> QED
                BY <1>1, <4>1, <4>2 DEF Waiting
        <3>7. CanRead(core', out', f)
            BY <1>1, <1>3, <1>6
        <3>8. Catches(f)'
            BY <3>5, <3>6, <3>7 DEF Catches
        <3> QED
            BY <3>8 DEF LiveView
    <2> HIDE DEF x
    <2> QED
        BY <1>1, <1>6, <2>1, <2>2, <2>3, <2>4 DEF Performs, m
<1>7. CASE x.call \in {"current().try_send", "try_send"} /\ InHand(m) /\ Delivers(m) /\ UNCHANGED <<buf, pending>>
    <2>1. todo # Opening /\ Rebuilt' = b
        BY <1>7, FirstCalls DEF Rebuilt
    <2>2. CASE out' = out /\ ~ clean'
        <3>1. CanRead(core', out', f)
            BY <1>1, <1>3, <2>2
        <3>2. Catches(f)'
            BY <2>2, <3>1 DEF Catches
        <3> QED
            BY <3>2 DEF LiveView
    <2>3. CASE out' = Append(out, m) /\ clean' = clean
        <3> DEFINE g == OnTableMessage(f, m)
        <3>1. ForSeat(m) /\ Arrives(m)
            BY <1>7 DEF Arrives, ForSeat
        <3>2. CoreShape(g)
            BY <1>3, <3>1, StepKept
        <3>3. Like(g, g)
            BY <3>2, LikeItself
        <3>4. Does(x, f, b, g, b) /\ Doable(x)
            BY <1>7, <3>1, <3>3 DEF Does, Doable
        <3>5. CanRead(core', out', g)
            <4> HIDE DEF m, g
            <4>1. CanRead(core, Append(out, m), Inbound(f, m))
                BY <1>3, <1>4, <3>1, ReadOneMore
            <4>2. Inbound(f, m) = g
                BY <3>1, InboundIs DEF g
            <4> QED
                BY <1>1, <2>3, <4>1, <4>2
        <3>6. clean' => CanMake(todo', g, Rebuilt')
            <4>1. clean => CanMake(todo, f, b)
                BY <1>2, <2>1 DEF Catches
            <4>2. clean' = clean /\ todo' = Tail(todo) /\ Rebuilt' = b
                BY <1>1, <2>1, <2>3
            <4> HIDE DEF b, g
            <4>3. CanMake(todo, f, b) <=> CanMake(Tail(todo), g, b)
                BY <1>1, <1>3, <1>4, <3>2, <3>4, MakeFirst
            <4> QED
                BY <4>1, <4>2, <4>3, Zenon
        <3>7. ASSUME clean', Waiting' PROVE Buttons(g)
            <4>1. stage = "Asked"
                BY <1>1, <3>7 DEF Waiting
            <4>2. m = asked /\ todo' = <<ReplayPush(asked)>>
                BY <1>1, <1>7, <4>1, PromptCalls
            <4>3. asked.kind = "Prompt" /\ b.current_hand # NoHand
                BY <4>1 DEF Prompting, KeptView
            <4> DEFINE e == OnTableMessage(b, m)
            <4>4. CanMake(<<ReplayPush(m)>>, g, b)
                BY <2>1, <3>6, <3>7, <4>2
            <4> HIDE DEF b, m
            <4>5. e.current_hand # NoHand
                BY <1>4, <1>7, <3>1, <4>2, <4>3, StepKept, PromptInHand
            <4> HIDE DEF e, g
            <4>6. Like(g, e)
                BY <3>1, <3>2, <4>4, PromptMade DEF e
            <4>7. g.current_hand # NoHand
                BY <4>5, <4>6, LikeHands
            <4> QED
                BY <1>3, <4>2, <4>3, <4>7, PromptLights DEF g
        <3>8. PICK h : h = g
            OBVIOUS
        <3> HIDE DEF g
        <3>9. Catches(h)'
            BY <3>5, <3>6, <3>7, <3>8 DEF Catches
        <3> QED
            BY <3>9 DEF LiveView
    <2> QED
        BY <1>7, <2>2, <2>3 DEF Delivers
<1> HIDE DEF x
<1> QED
    BY <1>1, <1>5, <1>6, <1>7 DEF Performs, m

-----------------------------------------------------------------------------
(* The session and the client, beside the engine thread *)

\* What the engine thread has done, and has to do, is the same.
LEMMA AsideOrder ==
    ASSUME ViewInv, UNCHANGED <<todo, buf, hand, asked>>,
           stage' = stage \/ (stage = "Asked" /\ stage' = "Answered")
    PROVE  Begun' /\ Prompting' /\ KeptView'
<1> USE DEF ViewInv
<1>1. Rebuilt' = Rebuilt /\ Opening' = Opening
    BY DEF Rebuilt, Opening
<1>2. Begun'
    BY <1>1 DEF Begun
<1>3. Prompting'
    BY DEF Prompting
<1>4. KeptView'
    BY <1>1 DEF KeptView
<1> QED
    BY <1>2, <1>3, <1>4

\* Nothing is sent and nothing read.
LEMMA QuietView ==
    ASSUME ViewInv, UNCHANGED <<core, out, todo, buf, hand>>, clean' => clean,
           clean' /\ Waiting' => Waiting
    PROVE  LiveView'
<1>1. PICK f : Catches(f)
    BY DEF ViewInv, LiveView
<1>2. Rebuilt' = Rebuilt /\ Opening' = Opening
    BY DEF Rebuilt, Opening
<1>3. CanRead(core', out', f)
    BY <1>1 DEF Catches
<1>4. clean' /\ todo' # Opening' => CanMake(todo', f, Rebuilt')
    BY <1>1, <1>2 DEF Catches
<1>5. clean' /\ Waiting' => Buttons(f)
    BY <1>1 DEF Catches
<1>6. Catches(f)'
    BY <1>3, <1>4, <1>5 DEF Catches
<1> QED
    BY <1>6 DEF LiveView

\* A refusal on its way: the client shows the same, and its buttons come back.
LEMMA RefusalView ==
    ASSUME FeedInv, ViewInv, Delivers(ActionRejected), UNCHANGED <<core, todo, buf, hand, asked, stage>>
    PROVE  LiveView' /\ (\A m \in Entries(out') : Arrives(m)) /\ (clean' => clean)
<1> DEFINE m == ActionRejected
<1>1. PICK f : Catches(f)
    BY DEF ViewInv, LiveView
<1>2. Rebuilt' = Rebuilt /\ Opening' = Opening
    BY DEF Rebuilt, Opening
<1>3. CanRead(core, out, f) /\ CoreShape(f) /\ Queue(out)
    <2>1. CanRead(core, out, f) /\ Queue(out)
        BY <1>1 DEF Catches, FeedInv, FeedTypes
    <2>2. Len(out) \in Nat
        BY <2>1 DEF Queue
    <2> QED
        BY <2>1, <2>2, ReadAtSeat
<1>4. ForSeat(m) /\ Arrives(m)
    BY DEF ForSeat, Arrives
<1>5. \A y \in Entries(out) : Arrives(y)
    BY DEF ViewInv, ViewTypes
<1>6. CASE out' = out /\ ~ clean'
    <2>1. Catches(f)'
        BY <1>3, <1>6 DEF Catches
    <2> QED
        BY <1>5, <1>6, <2>1 DEF LiveView
<1>7. CASE out' = Append(out, m) /\ clean' = clean
    <2> DEFINE g == OnTableMessage(f, m)
    <2>1. clean' => clean
        BY <1>7, Zenon
    <2>2. CoreShape(g) /\ Like(f, g) /\ (f.current_hand # NoHand /\ f.active_prompt # NoMessage => Buttons(g))
        BY <1>3, <1>4, StepKept
    <2> HIDE DEF m, g
    <2>3. CanRead(core', out', g)
        <3>1. CanRead(core, Append(out, m), Inbound(f, m))
            BY <1>3, <1>4, ReadOneMore
        <3>2. Inbound(f, m) = g
            BY <1>4, InboundIs DEF g
        <3> QED
            BY <1>7, <3>1, <3>2
    <2>4. ASSUME clean', todo' # Opening' PROVE CanMake(todo', g, Rebuilt')
        <3> DEFINE b == Rebuilt
        <3>1. CanMake(todo, f, b)
            BY <1>1, <1>2, <2>1, <2>4 DEF Catches
        <3>2. todo' = todo /\ Rebuilt' = b
            BY <1>2
        <3> HIDE DEF b
        <3>3. CanMake(todo, g, b)
            BY <2>2, <3>1, MakeAlike
        <3> QED
            BY <3>2, <3>3
    <2>5. ASSUME clean', Waiting' PROVE Buttons(g)
        <3>1. clean /\ stage = "Asked" /\ (todo = <<>> \/ todo = <<ReplayPush(asked)>>)
            BY <2>1, <2>5 DEF Waiting
        <3>2. f.current_hand # NoHand /\ f.active_prompt = asked
            BY <1>1, <3>1, AskedView
        <3>3. asked # NoMessage
            BY <3>1, PromptInHand DEF ViewInv, Prompting
        <3> QED
            BY <2>2, <3>2, <3>3
    <2>6. Catches(g)'
        BY <2>3, <2>4, <2>5 DEF Catches, g, m
    <2>7. Entries(Append(out, m)) = Entries(out) \union {m}
        BY <1>3, AppendedQueue
    <2>8. \A y \in Entries(out') : Arrives(y)
        BY <1>4, <1>5, <1>7, <2>7
    <2>9. LiveView'
        BY <2>6 DEF LiveView
    <2> QED
        BY <2>1, <2>8, <2>9
<1> QED
    BY <1>6, <1>7 DEF Delivers

\* What the client has submitted and the session has not read.
LEMMA SubmittedIn ==
    /\ Submitted <=> \E m \in Entries(in) : m.kind = "SubmitAction"
    /\ Submitted' <=> \E m \in Entries(in') : m.kind = "SubmitAction"
BY DEF Submitted, Entries

\* handle_request_replay, until the snapshot is taken.
LEMMA RequestView ==
    ASSUME FeedInv, ViewInv, RequestReplay
    PROVE  ViewInv'
<1> USE DEF ViewInv
<1>1. /\ session = "Reading" /\ in # <<>> /\ Head(in).kind = "RequestReplay" /\ in' = Tail(in)
      /\ UNCHANGED <<stage, hand, asked, todo, buf, bound, pending, core, conn, lifted>>
    BY DEF RequestReplay, engine, link
<1>2. Queue(in') /\ Entries(in) = Entries(in') \union {Head(in)}
    BY <1>1, ShiftedQueue DEF ViewTypes
<1>3. Begun' /\ Prompting' /\ KeptView'
    BY <1>1, AsideOrder
<1>4. CASE /\ session' = "Replying" /\ reply' = buf /\ buf # NoBuffer /\ UNCHANGED <<out, clean>>
    <2>1. clean' => clean
        BY <1>4, Zenon
    <2>2. ViewTypes'
        BY <1>1, <1>2, <1>4 DEF ViewTypes
    <2>3. HoldsSeat'
        BY <1>1, <1>4, <2>1 DEF HoldsSeat
    <2>4. Submitted => Submitted'
        BY <1>1, <1>2, SubmittedIn
    <2>5. Waiting' => Waiting
        BY <1>1, <2>4 DEF Waiting
    <2>6. LiveView'
        BY <1>1, <1>4, <2>1, <2>5, QuietView
    <2> QED
        BY <1>3, <2>2, <2>3, <2>6
<1>5. CASE TrySend(conn, ActionRejected) /\ UNCHANGED <<session, reply>>
    <2>1. Delivers(ActionRejected)
        BY <1>5, Delivered
    <2>2. LiveView' /\ (\A m \in Entries(out') : Arrives(m)) /\ (clean' => clean)
        BY <1>1, <2>1, RefusalView
    <2>3. ViewTypes'
        BY <1>1, <1>2, <1>5, <2>2 DEF ViewTypes
    <2>4. HoldsSeat'
        BY <1>1, <1>5, <2>2 DEF HoldsSeat
    <2> QED
        BY <1>3, <2>2, <2>3, <2>4
<1> QED
    BY <1>4, <1>5 DEF RequestReplay, ReplaySnapshot, wire

\* A replay on its way: the client will show what the buffer rebuilds.
LEMMA ReplayView ==
    ASSUME FeedInv, ViewInv, SendReplay
    PROVE  ViewInv'
<1> USE DEF ViewInv
<1> DEFINE m == ReplayEvents(reply.hand, reply.events)
           s == reply.events
<1>1. /\ session = "Replying" /\ session' = "Reading" /\ reply' = NoBuffer
      /\ UNCHANGED <<stage, hand, asked, todo, buf, bound, pending, core, in, conn, lifted>>
      /\ \/ out' = Append(out, m) /\ clean' = (todo = <<>> /\ bound = conn /\ reply = buf)
         \/ out' = out /\ clean' = FALSE
    BY DEF SendReplay, engine, link, client
<1>2. Begun' /\ Prompting' /\ KeptView'
    BY <1>1, AsideOrder
<1>3. m.kind = "ReplayEvents" /\ m.events = s /\ Queue(s) /\ (\A y \in Entries(s) : InHand(y)) /\ Queue(out)
    BY DEF ReplayEvents, FeedInv, FeedTypes, ViewTypes
<1>4. Arrives(m) /\ ReplayOfHand(m)
    <2> HIDE DEF m, s
    <2> QED
        BY <1>3 DEF Arrives, ReplayOfHand
<1> HIDE DEF m
<1>5. ViewTypes'
    <2>1. Entries(Append(out, m)) = Entries(out) \union {m}
        BY <1>3, AppendedQueue
    <2>2. \A y \in Entries(out) : Arrives(y)
        BY DEF ViewTypes
    <2>3. \A y \in Entries(out') : Arrives(y)
        <3>1. CASE out' = out
            BY <2>2, <3>1
        <3>2. CASE out' = Append(out, m)
            BY <1>4, <2>1, <2>2, <3>2
        <3> QED
            BY <1>1, <3>1, <3>2
    <2>4. NoBuffer.events = <<>>
        BY DEF NoBuffer
    <2> QED
        BY <1>1, <2>3, <2>4, ShortQueues DEF ViewTypes
<1>6. HoldsSeat'
    <2>1. CASE clean' = (todo = <<>> /\ bound = conn /\ reply = buf)
        BY <1>1, <2>1, ShortQueues DEF HoldsSeat
    <2>2. CASE clean' = FALSE
        BY <1>1, <2>2 DEF HoldsSeat
    <2> QED
        BY <1>1, <2>1, <2>2
<1>7. PICK f : Catches(f)
    BY DEF LiveView
<1>8. CanRead(core, out, f) /\ CoreShape(f) /\ AtSeat(f)
    <2>1. CanRead(core, out, f) /\ Len(out) \in Nat
        BY <1>3, <1>7 DEF Catches, Queue
    <2> QED
        BY <2>1, ReadAtSeat
<1>9. CASE out' = out /\ clean' = FALSE
    <2>1. Catches(f)'
        BY <1>1, <1>8, <1>9 DEF Catches
    <2> QED
        BY <1>2, <1>5, <1>6, <2>1 DEF LiveView
<1>10. CASE out' = Append(out, m) /\ clean' = (todo = <<>> /\ bound = conn /\ reply = buf)
    <2>1. PICK g : g = Fed(f, s)
        OBVIOUS
    <2>2. CoreShape(g) /\ AtSeat(g)
        <3> HIDE DEF s
        <3> QED
            BY <1>3, <1>8, <2>1, FedShape
    <2>3. CanRead(core', out', g)
        <3>1. CanRead(core, Append(out, m), Inbound(f, m))
            BY <1>3, <1>4, <1>8, ReadOneMore
        <3>2. Inbound(f, m) = g
            BY <1>3, <1>4, <2>1, InboundIs
        <3> QED
            BY <1>1, <1>10, <3>1, <3>2
    <2>4. ASSUME clean' PROVE Behind(Rebuilt, g) /\ todo = <<>>
        <3>1. todo = <<>> /\ reply = buf
            BY <1>10, <2>4
        <3>2. s # <<>>
            <4>1. buf # NoBuffer
                BY <1>1, <3>1 DEF HoldsSeat
            <4>2. stage # "Idle"
                BY <3>1, <4>1 DEF FeedInv, HandOver, ResultDue, ResultKept, Closing
            <4> QED
                BY <3>1, <4>2, HandBegun
        <3> DEFINE j == Joined(NoKey)
        <3>3. CoreShape(j) /\ AtSeat(j) /\ Starts(s[1]) /\ Rebuilt = Fed(j, s)
            BY <3>1, <3>2, NewClients DEF Begun, Rebuilt, Fed
        <3> HIDE DEF j, s
        <3>4. Behind(Fed(j, s), Fed(f, s))
            BY <1>3, <1>8, <3>2, <3>3, FedFromStart
        <3> QED
            BY <2>1, <3>1, <3>3, <3>4
    <2>5. Rebuilt' = Rebuilt
        BY <1>1 DEF Rebuilt
    <2>6. ASSUME clean' PROVE CanMake(todo', g, Rebuilt')
        <3> DEFINE b == Rebuilt
        <3>1. Like(b, g) /\ todo' = <<>> /\ Rebuilt' = b
            BY <1>1, <2>4, <2>5, <2>6 DEF Behind
        <3> HIDE DEF b
        <3>2. Like(g, b)
            BY <3>1, LikeOthers
        <3>3. CanMake(<<>>, g, b)
            BY <2>2, <3>2, MakeNothing
        <3> QED
            BY <3>1, <3>3
    <2>7. ASSUME clean', Waiting' PROVE Buttons(g)
        <3>1. stage = "Asked" /\ todo = <<>>
            BY <1>1, <2>4, <2>7 DEF Waiting
        <3>2. Buttons(Rebuilt)
            BY <3>1 DEF KeptView
        <3> QED
            BY <2>4, <2>7, <3>2 DEF Behind
    <2>8. Catches(g)'
        BY <2>3, <2>6, <2>7 DEF Catches
    <2> QED
        BY <1>2, <1>5, <1>6, <2>8 DEF LiveView
<1> QED
    BY <1>1, <1>9, <1>10

\* deliver_action: the answer is taken, or refused.
LEMMA DeliverView ==
    ASSUME FeedInv, ViewInv, DeliverAction
    PROVE  ViewInv'
<1> USE DEF ViewInv
<1>1. /\ in # <<>> /\ in' = Tail(in)
      /\ UNCHANGED <<hand, asked, todo, buf, bound, core, conn, session, lifted, reply>>
      /\ pending' = pending \/ pending' = [pending EXCEPT ![conn] = NoMessage]
      /\ \/ stage = "Asked" /\ stage' = "Answered" /\ UNCHANGED <<out, clean>>
         \/ stage' = stage /\ TrySend(conn, ActionRejected)
    BY DEF DeliverAction, serving, wire
<1>2. Queue(in')
    BY <1>1, ShiftedQueue DEF ViewTypes
<1>3. Begun' /\ Prompting' /\ KeptView'
    BY <1>1, AsideOrder
<1>4. \A c \in Conns : pending'[c] = NoMessage \/ InHand(pending'[c])
    BY <1>1 DEF ViewTypes, FeedInv, FeedTypes
<1>5. LiveView' /\ (\A m \in Entries(out') : Arrives(m)) /\ (clean' => clean)
    <2>1. CASE stage' = "Answered" /\ UNCHANGED <<out, clean>>
        <3>1. clean' => clean
            BY <2>1, Zenon
        <3>2. ~ Waiting'
            BY <2>1 DEF Waiting
        <3>3. LiveView'
            BY <1>1, <2>1, <3>1, <3>2, QuietView
        <3> QED
            BY <2>1, <3>1, <3>3 DEF ViewTypes
    <2>2. CASE stage' = stage /\ TrySend(conn, ActionRejected)
        <3>1. Delivers(ActionRejected)
            BY <2>2, Delivered
        <3> QED
            BY <1>1, <2>2, <3>1, RefusalView
    <2> QED
        BY <1>1, <2>1, <2>2
<1>6. ViewTypes'
    BY <1>1, <1>2, <1>4, <1>5 DEF ViewTypes
<1>7. HoldsSeat'
    BY <1>1, <1>5 DEF HoldsSeat
<1> QED
    BY <1>3, <1>5, <1>6, <1>7

\* The first message of a connection that takes the seat over.
LEMMA ReadSeat ==
    ASSUME NEW c, CoreShape(c)
    PROVE  \E f : CanRead(c, <<JoinedTable(Table, MySeat)>>, f)
<1> DEFINE m == JoinedTable(Table, MySeat)
           q == <<m>>
           f == Inbound(c, m)
           w == [i \in 0 .. 1 |-> IF i = 0 THEN c ELSE f]
<1>1. ForSeat(m) /\ Arrives(m)
    BY DEF ForSeat, Arrives
<1>2. CoreShape(f) /\ AtSeat(f)
    BY <1>1, InboundIs, StepKept
<1>3. Behind(c, c) /\ Behind(f, f)
    BY <1>2, LikeItself
<1> HIDE DEF m
<1>4. Len(q) = 1 /\ q[1] = m /\ w[0] = c /\ w[1] = f
    OBVIOUS
<1>5. f = Inbound(c, m)
    OBVIOUS
<1> HIDE DEF q, f, w
<1>6. \A i \in 0 .. 1 : CoreShape(w[i])
    BY <1>2, <1>4
<1>7. \A i \in 1 .. 1 : Behind(w[i], Inbound(w[i - 1], q[i]))
    BY <1>3, <1>4, <1>5
<1>8. Reads(w, c, q)
    BY <1>2, <1>3, <1>4, <1>6, <1>7 DEF Reads
<1>9. CanRead(c, q, f)
    BY <1>4, <1>8 DEF CanRead
<1> QED
    BY <1>9 DEF q, m

\* reconnect_player: until it is done the new client has missed something.
LEMMA TakeoverView ==
    ASSUME FeedInv, ViewInv, Reconnect \/ LiftPrompt \/ ReplaceLink \/ ReissuePrompt
    PROVE  ViewInv'
<1> USE DEF ViewInv
<1>1. UNCHANGED <<stage, hand, asked, todo, buf>>
    BY DEF Reconnect, LiftPrompt, ReplaceLink, ReissuePrompt, engine, link
<1>2. Begun' /\ Prompting' /\ KeptView'
    BY <1>1, AsideOrder
<1>3. CASE Reconnect
    <2>1. /\ session' = "Lifting" /\ reply' = NoBuffer /\ out' = <<JoinedTable(Table, MySeat)>>
          /\ in' = <<>> /\ ~ clean' /\ core' = OnWelcome(CoreNew(NoKey), Welcome(1)).core
          /\ UNCHANGED <<pending, lifted>>
        BY <1>3 DEF Reconnect, link
    <2>2. CoreShape(core')
        BY <2>1, NewClients
    <2>3. \A m \in Entries(out') : Arrives(m)
        <3>1. Entries(out') = {JoinedTable(Table, MySeat)}
            BY <2>1, ShortQueues
        <3> QED
            BY <3>1 DEF Arrives, ForSeat
    <2>4. ViewTypes'
        BY <1>1, <2>1, <2>2, <2>3, ShortQueues DEF ViewTypes, NoBuffer
    <2>5. HoldsSeat'
        BY <2>1 DEF HoldsSeat
    <2>6. PICK f : CanRead(core', out', f)
        <3> DEFINE c == core'
        <3>1. CoreShape(c)
            BY <2>2
        <3> HIDE DEF c
        <3>2. \E f : CanRead(c, <<JoinedTable(Table, MySeat)>>, f)
            BY <3>1, ReadSeat
        <3> QED
            BY <2>1, <3>2 DEF c
    <2>7. Catches(f)'
        BY <2>1, <2>6 DEF Catches
    <2>8. LiveView'
        BY <2>7 DEF LiveView
    <2> QED
        BY <1>2, <2>4, <2>5, <2>8
<1>4. CASE LiftPrompt \/ ReplaceLink
    <2>1. /\ session \notin {"Reading", "Replying"} /\ session' \in {"Replacing", "Reissuing"}
          /\ UNCHANGED <<core, in, out, clean, conn, reply>>
          /\ \/ pending' = pending /\ lifted' = lifted
             \/ pending' = [pending EXCEPT ![bound] = NoMessage] /\ lifted' = pending[bound]
        BY <1>4 DEF LiftPrompt, ReplaceLink, wire, client
    <2>2. ~ clean
        BY <2>1 DEF HoldsSeat
    <2>3. ~ clean'
        BY <2>1, <2>2, Zenon
    <2>4. ViewTypes'
        BY <1>1, <2>1 DEF ViewTypes, FeedInv, FeedTypes
    <2>5. HoldsSeat'
        BY <2>1, <2>3 DEF HoldsSeat
    <2>6. LiveView'
        BY <1>1, <2>1, <2>3, QuietView
    <2> QED
        BY <1>2, <2>4, <2>5, <2>6
<1>5. CASE ReissuePrompt
    <2>1. /\ session = "Reissuing" /\ session' = "Reading" /\ lifted' = NoMessage
          /\ UNCHANGED <<core, in, conn, reply, bound>>
          /\ \/ UNCHANGED <<pending, out, clean>>
             \/ lifted # NoMessage /\ pending' = [pending EXCEPT ![conn] = lifted] /\ TrySend(conn, lifted)
        BY <1>5 DEF ReissuePrompt, wire, client
    <2>2. ~ clean
        BY <2>1 DEF HoldsSeat
    <2>3. CASE UNCHANGED <<pending, out, clean>>
        <3>1. ~ clean'
            BY <2>2, <2>3, Zenon
        <3>2. ViewTypes'
            BY <1>1, <2>1, <2>3 DEF ViewTypes
        <3>3. HoldsSeat'
            BY <2>1, <3>1 DEF HoldsSeat
        <3>4. LiveView'
            BY <1>1, <2>1, <2>3, <3>1, QuietView
        <3> QED
            BY <1>2, <3>2, <3>3, <3>4
    <2>4. CASE /\ lifted # NoMessage /\ pending' = [pending EXCEPT ![conn] = lifted]
               /\ TrySend(conn, lifted)
        <3> DEFINE m == lifted
        <3>1. InHand(m) /\ Arrives(m)
            BY <2>4 DEF ViewTypes, Arrives, ForSeat
        <3>2. Delivers(m)
            BY <2>4, Delivered
        <3>3. ~ clean' /\ (out' = out \/ out' = Append(out, m))
            <4>1. CASE out' = Append(out, m) /\ clean' = clean
                <5>1. ~ clean'
                    BY <2>2, <4>1, Zenon
                <5> QED
                    BY <4>1, <5>1
            <4>2. CASE out' = out /\ ~ clean'
                BY <4>2
            <4> QED
                BY <3>2, <4>1, <4>2 DEF Delivers
        <3>4. PICK f : CanRead(core, out, f)
            BY DEF LiveView, Catches
        <3>5. Queue(out) /\ \A y \in Entries(out) : Arrives(y)
            BY DEF FeedInv, FeedTypes, ViewTypes
        <3>6. Entries(Append(out, m)) = Entries(out) \union {m} /\ CanRead(core, Append(out, m), Inbound(f, m))
            <4> HIDE DEF m
            <4>1. Entries(Append(out, m)) = Entries(out) \union {m}
                BY <3>5, AppendedQueue
            <4>2. CanRead(core, Append(out, m), Inbound(f, m))
                BY <3>1, <3>4, <3>5, ReadOneMore
            <4> QED
                BY <4>1, <4>2
        <3>7. (\A y \in Entries(out') : Arrives(y)) /\ \E g : CanRead(core', out', g)
            <4>1. CASE out' = out
                BY <2>1, <3>4, <3>5, <4>1
            <4>2. CASE out' = Append(out, m)
                BY <2>1, <3>1, <3>5, <3>6, <4>2
            <4> QED
                BY <3>3, <4>1, <4>2
        <3>8. ViewTypes'
            BY <1>1, <2>1, <2>4, <3>1, <3>7 DEF ViewTypes, FeedInv, FeedTypes
        <3>9. HoldsSeat'
            BY <2>1, <3>3 DEF HoldsSeat
        <3>10. LiveView'
            <4>1. PICK g : CanRead(core', out', g)
                BY <3>7
            <4>2. Catches(g)'
                BY <3>3, <4>1 DEF Catches
            <4> QED
                BY <4>2 DEF LiveView
        <3> QED
            BY <1>2, <3>8, <3>9, <3>10
    <2> QED
        BY <2>1, <2>3, <2>4
<1> QED
    BY <1>3, <1>4, <1>5

\* handle_submit_action: the client without its buttons.
LEMMA SubmitCore ==
    ASSUME NEW c, CoreShape(c), OnSubmitAction(c).effects # <<>>
    PROVE  /\ CoreShape(OnSubmitAction(c).core) /\ Like(c, OnSubmitAction(c).core)
           /\ Head(OnSubmitAction(c).effects).message.kind = "SubmitAction"
<1> DEFINE h == c.current_hand
           r == OnSubmitAction(c).core
<1>1. /\ h # NoHand /\ OnSubmitAction(c) = To([c EXCEPT !.current_hand.awaiting_action = FALSE],
                                              <<Send(SubmitAction(c.active_prompt))>>)
    BY DEF OnSubmitAction, To
<1>2. HandShape(h)
    BY <1>1 DEF CoreShape
<1>3. \A v \in BOOLEAN : /\ HandShape(Flagged(h, v)) /\ SameHand(h, Flagged(h, v))
    BY <1>2, Lit
<1> DEFINE g == [h EXCEPT !.awaiting_action = FALSE]
<1>4. HandShape(g) /\ SameHand(h, g)
    <2>1. FALSE \in BOOLEAN /\ g = Flagged(h, FALSE)
        BY DEF Flagged
    <2> QED
        BY <1>3, <2>1, Zenon
<1>5. r = [c EXCEPT !.current_hand = g]
    BY <1>1 DEF To
<1> HIDE DEF g, r
<1>6. /\ r = CoreOf(c.phase, c.table, c.seat, g, c.rejection, c.session_key, c.connection_open,
                    c.pending_handshake, c.active_prompt)
    BY <1>5 DEF CoreShape, CoreOf
<1>7. /\ r.phase = c.phase /\ r.table = c.table /\ r.seat = c.seat /\ r.current_hand = g
      /\ r.rejection = c.rejection /\ r.session_key = c.session_key
      /\ r.connection_open = c.connection_open /\ r.pending_handshake = c.pending_handshake
      /\ r.active_prompt = c.active_prompt
    BY <1>6 DEF CoreOf
<1>8. CoreShape(r)
    BY <1>4, <1>6, <1>7 DEF CoreShape
<1>9. Like(c, r)
    BY <1>4, <1>7 DEF Like
<1>10. Head(OnSubmitAction(c).effects).message.kind = "SubmitAction"
    BY <1>1 DEF To, Send, SubmitAction
<1> QED
    BY <1>8, <1>9, <1>10 DEF r

\* The client reads, submits and asks.
LEMMA ClientView ==
    ASSUME FeedInv, ViewInv, Receive \/ Submit \/ (\E h \in 1 .. hand : Ask(h))
    PROVE  ViewInv'
<1> USE DEF ViewInv
<1>1. UNCHANGED <<stage, hand, asked, todo, buf, bound, pending, conn, session, lifted, reply, clean>>
    BY DEF Receive, Submit, Ask, engine, link, serving, wire
<1>2. Begun' /\ Prompting' /\ KeptView'
    BY <1>1, AsideOrder
<1>3. (clean' => clean) /\ (clean => clean')
    <2>1. clean' = clean
        BY <1>1
    <2> QED
        BY <2>1, Zenon
<1>4. HoldsSeat'
    BY <1>1, <1>3 DEF HoldsSeat
<1>5. Rebuilt' = Rebuilt /\ Opening' = Opening
    BY <1>1 DEF Rebuilt, Opening
<1>6. PICK f : Catches(f)
    BY DEF LiveView
<1>7. Queue(out) /\ Queue(in) /\ CoreShape(core) /\ (\A m \in Entries(out) : Arrives(m)) /\ CanRead(core, out, f)
    BY <1>6 DEF FeedInv, FeedTypes, ViewTypes, Catches
<1>8. CASE Receive
    <2> DEFINE m == Head(out)
    <2>1. out # <<>> /\ out' = Tail(out) /\ core' = Inbound(core, m) /\ in' = in
        BY <1>8 DEF Receive, Inbound
    <2>2. Entries(out) = Entries(out') \union {m}
        BY <1>7, <2>1, ShiftedQueue
    <2>3. Arrives(m)
        BY <1>7, <2>2
    <2>4. CoreShape(Inbound(core, m))
        BY <1>7, <2>3, InboundKept
    <2>5. ViewTypes'
        BY <1>1, <1>7, <2>1, <2>2, <2>4 DEF ViewTypes
    <2>6. CanRead(core', out', f)
        <3>1. CanRead(Inbound(core, Head(out)), Tail(out), f)
            BY <1>7, <2>1, ReadFirst
        <3> QED
            BY <2>1, <3>1
    <2>7. Waiting' => Waiting
        BY <1>1, <2>1 DEF Waiting, Submitted
    <2>8. Catches(f)'
        BY <1>1, <1>3, <1>5, <1>6, <2>6, <2>7 DEF Catches
    <2> QED
        BY <1>2, <1>4, <2>5, <2>8 DEF LiveView
<1>9. CASE Submit
    <2> DEFINE c == core
               r == OnSubmitAction(c).core
               k == Head(OnSubmitAction(c).effects).message
    <2>1. OnSubmitAction(c).effects # <<>> /\ core' = r /\ in' = Append(in, k) /\ out' = out
        BY <1>9 DEF Submit, wire
    <2>2. CoreShape(r) /\ Like(c, r) /\ k.kind = "SubmitAction"
        BY <1>7, <2>1, SubmitCore
    <2> HIDE DEF k, r
    <2>3. Queue(in') /\ Entries(in') = Entries(in) \union {k}
        BY <1>7, <2>1, AppendedQueue
    <2>4. ViewTypes'
        BY <1>1, <2>1, <2>2, <2>3 DEF ViewTypes
    <2>5. ~ Waiting'
        <3>1. Submitted'
            BY <2>2, <2>3, SubmittedIn
        <3> QED
            BY <3>1 DEF Waiting
    <2>6. CanRead(r, out, Dark(f)) /\ Like(Dark(f), f)
        BY <1>7, <2>2, ReadDark
    <2>7. PICK g : g = Dark(f)
        OBVIOUS
    <2>8. CanRead(core', out', g) /\ Like(f, g)
        BY <2>1, <2>6, <2>7, LikeOthers
    <2>9. ASSUME clean', todo' # Opening' PROVE CanMake(todo', g, Rebuilt')
        <3> DEFINE b == Rebuilt
        <3>1. CanMake(todo, f, b)
            BY <1>1, <1>3, <1>5, <1>6, <2>9 DEF Catches
        <3> HIDE DEF b
        <3>2. CanMake(todo, g, b)
            BY <2>8, <3>1, MakeAlike
        <3> QED
            BY <1>1, <1>5, <3>2 DEF b
    <2>10. Catches(g)'
        BY <2>5, <2>8, <2>9 DEF Catches
    <2> QED
        BY <1>2, <1>4, <2>4, <2>10 DEF LiveView
<1>10. ASSUME NEW h \in 1 .. hand, Ask(h) PROVE ViewInv'
    <2> DEFINE k == [kind |-> "RequestReplay", hand |-> h]
    <2>1. in' = Append(in, k) /\ UNCHANGED <<core, out>>
        BY <1>10 DEF Ask, wire
    <2> HIDE DEF k
    <2>2. Queue(in') /\ Entries(in') = Entries(in) \union {k}
        BY <1>7, <2>1, AppendedQueue
    <2>3. ViewTypes'
        BY <1>1, <2>1, <2>2 DEF ViewTypes
    <2>4. Waiting' => Waiting
        BY <1>1, <2>2, SubmittedIn DEF Waiting
    <2>5. LiveView'
        BY <1>1, <1>3, <2>1, <2>4, QuietView
    <2> QED
        BY <1>2, <1>4, <2>3, <2>5
<1> QED
    BY <1>8, <1>9, <1>10

-----------------------------------------------------------------------------
(* The theorems *)

\* At the start there is nothing to show.
LEMMA ViewInit == Init => ViewInv
<1> SUFFICES ASSUME Init PROVE ViewInv
    OBVIOUS
<1> DEFINE j == Joined(NoKey)
<1>1. /\ core = j /\ in = <<>> /\ out = <<>> /\ todo = <<>> /\ buf = NoBuffer /\ reply = NoBuffer
      /\ pending = [c \in Conns |-> NoMessage] /\ lifted = NoMessage /\ stage = "Idle"
      /\ bound = 1 /\ conn = 1 /\ session = "Reading"
    BY DEF Init
<1>2. CoreShape(j) /\ AtSeat(j)
    BY NewClients
<1>3. buf.events = <<>> /\ reply.events = <<>>
    BY <1>1 DEF NoBuffer
<1>4. Rebuilt = j
    <2>1. Fed(j, <<>>) = j
        BY FedNothing
    <2> QED
        BY <1>3, <2>1 DEF Rebuilt, Fed
<1> HIDE DEF j
<1>5. ViewTypes
    BY <1>1, <1>2, <1>3, ShortQueues DEF ViewTypes
<1>6. Begun
    BY <1>1, <1>3 DEF Begun
<1>7. HoldsSeat
    BY <1>1, ShortQueues DEF HoldsSeat
<1>8. Prompting /\ KeptView
    BY <1>1, <1>3 DEF Prompting, KeptView
<1>9. LiveView
    <2>1. CanRead(j, <<>>, j)
        BY <1>2, ReadNothing
    <2>2. Like(j, j)
        BY <1>2, LikeItself
    <2>3. CanMake(<<>>, j, j)
        BY <1>2, <2>2, MakeNothing
    <2>4. ~ Waiting
        BY <1>1 DEF Waiting
    <2>5. Catches(j)
        BY <1>1, <1>4, <2>1, <2>3, <2>4 DEF Catches
    <2> QED
        BY <2>5 DEF LiveView
<1> QED
    BY <1>5, <1>6, <1>7, <1>8, <1>9 DEF ViewInv

\* No step of anyone ends that.
LEMMA ViewStep ==
    ASSUME FeedInv, ViewInv, [Next]_vars
    PROVE  ViewInv'
<1>1. CASE UNCHANGED vars
    <2>1. /\ UNCHANGED <<stage, hand, asked, todo, buf, bound, pending, conn, session, lifted, reply>>
          /\ UNCHANGED <<core, in, out>> /\ clean' = clean
        BY <1>1 DEF vars, engine, link, wire, client, serving
    <2>2. Begun' /\ Prompting' /\ KeptView'
        BY <2>1, AsideOrder
    <2>3. clean' => clean
        BY <2>1, Zenon
    <2>4. ViewTypes'
        BY <2>1 DEF ViewInv, ViewTypes
    <2>5. HoldsSeat'
        BY <2>1, <2>3 DEF ViewInv, HoldsSeat
    <2>6. Waiting' => Waiting
        BY <2>1 DEF Waiting, Submitted
    <2>7. LiveView'
        BY <2>1, <2>3, <2>6, QuietView
    <2> QED
        BY <2>2, <2>4, <2>5, <2>7 DEF ViewInv
<1>2. CASE Call
    BY <1>2, CallTypes, CallOrder, CallKept, CallView DEF ViewInv
<1>3. CASE Emits
    BY <1>3, EmitKept, EmitView DEF ViewInv
<1>4. CASE Next
    BY <1>2, <1>3, <1>4, EngineEmits, RequestView, ReplayView, DeliverView, TakeoverView, ClientView DEF Next
<1> QED
    BY <1>1, <1>4

\* The invariant, of every behaviour: the client, once it has read its queue, and
\* the buffer differ by the calls that the engine thread has still to make.
THEOREM FeedViewInvariance == Spec => []ViewInv
<1>1. ViewInv /\ FeedInv /\ FeedInv' /\ [Next]_vars => ViewInv'
    BY ViewStep
<1> QED
    BY ViewInit, FeedInvariance, <1>1, PTL DEF Spec

\* A seat's replay buffer is as good as having been there: a client that received
\* the hand live, or received a replay while nothing was being fanned out and what
\* followed live, shows the hand that the buffer alone rebuilds.
THEOREM ReplayAlwaysRebuilds == Spec => []ReplayRebuilds
<1>1. ASSUME FeedInv, ViewInv PROVE ReplayRebuilds
    <2> SUFFICES ASSUME clean, out = <<>>, todo = <<>> PROVE Shown(core) = Shown(Rebuilt)
        BY DEF ReplayRebuilds
    <2>1. PICK f : Catches(f)
        BY <1>1 DEF ViewInv, LiveView
    <2> DEFINE b == Rebuilt
               c == core
    <2>2. CoreShape(c) /\ CanRead(c, <<>>, f) /\ CanMake(<<>>, f, b)
        BY <1>1, <2>1 DEF ViewInv, ViewTypes, Catches, Opening
    <2> HIDE DEF b, c
    <2>3. Behind(f, c)
        BY <2>2, ReadNothing
    <2>4. CoreShape(f)
        <3>1. Len(<<>>) \in Nat
            OBVIOUS
        <3> QED
            BY <2>2, <3>1, ReadAtSeat
    <2>5. Like(f, b) /\ Like(f, c)
        BY <2>2, <2>3, <2>4, MakeNothing DEF Behind
    <2>6. Like(c, f)
        BY <2>5, LikeOthers
    <2>7. Like(c, b)
        BY <2>5, <2>6, LikeOthers
    <2>8. Shown(c) = Shown(b)
        BY <2>7, LikeIsShown
    <2> QED
        BY <2>8 DEF b, c
<1> QED
    BY FeedInvariance, FeedViewInvariance, <1>1, PTL

\* A player the engine waits for has the buttons to answer with, on the prompt that
\* is open, also when a replay brought it.
THEOREM MyTurnAlwaysShown == Spec => []MyTurnIsShown
<1>1. ASSUME FeedInv, ViewInv PROVE MyTurnIsShown
    <2> SUFFICES ASSUME clean, MyTurn
                 PROVE  core.current_hand # NoHand /\ core.current_hand.awaiting_action
                        /\ core.active_prompt = asked
        BY DEF MyTurnIsShown
    <2>1. PICK f : Catches(f)
        BY <1>1 DEF ViewInv, LiveView
    <2>2. stage = "Asked" /\ todo = <<>> /\ out = <<>> /\ Waiting
        BY DEF MyTurn, Waiting
    <2>3. f.active_prompt = asked
        BY <1>1, <2>1, <2>2, AskedView
    <2> DEFINE c == core
    <2>4. CoreShape(c) /\ CanRead(c, <<>>, f) /\ Buttons(f)
        BY <1>1, <2>1, <2>2 DEF ViewInv, ViewTypes, Catches
    <2> HIDE DEF c
    <2>5. Behind(f, c)
        BY <2>4, ReadNothing
    <2>6. Buttons(c) /\ c.active_prompt = asked
        BY <2>3, <2>4, <2>5 DEF Behind, Like
    <2> QED
        BY <2>6 DEF Buttons, c
<1> QED
    BY FeedInvariance, FeedViewInvariance, <1>1, PTL
=============================================================================
