------------------------ MODULE ClientRuntimeProofs -------------------------
(***************************************************************************)
(* What the native client shows, for every number of sockets, intents and  *)
(* messages, with sockets that break, frames that come in pieces, reads    *)
(* that are cut off and hosts that reconnect at any point: a client that   *)
(* shows itself connected has a connection, and once everything has been   *)
(* read it is where the server has told it to be.                          *)
(*                                                                         *)
(* A frame is on its way in two queues, the socket and the channel of the  *)
(* handle.  The argument is about the last frame in them that says where   *)
(* the client is: moving it from one to the other, or into *)
(* the core, keeps what is said last.                                      *)
(***************************************************************************)
EXTENDS ClientRuntime, SequenceTheorems, TLAPS

-----------------------------------------------------------------------------
(* The effects of one transition *)

\* The order in which a fold takes the entries of a short sequence.
LEMMA LastOfTwo == Max({1}) = 1 /\ Max({2}) = 2 /\ Max({1, 2}) = 2
<1>1. Max({1}) = 1
    BY DEF Max
<1>2. Max({2}) = 2
    BY DEF Max
<1>3. Max({1, 2}) = 2
    BY DEF Max
<1> QED
    BY <1>1, <1>2, <1>3

\* process_effects without an effect.
LEMMA NoEffect == ASSUME NEW h PROVE ProcessEffects(h, <<>>) = h
<1> DEFINE Step(f) == [s \in SUBSET {} |->
                          IF s = {} THEN h ELSE Perform(f[s \ {Max(s)}], <<>>[Max(s)])]
           F == CHOOSE f : f = Step(f)
           g == [s \in SUBSET {} |-> h]
<1>1. ProcessEffects(h, <<>>) = F[{}]
    <2>1. DOMAIN <<>> = {}
        OBVIOUS
    <2> QED
        BY <2>1 DEF ProcessEffects, FoldLeft, MapThenFoldSet
<1>2. g = Step(g)
    OBVIOUS
<1>3. F = Step(F)
    <2> HIDE DEF Step, g
    <2> QED
        BY <1>2
<1> QED
    BY <1>1, <1>3

\* process_effects with one effect.
LEMMA OneEffect == ASSUME NEW h, NEW e PROVE ProcessEffects(h, <<e>>) = Perform(h, e)
<1> DEFINE Step(f) == [s \in SUBSET {1} |->
                          IF s = {} THEN h ELSE Perform(f[s \ {Max(s)}], <<e>>[Max(s)])]
           F == CHOOSE f : f = Step(f)
           g == [s \in SUBSET {1} |-> IF s = {} THEN h ELSE Perform(h, e)]
<1>1. ProcessEffects(h, <<e>>) = F[{1}]
    <2>1. DOMAIN <<e>> = {1}
        OBVIOUS
    <2> QED
        BY <2>1 DEF ProcessEffects, FoldLeft, MapThenFoldSet
<1>2. g = Step(g)
    <2>1. \A s \in SUBSET {1} : s = {} \/ s = {1}
        OBVIOUS
    <2>2. {1} \ {1} = {} /\ <<e>>[1] = e
        OBVIOUS
    <2>3. g[{}] = h /\ g[{1}] = Perform(h, e)
        OBVIOUS
    <2>4. ASSUME NEW s \in SUBSET {1} PROVE g[s] = Step(g)[s]
        <3> HIDE DEF g
        <3> QED
            BY <2>1, <2>2, <2>3, LastOfTwo
    <2> QED
        BY <2>4
<1>3. F = Step(F)
    <2> HIDE DEF Step, g
    <2> QED
        BY <1>2
<1> HIDE DEF F
<1>4. F[{}] = h
    BY <1>3
<1>5. F[{1}] = Perform(F[{1} \ {1}], <<e>>[1])
    BY <1>3, LastOfTwo, ZenonT(60)
<1> QED
    BY <1>1, <1>4, <1>5

\* process_effects with two effects, in their order.
LEMMA TwoEffects ==
    ASSUME NEW h, NEW d, NEW e
    PROVE  ProcessEffects(h, <<d, e>>) = Perform(Perform(h, d), e)
<1> DEFINE Step(f) == [s \in SUBSET {1, 2} |->
                          IF s = {} THEN h ELSE Perform(f[s \ {Max(s)}], <<d, e>>[Max(s)])]
           F == CHOOSE f : f = Step(f)
           g == [s \in SUBSET {1, 2} |->
                    CASE s = {} -> h
                      [] s = {1} -> Perform(h, d)
                      [] s = {2} -> Perform(h, e)
                      [] s = {1, 2} -> Perform(Perform(h, d), e)]
<1>1. ProcessEffects(h, <<d, e>>) = F[{1, 2}]
    <2>1. DOMAIN <<d, e>> = {1, 2}
        OBVIOUS
    <2> QED
        BY <2>1 DEF ProcessEffects, FoldLeft, MapThenFoldSet
<1>2. g = Step(g)
    <2>1. \A s \in SUBSET {1, 2} : s = {} \/ s = {1} \/ s = {2} \/ s = {1, 2}
        OBVIOUS
    <2>2. /\ {1} \ {1} = {} /\ {2} \ {2} = {} /\ {1, 2} \ {2} = {1}
          /\ <<d, e>>[1] = d /\ <<d, e>>[2] = e
        OBVIOUS
    <2>3. /\ g[{}] = h /\ g[{1}] = Perform(h, d) /\ g[{2}] = Perform(h, e)
          /\ g[{1, 2}] = Perform(Perform(h, d), e)
        OBVIOUS
    <2>4. ASSUME NEW s \in SUBSET {1, 2} PROVE g[s] = Step(g)[s]
        <3> HIDE DEF g
        <3> QED
            BY <2>1, <2>2, <2>3, LastOfTwo, ZenonT(60)
    <2> QED
        BY <2>4
<1>3. F = Step(F)
    <2> HIDE DEF Step, g
    <2> QED
        BY <1>2
<1> HIDE DEF F
<1>4. F[{}] = h
    BY <1>3
<1>5. F[{1}] = Perform(F[{1} \ {1}], <<d, e>>[1])
    BY <1>3, LastOfTwo
<1>6. F[{1, 2}] = Perform(F[{1, 2} \ {2}], <<d, e>>[2])
    BY <1>3, LastOfTwo
<1>7. {1, 2} \ {2} = {1}
    OBVIOUS
<1> QED
    BY <1>1, <1>4, <1>5, <1>6, <1>7

-----------------------------------------------------------------------------
(* The inductive invariant *)

\* A core has its fields, whatever is in them.
CoreFields == {"phase", "table", "seat", "current_hand", "rejection", "session_key",
               "connection_open", "pending_handshake", "active_prompt"}
IsCore(c) == c = [f \in CoreFields |-> c[f]]

\* What the server puts into the socket, and what the pump reports.
ServerFrame ==
    {Welcome(1), Rejected, Goodbye, JoinedTable(Table, Seat), LeftTable, ActionRejected, EndOfFile}
      \union {TableEvent(Table, HandStarted(n)) : n \in 1 .. MaxPushes}
      \union {PromptMessage(Table, n, Seat, 0) : n \in 1 .. MaxPushes}
Report == {Connected, Lost} \union {Message(m) : m \in ServerFrame \ {EndOfFile}}

RuntimeTypes ==
    /\ IsCore(core)
    /\ handle \in 0 .. opened /\ opened \in 0 .. MaxConns /\ pushes \in 0 .. MaxPushes
    /\ inbound \in [Conns -> Seq(Report)] /\ toClient \in [Conns -> Seq(ServerFrame)]
    /\ pump \in [Conns -> {"None", "Idle", "Midframe", "Garbled", "Done"}]
    /\ server \in [Conns -> {"None", "Handshake", "Lobby", "Seated", "Busted", "Closed"}]
    /\ lastTold \in [Conns -> {"None", "Lobby", "Seated", "Closed"}]

\* A socket that has not been opened yet is empty.
Unopened ==
    \A c \in Conns : c > opened => toClient[c] = <<>> /\ pump[c] = "None" /\ server[c] = "None"

\* A pump in the middle of a frame has that frame before it.
FrameInHand ==
    \A c \in Conns : pump[c] = "Midframe" => toClient[c] # <<>> /\ Head(toClient[c]) # EndOfFile

\* A pump that ended under a handle has reported the loss, as the last thing.
EndIsReported ==
    handle # NoHandle =>
        /\ pump[handle] # "None"
        /\ pump[handle] = "Done" => /\ inbound[handle] # <<>>
                                    /\ inbound[handle][Len(inbound[handle])] = Lost

\* What a report says of it.
ToldBy(e) ==
    IF e.kind = "Message" THEN Tells(e.message) ELSE IF e.kind = "Lost" THEN "Closed" ELSE "Nothing"

\* What a sequence says, entry by entry.
Telling(frames) == [i \in DOMAIN frames |-> Tells(frames[i])]
Told(reports) == [i \in DOMAIN reports |-> ToldBy(reports[i])]

\* Nothing is said; the last thing said is s.
Silent(said) == \A i \in DOMAIN said : said[i] = "Nothing"
LastSays(said, s) ==
    \A i \in DOMAIN said :
        (said[i] # "Nothing" /\ \A j \in DOMAIN said : j > i => said[j] = "Nothing")
          => said[i] = s

\* The last frame in the socket that says anything is the last that was sent.
SocketSays == \A c \in Conns : LastSays(Telling(toClient[c]), lastTold[c])

\* The handle has a pump that reads frame by frame.
Reading == handle # NoHandle /\ pump[handle] \in {"Idle", "Midframe"}

\* With no such frame in the socket the last report that says anything does; and
\* with none there either the core is where it was told to be.
ReportsSay ==
    Reading /\ Silent(Telling(toClient[handle])) =>
        /\ LastSays(Told(inbound[handle]), lastTold[handle])
        /\ Silent(Told(inbound[handle])) /\ core.phase \in LoggedIn
             => core.phase = lastTold[handle]

\* The inductive invariant of the native client.
RuntimeInv ==
    /\ RuntimeTypes /\ Unopened /\ FrameInHand /\ EndIsReported
    /\ SocketSays /\ ReportsSay /\ SeatedIsConnected

-----------------------------------------------------------------------------
(* What is said in a queue *)

Words == {"Lobby", "Seated", "Closed", "Nothing"}

\* Taking the first entry off.
LEMMA TailSays ==
    ASSUME NEW w \in Seq(Words), w # <<>>, NEW x
    PROVE  /\ LastSays(w, x) => LastSays(Tail(w), x)
           /\ Silent(w) <=> Head(w) = "Nothing" /\ Silent(Tail(w))
           /\ LastSays(w, x) /\ Silent(Tail(w)) /\ Head(w) # "Nothing" => Head(w) = x
<1>1. /\ Len(w) \in Nat \ {0} /\ DOMAIN w = 1 .. Len(w) /\ Head(w) = w[1]
      /\ DOMAIN Tail(w) = 1 .. (Len(w) - 1)
      /\ \A i \in 1 .. (Len(w) - 1) : Tail(w)[i] = w[i + 1]
    OBVIOUS
<1>2. \A j \in DOMAIN w : j = 1 \/ (j - 1 \in DOMAIN Tail(w) /\ w[j] = Tail(w)[j - 1])
    BY <1>1
<1>3. Silent(w) <=> Head(w) = "Nothing" /\ Silent(Tail(w))
    BY <1>1, <1>2, SMTT(30) DEF Silent
<1>4. ASSUME LastSays(w, x) PROVE LastSays(Tail(w), x)
    <2> SUFFICES ASSUME NEW i \in DOMAIN Tail(w), Tail(w)[i] # "Nothing",
                        \A j \in DOMAIN Tail(w) : j > i => Tail(w)[j] = "Nothing"
                 PROVE  Tail(w)[i] = x
        BY DEF LastSays
    <2>1. i + 1 \in DOMAIN w /\ w[i + 1] = Tail(w)[i]
        BY <1>1
    <2>2. ASSUME NEW j \in DOMAIN w, j > i + 1 PROVE w[j] = "Nothing"
        <3>1. i \in Nat /\ j \in Nat /\ j # 1
            BY <1>1, <2>2
        <3>2. j - 1 \in DOMAIN Tail(w) /\ w[j] = Tail(w)[j - 1] /\ j - 1 > i
            BY <1>2, <2>2, <3>1
        <3> QED
            BY <3>2
    <2> QED
        BY <1>4, <2>1, <2>2 DEF LastSays
<1>5. ASSUME LastSays(w, x), Silent(Tail(w)), Head(w) # "Nothing" PROVE Head(w) = x
    <2>1. 1 \in DOMAIN w /\ w[1] # "Nothing"
        BY <1>1, <1>5
    <2>2. ASSUME NEW j \in DOMAIN w, j > 1 PROVE w[j] = "Nothing"
        <3>1. j # 1
            BY <1>1, <2>2
        <3> QED
            BY <1>2, <1>5, <3>1 DEF Silent
    <2> QED
        BY <1>1, <1>5, <2>1, <2>2 DEF LastSays
<1> QED
    BY <1>3, <1>4, <1>5

\* Putting more entries behind.
LEMMA MoreSays ==
    ASSUME NEW w \in Seq(Words), NEW v \in Seq(Words), NEW x
    PROVE  /\ Silent(w \o v) <=> Silent(w) /\ Silent(v)
           /\ Silent(v) /\ LastSays(w, x) => LastSays(w \o v, x)
           /\ v # <<>> /\ v[Len(v)] = x /\ x # "Nothing" => LastSays(w \o v, x)
<1> DEFINE u == w \o v
<1>1. /\ Len(w) \in Nat /\ Len(v) \in Nat
      /\ DOMAIN w = 1 .. Len(w) /\ DOMAIN v = 1 .. Len(v) /\ DOMAIN u = 1 .. (Len(w) + Len(v))
      /\ \A i \in DOMAIN w : u[i] = w[i]
      /\ \A i \in DOMAIN v : u[Len(w) + i] = v[i]
    OBVIOUS
<1>2. \A i \in DOMAIN u : \/ i \in DOMAIN w /\ u[i] = w[i]
                          \/ i > Len(w) /\ i - Len(w) \in DOMAIN v /\ u[i] = v[i - Len(w)]
    <2> SUFFICES ASSUME NEW i \in DOMAIN u, i \notin DOMAIN w
                 PROVE  i > Len(w) /\ i - Len(w) \in DOMAIN v /\ u[i] = v[i - Len(w)]
        BY <1>1
    <2>1. i \in Int /\ i > Len(w) /\ i - Len(w) \in DOMAIN v /\ Len(w) + (i - Len(w)) = i
        BY <1>1
    <2> QED
        BY <1>1, <2>1
<1> HIDE DEF u
<1>3. Silent(u) <=> Silent(w) /\ Silent(v)
    <2>1. \A i \in DOMAIN w : i \in DOMAIN u
        BY <1>1
    <2>2. \A i \in DOMAIN v : Len(w) + i \in DOMAIN u
        BY <1>1
    <2> QED
        BY <1>1, <1>2, <2>1, <2>2 DEF Silent
<1>4. ASSUME Silent(v), LastSays(w, x) PROVE LastSays(u, x)
    <2> SUFFICES ASSUME NEW i \in DOMAIN u, u[i] # "Nothing",
                        \A j \in DOMAIN u : j > i => u[j] = "Nothing"
                 PROVE  u[i] = x
        BY DEF LastSays
    <2>1. i \in DOMAIN w /\ u[i] = w[i]
        BY <1>2, <1>4 DEF Silent
    <2>2. \A j \in DOMAIN w : j > i => w[j] = "Nothing"
        BY <1>1
    <2> QED
        BY <1>4, <2>1, <2>2 DEF LastSays
<1>5. ASSUME v # <<>>, v[Len(v)] = x, x # "Nothing" PROVE LastSays(u, x)
    <2> SUFFICES ASSUME NEW i \in DOMAIN u, u[i] # "Nothing",
                        \A j \in DOMAIN u : j > i => u[j] = "Nothing"
                 PROVE  u[i] = x
        BY DEF LastSays
    <2>1. Len(v) # 0
        BY <1>5
    <2>2. Len(v) \in DOMAIN v /\ Len(w) + Len(v) \in DOMAIN u
        BY <1>1, <2>1
    <2>3. u[Len(w) + Len(v)] = x
        BY <1>1, <1>5, <2>2
    <2>4. i = Len(w) + Len(v)
        BY <1>1, <1>5, <2>2, <2>3
    <2> QED
        BY <2>3, <2>4
<1> QED
    BY <1>3, <1>4, <1>5 DEF u

\* The entries of a sequence, each mapped by F.
Along(F, s) == [i \in DOMAIN s |-> F[s[i]]]

\* Mapping commutes with what is done to a queue.
LEMMA AlongQueue ==
    ASSUME NEW S, NEW F \in [S -> Words], NEW s \in Seq(S)
    PROVE  /\ Along(F, s) \in Seq(Words) /\ Len(Along(F, s)) = Len(s)
           /\ \A t \in Seq(S) : Along(F, s \o t) = Along(F, s) \o Along(F, t)
           /\ s # <<>> => /\ Along(F, s) # <<>> /\ Along(F, Tail(s)) = Tail(Along(F, s))
                          /\ Head(Along(F, s)) = F[Head(s)]
<1>1. ASSUME NEW t \in Seq(S)
      PROVE  /\ Along(F, t) \in Seq(Words) /\ Len(Along(F, t)) = Len(t) /\ Len(t) \in Nat
             /\ \A i \in 1 .. Len(t) : Along(F, t)[i] = F[t[i]]
    BY DEF Along
<1>2. ASSUME NEW t \in Seq(S) PROVE Along(F, s \o t) = Along(F, s) \o Along(F, t)
    <2>1. /\ s \o t \in Seq(S) /\ Len(s \o t) = Len(s) + Len(t)
          /\ \A i \in 1 .. Len(s) + Len(t) :
               (s \o t)[i] = IF i <= Len(s) THEN s[i] ELSE t[i - Len(s)]
        BY ConcatProperties
    <2> DEFINE a == Along(F, s)
               b == Along(F, t)
               c == Along(F, s \o t)
    <2>2. /\ a \in Seq(Words) /\ Len(a) = Len(s) /\ Len(s) \in Nat
          /\ \A i \in 1 .. Len(s) : a[i] = F[s[i]]
        BY <1>1
    <2>3. /\ b \in Seq(Words) /\ Len(b) = Len(t) /\ Len(t) \in Nat
          /\ \A i \in 1 .. Len(t) : b[i] = F[t[i]]
        BY <1>1
    <2>4. /\ c \in Seq(Words) /\ Len(c) = Len(s) + Len(t)
          /\ \A i \in 1 .. Len(s) + Len(t) : c[i] = F[(s \o t)[i]]
        BY <1>1, <2>1
    <2> HIDE DEF a, b, c
    <2>5. /\ a \o b \in Seq(Words) /\ Len(a \o b) = Len(s) + Len(t)
          /\ \A i \in 1 .. Len(s) + Len(t) :
               (a \o b)[i] = IF i <= Len(s) THEN a[i] ELSE b[i - Len(s)]
        <3>1. /\ a \o b \in Seq(Words) /\ Len(a \o b) = Len(a) + Len(b)
              /\ \A i \in 1 .. Len(a) + Len(b) :
                   (a \o b)[i] = IF i <= Len(a) THEN a[i] ELSE b[i - Len(a)]
            BY <2>2, <2>3, ConcatProperties, ZenonT(60)
        <3> QED
            BY <2>2, <2>3, <3>1
    <2>6. ASSUME NEW i \in 1 .. Len(s) + Len(t) PROVE c[i] = (a \o b)[i]
        <3>1. CASE i <= Len(s)
            BY <2>1, <2>2, <2>3, <2>4, <2>5, <3>1
        <3>2. CASE ~ (i <= Len(s))
            <4>1. i - Len(s) \in 1 .. Len(t)
                BY <2>2, <2>3, <3>2
            <4> QED
                BY <2>1, <2>3, <2>4, <2>5, <3>2, <4>1, ZenonT(60)
        <3> QED
            BY <3>1, <3>2
    <2>7. c = a \o b
        BY <2>4, <2>5, <2>6, SeqEqual
    <2> QED
        BY <2>7 DEF a, b, c
<1>3. ASSUME s # <<>>
      PROVE  /\ Along(F, s) # <<>> /\ Along(F, Tail(s)) = Tail(Along(F, s))
             /\ Head(Along(F, s)) = F[Head(s)]
    <2> DEFINE a == Along(F, s)
               b == Along(F, Tail(s))
    <2>1. /\ Tail(s) \in Seq(S) /\ Len(Tail(s)) = Len(s) - 1 /\ Len(s) \in Nat \ {0}
          /\ \A i \in 1 .. Len(Tail(s)) : Tail(s)[i] = s[i + 1]
          /\ Head(s) = s[1]
        BY <1>3, HeadTailProperties
    <2>2. /\ a \in Seq(Words) /\ Len(a) = Len(s)
          /\ \A i \in 1 .. Len(s) : a[i] = F[s[i]]
        BY <1>1
    <2>3. /\ b \in Seq(Words) /\ Len(b) = Len(s) - 1
          /\ \A i \in 1 .. Len(s) - 1 : b[i] = F[Tail(s)[i]]
        BY <1>1, <2>1
    <2> HIDE DEF a, b
    <2>4. a # <<>> /\ Head(a) = a[1]
        BY <2>1, <2>2
    <2>5. /\ Tail(a) \in Seq(Words) /\ Len(Tail(a)) = Len(s) - 1
          /\ \A i \in 1 .. Len(s) - 1 : Tail(a)[i] = a[i + 1]
        BY <2>2, <2>4, HeadTailProperties
    <2>6. ASSUME NEW i \in 1 .. Len(s) - 1 PROVE b[i] = Tail(a)[i]
        <3>1. i \in 1 .. Len(Tail(s)) /\ i + 1 \in 1 .. Len(s)
            BY <2>1
        <3> QED
            BY <2>1, <2>2, <2>3, <2>5, <3>1
    <2>7. b = Tail(a)
        BY <2>3, <2>5, <2>6, SeqEqual
    <2>8. Head(a) = F[Head(s)]
        BY <2>1, <2>2, <2>4
    <2> QED
        BY <2>4, <2>7, <2>8 DEF a, b
<1> QED
    BY <1>1, <1>2, <1>3

\* What is said by the frames in a socket.
LEMMA FramesSay ==
    ASSUME NEW f \in Seq(ServerFrame)
    PROVE  /\ Telling(f) \in Seq(Words) /\ Len(Telling(f)) = Len(f)
           /\ \A g \in Seq(ServerFrame) : Telling(f \o g) = Telling(f) \o Telling(g)
           /\ f # <<>> => /\ Telling(f) # <<>> /\ Telling(Tail(f)) = Tail(Telling(f))
                          /\ Head(Telling(f)) = Tells(Head(f))
<1> DEFINE F == [m \in ServerFrame |-> Tells(m)]
<1>1. F \in [ServerFrame -> Words]
    BY DEF Tells, Words
<1>2. \A g \in Seq(ServerFrame) : Telling(g) = Along(F, g)
    BY DEF Telling, Along
<1>3. /\ \A g \in Seq(ServerFrame) : f \o g \in Seq(ServerFrame)
      /\ f # <<>> => Tail(f) \in Seq(ServerFrame) /\ Head(f) \in ServerFrame
    BY ConcatProperties, HeadTailProperties
<1>4. f # <<>> => F[Head(f)] = Tells(Head(f))
    BY <1>3
<1> HIDE DEF F
<1>5. /\ Along(F, f) \in Seq(Words) /\ Len(Along(F, f)) = Len(f)
      /\ \A g \in Seq(ServerFrame) : Along(F, f \o g) = Along(F, f) \o Along(F, g)
      /\ f # <<>> => /\ Along(F, f) # <<>> /\ Along(F, Tail(f)) = Tail(Along(F, f))
                     /\ Head(Along(F, f)) = F[Head(f)]
    BY <1>1, AlongQueue
<1>6. ASSUME NEW g \in Seq(ServerFrame) PROVE Telling(f \o g) = Telling(f) \o Telling(g)
    BY <1>2, <1>3, <1>5
<1>7. ASSUME f # <<>>
      PROVE  /\ Telling(f) # <<>> /\ Telling(Tail(f)) = Tail(Telling(f))
             /\ Head(Telling(f)) = Tells(Head(f))
    BY <1>2, <1>3, <1>4, <1>5, <1>7
<1> QED
    BY <1>2, <1>5, <1>6, <1>7

\* What is said by the reports in the channel of a handle.
LEMMA ReportsSaid ==
    ASSUME NEW r \in Seq(Report)
    PROVE  /\ Told(r) \in Seq(Words) /\ Len(Told(r)) = Len(r)
           /\ \A q \in Seq(Report) : Told(r \o q) = Told(r) \o Told(q)
           /\ r # <<>> => /\ Told(r) # <<>> /\ Told(Tail(r)) = Tail(Told(r))
                          /\ Head(Told(r)) = ToldBy(Head(r))
<1> DEFINE F == [e \in Report |-> ToldBy(e)]
<1>1. F \in [Report -> Words]
    BY DEF ToldBy, Tells, Words
<1>2. \A q \in Seq(Report) : Told(q) = Along(F, q)
    BY DEF Told, Along
<1>3. /\ \A q \in Seq(Report) : r \o q \in Seq(Report)
      /\ r # <<>> => Tail(r) \in Seq(Report) /\ Head(r) \in Report
    BY ConcatProperties, HeadTailProperties
<1>4. r # <<>> => F[Head(r)] = ToldBy(Head(r))
    BY <1>3
<1> HIDE DEF F
<1>5. /\ Along(F, r) \in Seq(Words) /\ Len(Along(F, r)) = Len(r)
      /\ \A q \in Seq(Report) : Along(F, r \o q) = Along(F, r) \o Along(F, q)
      /\ r # <<>> => /\ Along(F, r) # <<>> /\ Along(F, Tail(r)) = Tail(Along(F, r))
                     /\ Head(Along(F, r)) = F[Head(r)]
    BY <1>1, AlongQueue
<1>6. ASSUME NEW q \in Seq(Report) PROVE Told(r \o q) = Told(r) \o Told(q)
    BY <1>2, <1>3, <1>5
<1>7. ASSUME r # <<>>
      PROVE  /\ Told(r) # <<>> /\ Told(Tail(r)) = Tail(Told(r))
             /\ Head(Told(r)) = ToldBy(Head(r))
    BY <1>2, <1>3, <1>4, <1>5, <1>7
<1> QED
    BY <1>2, <1>5, <1>6, <1>7

\* One more report.
LEMMA OneMoreReport ==
    ASSUME NEW r \in Seq(Report), NEW e \in Report, NEW x
    PROVE  /\ Append(r, e) \in Seq(Report)
           /\ Silent(Told(Append(r, e))) <=> Silent(Told(r)) /\ ToldBy(e) = "Nothing"
           /\ ToldBy(e) = "Nothing" /\ LastSays(Told(r), x) => LastSays(Told(Append(r, e)), x)
           /\ ToldBy(e) = x /\ x # "Nothing" => LastSays(Told(Append(r, e)), x)
<1>1. /\ <<e>> \in Seq(Report) /\ Append(r, e) = r \o <<e>> /\ Append(r, e) \in Seq(Report)
    OBVIOUS
<1>2. Told(<<e>>) = <<ToldBy(e)>>
    BY DEF Told
<1>3. Told(Append(r, e)) = Told(r) \o <<ToldBy(e)>>
    BY <1>1, <1>2, ReportsSaid
<1>4. <<ToldBy(e)>> \in Seq(Words) /\ Told(r) \in Seq(Words)
    <2>1. ToldBy(e) \in Words
        BY DEF ToldBy, Tells, Words
    <2> QED
        BY <2>1, ReportsSaid
<1>5. /\ Silent(<<ToldBy(e)>>) <=> ToldBy(e) = "Nothing"
      /\ <<ToldBy(e)>> # <<>> /\ <<ToldBy(e)>>[Len(<<ToldBy(e)>>)] = ToldBy(e)
    BY DEF Silent
<1> DEFINE v == <<ToldBy(e)>>
           w == Told(r)
<1> HIDE DEF v, w
<1>6. /\ Silent(w \o v) <=> Silent(w) /\ Silent(v)
      /\ Silent(v) /\ LastSays(w, x) => LastSays(w \o v, x)
      /\ v # <<>> /\ v[Len(v)] = x /\ x # "Nothing" => LastSays(w \o v, x)
    <2>1. w \in Seq(Words) /\ v \in Seq(Words)
        BY <1>4 DEF v, w
    <2> QED
        BY <2>1, MoreSays
<1> QED
    BY <1>1, <1>3, <1>5, <1>6 DEF v, w

-----------------------------------------------------------------------------
(* Effects, field by field *)

HostFields == {"core", "handle", "opened", "stored", "outbound", "inbound", "pump", "server", "up"}
IsHost(h) == h = [f \in HostFields |-> h[f]]

\* What the effects leave alone of the loop's state.
SameBut(g, h, fields) == \A f \in HostFields \ fields : g[f] = h[f]

\* What the loop works on has its fields.
LEMMA HostIsHost ==
    ASSUME NEW c, NEW up
    PROVE  /\ IsHost(Host(c, up)) /\ Host(c, up).core = c
           /\ Host(c, up).handle = handle /\ Host(c, up).opened = opened
           /\ Host(c, up).inbound = inbound /\ Host(c, up).pump = pump
           /\ Host(c, up).server = server /\ Host(c, up).up = up
BY DEF IsHost, Host, HostFields

\* Effect::Send changes the channel to the pump only.
LEMMA SendPerformed ==
    ASSUME NEW h, IsHost(h), NEW m
    PROVE  IsHost(Perform(h, Send(m))) /\ SameBut(Perform(h, Send(m)), h, {"outbound"})
<1>1. Perform(h, Send(m)) = SendMessage(h, m)
    BY DEF Perform, Send
<1>2. IsHost(SendMessage(h, m)) /\ SameBut(SendMessage(h, m), h, {"outbound"})
    BY DEF SendMessage, IsHost, SameBut, HostFields
<1> QED
    BY <1>1, <1>2

\* Effect::PersistSessionKey writes the file only.
LEMMA PersistPerformed ==
    ASSUME NEW h, IsHost(h), NEW k
    PROVE  IsHost(Perform(h, Persist(k))) /\ SameBut(Perform(h, Persist(k)), h, {"stored"})
<1>1. Perform(h, Persist(k)) = Save(h, k)
    BY DEF Perform, Persist
<1>2. IsHost(Save(h, k)) /\ SameBut(Save(h, k), h, {"stored"})
    BY DEF Save, IsHost, SameBut, HostFields
<1> QED
    BY <1>1, <1>2

\* Effect::CloseConnection drops the handle only.
LEMMA ClosePerformed ==
    ASSUME NEW h, IsHost(h)
    PROVE  /\ IsHost(Perform(h, Close)) /\ SameBut(Perform(h, Close), h, {"handle"})
           /\ Perform(h, Close).handle = NoHandle
<1>1. Perform(h, Close) = [h EXCEPT !.handle = NoHandle]
    BY DEF Perform, Close
<1> QED
    BY <1>1 DEF IsHost, SameBut, HostFields

\* What the proof follows of the loop's state, after a step.
Follows(h) ==
    /\ core' = h.core /\ handle' = h.handle /\ opened' = h.opened /\ inbound' = h.inbound
    /\ pump' = h.pump /\ server' = h.server

\* The step of the loop tells all of that.
LEMMA BecomesFollows == ASSUME NEW h, Becomes(h) PROVE Follows(h)
BY DEF Becomes, Follows

\* The lists of effects that the core returns, but for OpenConnection.
Plain(effects) ==
    \/ effects = <<>>
    \/ \E m : effects = <<Send(m)>>
    \/ \E k : effects = <<Persist(k)>>
Closing(effects) ==
    \/ effects = <<Close>>
    \/ \E m : effects = <<Send(m), Close>>

\* process_effects when the connection is kept.
LEMMA PlainPerformed ==
    ASSUME NEW h, IsHost(h), NEW effects, Plain(effects), Becomes(ProcessEffects(h, effects))
    PROVE  Follows(h)
<1>1. CASE effects = <<>>
    BY <1>1, NoEffect, BecomesFollows
<1>2. ASSUME NEW m, effects = <<Send(m)>> PROVE Follows(h)
    <2>1. Follows(Perform(h, Send(m)))
        BY <1>2, OneEffect, BecomesFollows
    <2> QED
        BY <2>1, SendPerformed DEF Follows, SameBut, HostFields
<1>3. ASSUME NEW k, effects = <<Persist(k)>> PROVE Follows(h)
    <2>1. Follows(Perform(h, Persist(k)))
        BY <1>3, OneEffect, BecomesFollows
    <2> QED
        BY <2>1, PersistPerformed DEF Follows, SameBut, HostFields
<1> QED
    BY <1>1, <1>2, <1>3 DEF Plain

\* process_effects when the connection is given up.
LEMMA ClosingPerformed ==
    ASSUME NEW h, IsHost(h), NEW effects, Closing(effects), Becomes(ProcessEffects(h, effects))
    PROVE  /\ core' = h.core /\ handle' = NoHandle /\ opened' = h.opened
           /\ inbound' = h.inbound /\ pump' = h.pump /\ server' = h.server
<1>1. CASE effects = <<Close>>
    <2>1. Follows(Perform(h, Close))
        BY <1>1, OneEffect, BecomesFollows
    <2> QED
        BY <2>1, ClosePerformed DEF Follows, SameBut, HostFields
<1>2. ASSUME NEW m, effects = <<Send(m), Close>>
      PROVE  /\ core' = h.core /\ handle' = NoHandle /\ opened' = h.opened
             /\ inbound' = h.inbound /\ pump' = h.pump /\ server' = h.server
    <2> DEFINE g == Perform(h, Send(m))
    <2>1. IsHost(g) /\ SameBut(g, h, {"outbound"})
        BY SendPerformed
    <2>2. Follows(Perform(g, Close))
        BY <1>2, TwoEffects, BecomesFollows
    <2> HIDE DEF g
    <2>3. SameBut(Perform(g, Close), g, {"handle"}) /\ Perform(g, Close).handle = NoHandle
        BY <2>1, ClosePerformed
    <2> QED
        BY <2>1, <2>2, <2>3 DEF Follows, SameBut, HostFields
<1> QED
    BY <1>1, <1>2 DEF Closing

-----------------------------------------------------------------------------
(* The transitions of the core *)

\* The phases in which the client shows a connection.
OnView == LoggedIn \union {"Connecting"}

\* The next core shows the same phase, or none that needs a connection.
Withdraws(c, d) == IsCore(d) /\ (d.phase = c.phase \/ d.phase \notin OnView)

\* handle_intent, but for Connect.
LEMMA IntentPhases ==
    ASSUME NEW c, IsCore(c)
    PROVE  /\ Withdraws(c, OnLogin(c).core) /\ Plain(OnLogin(c).effects)
           /\ \A k : Withdraws(c, OnAuthenticateSession(c, k).core)
                     /\ Plain(OnAuthenticateSession(c, k).effects)
           /\ \A m : Withdraws(c, OnPassThrough(c, m).core) /\ Plain(OnPassThrough(c, m).effects)
           /\ Withdraws(c, OnSubmitAction(c).core) /\ Plain(OnSubmitAction(c).effects)
           /\ Withdraws(c, OnConnectionOpened(c).core) /\ Plain(OnConnectionOpened(c).effects)
<1>1. \A m : Plain(<<Send(m)>>) /\ Plain(<<>>)
    BY DEF Plain
<1>2. ASSUME NEW d, IsCore(d), d.phase = c.phase, NEW m
      PROVE  Withdraws(c, QueueOrSend(d, m).core) /\ Plain(QueueOrSend(d, m).effects)
    <2>1. IsCore(Enter(d, "Authenticating")) /\ Enter(d, "Authenticating").phase = "Authenticating"
        BY <1>2 DEF IsCore, CoreFields, Enter
    <2>2. IsCore([d EXCEPT !.pending_handshake = m]) /\ [d EXCEPT !.pending_handshake = m].phase = d.phase
        BY <1>2 DEF IsCore, CoreFields
    <2> QED
        BY <1>1, <1>2, <2>1, <2>2 DEF QueueOrSend, To, Withdraws, OnView, LoggedIn
<1>3. Withdraws(c, OnLogin(c).core) /\ Plain(OnLogin(c).effects)
    BY <1>2 DEF OnLogin
<1>4. ASSUME NEW k
      PROVE  Withdraws(c, OnAuthenticateSession(c, k).core)
             /\ Plain(OnAuthenticateSession(c, k).effects)
    <2>1. IsCore([c EXCEPT !.session_key = k]) /\ [c EXCEPT !.session_key = k].phase = c.phase
        BY DEF IsCore, CoreFields
    <2> QED
        BY <1>2, <2>1 DEF OnAuthenticateSession
<1>5. ASSUME NEW m
      PROVE  Withdraws(c, OnPassThrough(c, m).core) /\ Plain(OnPassThrough(c, m).effects)
    BY <1>1 DEF OnPassThrough, To, Withdraws
<1>6. Withdraws(c, OnSubmitAction(c).core) /\ Plain(OnSubmitAction(c).effects)
    BY <1>1 DEF OnSubmitAction, To, Withdraws, IsCore, CoreFields
<1>7. Withdraws(c, OnConnectionOpened(c).core) /\ Plain(OnConnectionOpened(c).effects)
    <2> DEFINE o == [c EXCEPT !.connection_open = TRUE]
               n == [Enter(o, "Authenticating") EXCEPT !.pending_handshake = NoMessage]
    <2>1. IsCore(o) /\ o.phase = c.phase
        BY DEF IsCore, CoreFields
    <2>2. IsCore(n) /\ n.phase = "Authenticating"
        BY <2>1 DEF IsCore, CoreFields, Enter
    <2> HIDE DEF o, n
    <2>3. \/ OnConnectionOpened(c).core = o /\ OnConnectionOpened(c).effects = <<>>
          \/ /\ OnConnectionOpened(c).core = n
             /\ OnConnectionOpened(c).effects = <<Send(c.pending_handshake)>>
        BY DEF OnConnectionOpened, To, o, n
    <2>4. Withdraws(c, o) /\ Withdraws(c, n)
        BY <2>1, <2>2 DEF Withdraws, OnView, LoggedIn
    <2> QED
        BY <1>1, <2>3, <2>4
<1> QED
    BY <1>3, <1>4, <1>5, <1>6, <1>7

\* A core that is reset shows no connection.
LEMMA ResetPhases ==
    ASSUME NEW c, NEW p
    PROVE  /\ IsCore(ResetTo(p, c)) /\ ResetTo(p, c).phase = p
           /\ \A k : IsCore(CoreNew(k)) /\ CoreNew(k).phase = "Disconnected"
BY DEF IsCore, CoreFields, ResetTo, CoreNew

\* A frame that says where the server has the connection takes the core there, or
\* closes it; the others leave the phase alone.
Answers(c, m, next, effects) ==
    /\ IsCore(next)
    /\ \/ Tells(m) = "Nothing" /\ next.phase = c.phase /\ Plain(effects)
       \/ Tells(m) \in LoggedIn /\ next.phase = Tells(m) /\ Plain(effects)
       \/ Tells(m) = "Closed" /\ next.phase \notin OnView /\ Closing(effects)

\* handle_inbound on the frames of the server.
LEMMA InboundPhases ==
    ASSUME NEW c, IsCore(c), NEW m \in ServerFrame \ {EndOfFile}
    PROVE  Answers(c, m, HandleInbound(c, m).core, HandleInbound(c, m).effects)
<1> DEFINE next == HandleInbound(c, m)
           Goal == Answers(c, m, next.core, next.effects)
<1> SUFFICES Goal
    OBVIOUS
<1>1. Plain(<<>>) /\ Closing(<<Close>>) /\ \A k : Plain(<<Persist(k)>>)
    BY DEF Plain, Closing
<1>2. /\ \A p : IsCore(Enter(c, p)) /\ Enter(c, p).phase = p
      /\ \A p, k : /\ IsCore([Enter(c, p) EXCEPT !.session_key = k])
                   /\ [Enter(c, p) EXCEPT !.session_key = k].phase = p
    BY DEF IsCore, CoreFields, Enter
<1>3. CASE m = Welcome(1)
    <2>1. /\ next.core = [Enter(c, "Lobby") EXCEPT !.session_key = m.key]
          /\ next.effects = <<Persist(m.key)>> /\ Tells(m) = "Lobby"
        BY <1>3 DEF HandleInbound, OnWelcome, To, Welcome, Tells
    <2> HIDE DEF next
    <2>2. IsCore(next.core) /\ next.core.phase = "Lobby"
        BY <1>2, <2>1
    <2>3. Plain(next.effects)
        BY <1>1, <2>1
    <2> QED
        BY <2>1, <2>2, <2>3 DEF Answers, LoggedIn
<1>4. CASE m = Rejected
    <2>1. next.core = Enter(c, "Ended") /\ next.effects = <<Close>> /\ Tells(m) = "Closed"
        BY <1>4 DEF HandleInbound, OnRejected, To, Rejected, Tells
    <2> HIDE DEF next
    <2> QED
        BY <1>1, <1>2, <2>1 DEF Answers, OnView, LoggedIn
<1>5. CASE m = Goodbye
    <2>1. next.core = ResetTo("Ended", c) /\ next.effects = <<Close>> /\ Tells(m) = "Closed"
        BY <1>5 DEF HandleInbound, OnGoodbye, To, Goodbye, Tells
    <2> HIDE DEF next
    <2> QED
        BY <1>1, <2>1, ResetPhases DEF Answers, OnView, LoggedIn
<1>6. CASE m = JoinedTable(Table, Seat)
    <2>1. next.core = OnJoinedTable(c, m) /\ next.effects = <<>> /\ Tells(m) = "Seated"
        BY <1>6 DEF HandleInbound, OnTableMessage, JoinedTable, Tells, To
    <2>2. IsCore(OnJoinedTable(c, m)) /\ OnJoinedTable(c, m).phase = "Seated"
        BY DEF OnJoinedTable, IsCore, CoreFields
    <2> HIDE DEF next
    <2> QED
        BY <1>1, <2>1, <2>2 DEF Answers, LoggedIn
<1>7. CASE m = LeftTable
    <2>1. next.core = OnLeftTable(c) /\ next.effects = <<>> /\ Tells(m) = "Lobby"
        BY <1>7 DEF HandleInbound, OnTableMessage, LeftTable, Tells, To
    <2>2. IsCore(OnLeftTable(c)) /\ OnLeftTable(c).phase = "Lobby"
        BY DEF OnLeftTable, Enter, IsCore, CoreFields
    <2> HIDE DEF next
    <2> QED
        BY <1>1, <2>1, <2>2 DEF Answers, LoggedIn
<1>8. CASE m = ActionRejected
    <2>1. next.core = OnActionRejected(c) /\ next.effects = <<>> /\ Tells(m) = "Nothing"
        BY <1>8 DEF HandleInbound, OnTableMessage, ActionRejected, Tells, To
    <2>2. IsCore(OnActionRejected(c)) /\ OnActionRejected(c).phase = c.phase
        BY DEF OnActionRejected, IsCore, CoreFields
    <2> HIDE DEF next
    <2> QED
        BY <1>1, <2>1, <2>2 DEF Answers
<1>9. ASSUME NEW n, m = TableEvent(Table, HandStarted(n)) PROVE Goal
    <2>1. next.core = ProjectEngineEvent(c, m.table, m.event) /\ next.effects = <<>> /\ Tells(m) = "Nothing"
        BY <1>9 DEF HandleInbound, OnTableMessage, TableEvent, Tells, To
    <2>2. ASSUME NEW t, NEW e
          PROVE  /\ IsCore(ProjectEngineEvent(c, t, e))
                 /\ ProjectEngineEvent(c, t, e).phase = c.phase
        <3> DEFINE Shown(x, y, z) ==
                       [c EXCEPT !.current_hand = x, !.active_prompt = y, !.rejection = z]
        <3>1. \A x, y, z : IsCore(Shown(x, y, z)) /\ Shown(x, y, z).phase = c.phase
            BY ZenonT(60) DEF IsCore, CoreFields
        <3>2. \/ ProjectEngineEvent(c, t, e) = c
              \/ \E x, y, z : ProjectEngineEvent(c, t, e) = Shown(x, y, z)
            BY Zenon DEF ProjectEngineEvent
        <3> HIDE DEF Shown
        <3> QED
            BY <3>1, <3>2
    <2> HIDE DEF next
    <2>3. IsCore(next.core) /\ next.core.phase = c.phase
        BY <2>1, <2>2
    <2>4. Plain(next.effects)
        BY <1>1, <2>1
    <2> QED
        BY <2>1, <2>3, <2>4 DEF Answers
<1>10. ASSUME NEW n, m = PromptMessage(Table, n, Seat, 0) PROVE Goal
    <2>1. next.core = OnPrompt(c, m) /\ next.effects = <<>> /\ Tells(m) = "Nothing"
        BY <1>10 DEF HandleInbound, OnTableMessage, PromptMessage, Tells, To
    <2>2. IsCore(OnPrompt(c, m)) /\ OnPrompt(c, m).phase = c.phase
        BY DEF OnPrompt, IsCore, CoreFields
    <2> HIDE DEF next
    <2> QED
        BY <1>1, <2>1, <2>2 DEF Answers
<1>11. \/ m \in {Welcome(1), Rejected, Goodbye, JoinedTable(Table, Seat), LeftTable, ActionRejected}
       \/ \E n : m = TableEvent(Table, HandStarted(n))
       \/ \E n : m = PromptMessage(Table, n, Seat, 0)
    BY DEF ServerFrame
<1> QED
    BY <1>3, <1>4, <1>5, <1>6, <1>7, <1>8, <1>9, <1>10, <1>11

-----------------------------------------------------------------------------
(* run_loop: intents of the host *)

\* A handle is that of a connection.
LEMMA HandleIsConn ==
    ASSUME RuntimeInv
    PROVE  handle # NoHandle => handle \in Conns
BY RuntimeAssumption DEF RuntimeInv, RuntimeTypes, Conns, NoHandle

\* A step of the loop that leaves the queues alone and shows no new phase, or that
\* drops the handle and shows none that needs a connection.
LEMMA LoopKeeps ==
    ASSUME RuntimeInv, UNCHANGED <<opened, inbound, toClient, lastTold, pump, server, pushes>>,
           \/ handle' = handle /\ Withdraws(core, core')
           \/ handle' = NoHandle /\ IsCore(core') /\ core'.phase \notin OnView
    PROVE  RuntimeInv'
<1> USE DEF RuntimeInv
<1>1. RuntimeTypes'
    BY DEF RuntimeTypes, Withdraws, NoHandle
<1>2. Unopened' /\ FrameInHand' /\ SocketSays'
    BY DEF Unopened, FrameInHand, SocketSays
<1>3. EndIsReported'
    BY DEF EndIsReported
<1>4. ReportsSay'
    BY DEF ReportsSay, Reading, Withdraws, OnView
<1>5. SeatedIsConnected'
    BY DEF SeatedIsConnected, Withdraws, OnView
<1> QED
    BY <1>1, <1>2, <1>3, <1>4, <1>5

\* An intent whose effects keep the connection.
LEMMA PlainIntent ==
    ASSUME RuntimeInv, NEW t, NEW up, Intent(t, up), Withdraws(core, t.core), Plain(t.effects)
    PROVE  RuntimeInv'
<1>1. Follows(Host(t.core, up))
    BY PlainPerformed, HostIsHost DEF Intent
<1>2. /\ core' = t.core /\ handle' = handle
      /\ UNCHANGED <<opened, inbound, toClient, lastTold, pump, server, pushes>>
    BY <1>1, HostIsHost DEF Follows, Intent, sockets, downstream
<1> QED
    BY <1>2, LoopKeeps

\* Intents but Connect.
LEMMA IntentKeeps ==
    ASSUME RuntimeInv, Login \/ Resume \/ Join \/ Leave \/ Submit \/ Disconnect \/ ClearSession
    PROVE  RuntimeInv'
<1>1. IsCore(core)
    BY DEF RuntimeInv, RuntimeTypes
<1>2. CASE Login
    BY <1>1, <1>2, IntentPhases, PlainIntent DEF Login
<1>3. CASE Resume
    <2>1. Withdraws(core, OnAuthenticateSession(core, 1).core)
          /\ Plain(OnAuthenticateSession(core, 1).effects)
        BY <1>1, IntentPhases
    <2> QED
        BY <1>3, <2>1, PlainIntent DEF Resume
<1>4. CASE Join
    <2>1. Withdraws(core, OnPassThrough(core, JoinTable(Table)).core)
          /\ Plain(OnPassThrough(core, JoinTable(Table)).effects)
        BY <1>1, IntentPhases
    <2> QED
        BY <1>4, <2>1, PlainIntent DEF Join
<1>5. CASE Leave
    <2>1. Withdraws(core, OnPassThrough(core, LeaveTable(Table)).core)
          /\ Plain(OnPassThrough(core, LeaveTable(Table)).effects)
        BY <1>1, IntentPhases
    <2> QED
        BY <1>5, <2>1, PlainIntent DEF Leave
<1>6. CASE Submit
    BY <1>1, <1>6, IntentPhases, PlainIntent DEF Submit
<1>7. CASE Disconnect
    <2> DEFINE t == OnDisconnect(core)
               h == Host(t.core, TRUE)
    <2>1. /\ t.core = ResetTo("Disconnected", core)
          /\ Closing(t.effects)
        BY DEF OnDisconnect, To, Closing
    <2>2. Becomes(ProcessEffects(h, t.effects)) /\ UNCHANGED <<toClient, lastTold, pushes>>
        BY <1>7 DEF Disconnect, Intent, sockets, downstream
    <2> HIDE DEF t
    <2>3. IsHost(h) /\ h.core = t.core
          /\ h.opened = opened /\ h.inbound = inbound /\ h.pump = pump /\ h.server = server
        BY DEF Host, IsHost, HostFields
    <2> HIDE DEF h
    <2>4. /\ core' = h.core /\ handle' = NoHandle /\ opened' = h.opened
          /\ inbound' = h.inbound /\ pump' = h.pump /\ server' = h.server
        BY <2>1, <2>2, <2>3, ClosingPerformed
    <2>5. IsCore(core') /\ core'.phase \notin OnView
        BY <2>1, <2>3, <2>4, ResetPhases DEF OnView, LoggedIn
    <2> QED
        BY <2>2, <2>3, <2>4, <2>5, LoopKeeps
<1>8. CASE ClearSession
    <2>1. PICK up \in BOOLEAN : Becomes(Clear(Host(core, up)))
        BY <1>8 DEF ClearSession
    <2>2. Follows(Clear(Host(core, up)))
        BY <2>1, BecomesFollows
    <2>3. SameBut(Clear(Host(core, up)), Host(core, up), {"stored"})
        BY HostIsHost DEF Clear, IsHost, SameBut, HostFields
    <2>4. Follows(Host(core, up))
        BY <2>2, <2>3 DEF Follows, SameBut, HostFields
    <2>5. /\ core' = core /\ handle' = handle
          /\ UNCHANGED <<opened, inbound, toClient, lastTold, pump, server, pushes>>
        BY <1>8, <2>4, HostIsHost DEF Follows, ClearSession, sockets, downstream
    <2>6. Withdraws(core, core')
        BY <1>1, <2>5 DEF Withdraws
    <2> QED
        BY <2>5, <2>6, LoopKeeps
<1> QED
    BY <1>2, <1>3, <1>4, <1>5, <1>6, <1>7, <1>8

\* transport.open: a new connection starts with nothing said, and Connected.
LEMMA ConnectKeeps ==
    ASSUME RuntimeInv, Connect
    PROVE  RuntimeInv'
<1>1. PICK up \in BOOLEAN : Intent(OnConnect(core), up)
    BY DEF Connect
<1> DEFINE d == Enter(core, "Connecting")
           h == Host(d, up)
           c == opened + 1
<1>2. /\ opened < MaxConns /\ UNCHANGED <<toClient, lastTold, pushes>> /\ opened \in Nat /\ c \in Conns
      /\ c # NoHandle /\ MaxConns \in Nat
    BY <1>1, RuntimeAssumption DEF Connect, Intent, sockets, downstream, RuntimeInv, RuntimeTypes, Conns, NoHandle
<1>3. IsCore(d) /\ d.phase = "Connecting"
    BY DEF RuntimeInv, RuntimeTypes, IsCore, CoreFields, Enter
<1>4. /\ IsHost(h) /\ h.core = d /\ h.handle = handle /\ h.opened = opened
      /\ h.inbound = inbound /\ h.pump = pump /\ h.server = server /\ h.up = up
    BY HostIsHost
<1>5. Follows(OpenConnection(h))
    <2>1. OnConnect(core).core = d /\ OnConnect(core).effects = <<Open>>
        BY DEF OnConnect, To
    <2>2. Becomes(ProcessEffects(h, <<Open>>))
        BY <1>1, <2>1 DEF Intent
    <2> HIDE DEF h
    <2>3. ProcessEffects(h, <<Open>>) = Perform(h, Open)
        BY OneEffect
    <2>4. Perform(h, Open) = OpenConnection(h)
        BY DEF Perform, Open
    <2> QED
        BY <2>2, <2>3, <2>4, BecomesFollows
<1> HIDE DEF h, d
<1>6. CASE up
    <2>1. /\ core' = d /\ handle' = c /\ opened' = c
          /\ inbound' = [inbound EXCEPT ![c] = <<Connected>>]
          /\ pump' = [pump EXCEPT ![c] = "Idle"]
          /\ server' = [server EXCEPT ![c] = "Handshake"]
        BY <1>4, <1>5, <1>6 DEF Follows, OpenConnection, IsHost, HostFields
    <2> HIDE DEF c
    <2>2. c = opened + 1
        BY DEF c
    <2>3. toClient[c] = <<>>
        BY <1>2, <2>2 DEF RuntimeInv, Unopened
    <2>4. Told(<<Connected>>) = <<"Nothing">> /\ Telling(<<>>) = <<>> /\ <<Connected>> \in Seq(Report)
        BY DEF Told, Telling, ToldBy, Connected, Report
    <2>5. RuntimeTypes'
        BY <1>2, <1>3, <2>1, <2>2, <2>4 DEF RuntimeInv, RuntimeTypes
    <2>6. Unopened' /\ FrameInHand'
        <3>1. ASSUME NEW k \in Conns
              PROVE  \/ k = c /\ pump'[k] = "Idle"
                     \/ k # c /\ pump'[k] = pump[k] /\ server'[k] = server[k]
            BY <2>1 DEF RuntimeInv, RuntimeTypes
        <3>2. ASSUME NEW k \in Conns, k > opened' PROVE k > opened /\ k # c
            BY <1>2, <2>1, <2>2, <3>2 DEF Conns
        <3>3. Unopened'
            BY <1>2, <3>1, <3>2 DEF RuntimeInv, Unopened
        <3>4. FrameInHand'
            BY <1>2, <3>1 DEF RuntimeInv, FrameInHand
        <3> QED
            BY <3>3, <3>4
    <2>7. EndIsReported'
        BY <1>2, <2>1 DEF RuntimeInv, RuntimeTypes, EndIsReported
    <2>8. SocketSays'
        BY <1>2, <2>1, <2>3, <2>4 DEF RuntimeInv, RuntimeTypes, SocketSays, LastSays
    <2>9. ReportsSay'
        <3>1. inbound'[c] = <<Connected>>
            BY <1>2, <2>1 DEF RuntimeInv, RuntimeTypes
        <3>2. LastSays(<<"Nothing">>, lastTold'[c])
            BY DEF LastSays
        <3> QED
            BY <1>3, <2>1, <2>4, <3>1, <3>2 DEF ReportsSay, LoggedIn
    <2>10. SeatedIsConnected'
        BY <1>2, <2>1 DEF SeatedIsConnected
    <2> QED
        BY <2>5, <2>6, <2>7, <2>8, <2>9, <2>10 DEF RuntimeInv
<1>7. CASE ~ up
    <2>1. OnConnectionLost(d).core = ResetTo("Ended", d)
        BY DEF OnConnectionLost, To
    <2>2. /\ core' = ResetTo("Ended", d) /\ handle' = NoHandle
          /\ UNCHANGED <<opened, inbound, pump, server>>
        BY <1>4, <1>5, <1>7, <2>1 DEF Follows, OpenConnection, IsHost, HostFields
    <2>3. IsCore(core') /\ core'.phase \notin OnView
        BY <2>2, ResetPhases DEF OnView, LoggedIn
    <2> QED
        BY <1>2, <2>2, <2>3, LoopKeeps
<1> QED
    BY <1>6, <1>7

\* The runtime ends with its pumps.
LEMMA RestartKeeps ==
    ASSUME RuntimeInv, Restart
    PROVE  RuntimeInv'
<1>1. IsCore(core') /\ core'.phase \notin OnView /\ handle' = NoHandle
    BY ResetPhases DEF Restart, OnView, LoggedIn
<1>2. /\ pump' = [c \in Conns |-> IF PumpRunning(c) THEN "Done" ELSE pump[c]]
      /\ UNCHANGED <<opened, inbound, toClient, lastTold, server, pushes>>
    BY DEF Restart, channels, downstream
<1>3. RuntimeTypes'
    BY <1>1, <1>2 DEF RuntimeInv, RuntimeTypes, NoHandle
<1>4. Unopened' /\ FrameInHand' /\ SocketSays'
    BY <1>2 DEF RuntimeInv, RuntimeTypes, Unopened, FrameInHand, SocketSays, PumpRunning
<1>5. EndIsReported' /\ ReportsSay' /\ SeatedIsConnected'
    BY <1>1 DEF EndIsReported, ReportsSay, Reading, SeatedIsConnected, OnView
<1> QED
    BY <1>3, <1>4, <1>5 DEF RuntimeInv

-----------------------------------------------------------------------------
(* run_loop: events of the transport *)

\* What a report that is taken off the channel does to the phase.
Heeds(e, phase, next) ==
    \/ next \notin OnView
    \/ ToldBy(e) = "Nothing" /\ next = phase
    \/ ToldBy(e) # "Nothing" /\ next = ToldBy(e)

\* A report is taken off the channel and the connection is kept.
LEMMA TakeKeeps ==
    ASSUME RuntimeInv, handle # NoHandle, inbound[handle] # <<>>, Head(inbound[handle]) # Lost,
           UNCHANGED <<handle, opened, toClient, lastTold, pump, server, pushes>>,
           inbound' = [inbound EXCEPT ![handle] = Tail(@)],
           IsCore(core'), Heeds(Head(inbound[handle]), core.phase, core'.phase)
    PROVE  RuntimeInv'
<1> DEFINE r == inbound[handle]
<1>1. handle \in Conns /\ r \in Seq(Report) /\ r # <<>> /\ inbound'[handle] = Tail(r)
    BY HandleIsConn DEF RuntimeInv, RuntimeTypes
<1>2. Tail(r) \in Seq(Report)
    BY <1>1, HeadTailProperties
<1>3. RuntimeTypes'
    BY <1>1, <1>2 DEF RuntimeInv, RuntimeTypes
<1>4. Unopened' /\ FrameInHand' /\ SocketSays'
    BY DEF RuntimeInv, Unopened, FrameInHand, SocketSays
<1> HIDE DEF r
<1>5. EndIsReported'
    <2> SUFFICES ASSUME pump[handle] = "Done"
                 PROVE  Tail(r) # <<>> /\ Tail(r)[Len(Tail(r))] = Lost
        BY <1>1 DEF RuntimeInv, EndIsReported
    <2>1. r[Len(r)] = Lost /\ Head(r) # Lost
        BY DEF RuntimeInv, EndIsReported, r
    <2>2. Len(r) \in Nat /\ Len(r) # 0 /\ Len(r) # 1 /\ Len(Tail(r)) = Len(r) - 1
        BY <1>1, <2>1
    <2>3. Tail(r)[Len(r) - 1] = r[Len(r)]
        BY <1>1, <2>2
    <2>4. Tail(r) # <<>>
        <3> DEFINE q == Tail(r)
        <3>1. Len(q) # 0
            BY <2>2
        <3> HIDE DEF q
        <3>2. q # <<>>
            BY <3>1
        <3> QED
            BY <3>2 DEF q
    <2> QED
        BY <2>1, <2>2, <2>3, <2>4
<1>6. ReportsSay'
    <2> SUFFICES ASSUME Reading, Silent(Telling(toClient[handle]))
                 PROVE  /\ LastSays(Told(Tail(r)), lastTold[handle])
                        /\ Silent(Told(Tail(r))) /\ core'.phase \in LoggedIn
                             => core'.phase = lastTold[handle]
        BY <1>1 DEF ReportsSay, Reading
    <2>1. /\ LastSays(Told(r), lastTold[handle])
          /\ Silent(Told(r)) /\ core.phase \in LoggedIn => core.phase = lastTold[handle]
        BY DEF RuntimeInv, ReportsSay, r
    <2>2. /\ Told(r) \in Seq(Words) /\ Told(r) # <<>> /\ Told(Tail(r)) = Tail(Told(r))
          /\ Head(Told(r)) = ToldBy(Head(r))
        BY <1>1, ReportsSaid
    <2>3. /\ LastSays(Tail(Told(r)), lastTold[handle])
          /\ Silent(Told(r)) <=> Head(Told(r)) = "Nothing" /\ Silent(Tail(Told(r)))
          /\ Silent(Tail(Told(r))) /\ Head(Told(r)) # "Nothing" => Head(Told(r)) = lastTold[handle]
        BY <2>1, <2>2, TailSays
    <2>4. Heeds(Head(r), core.phase, core'.phase)
        BY DEF r
    <2> QED
        BY <2>1, <2>2, <2>3, <2>4 DEF Heeds, OnView
<1>7. SeatedIsConnected'
    BY DEF SeatedIsConnected
<1> QED
    BY <1>3, <1>4, <1>5, <1>6, <1>7 DEF RuntimeInv

\* A report is taken off the channel and the connection is given up.
LEMMA TakeAndDrop ==
    ASSUME RuntimeInv, handle # NoHandle, inbound[handle] # <<>>,
           UNCHANGED <<opened, toClient, lastTold, pump, server, pushes>>,
           inbound' = [inbound EXCEPT ![handle] = Tail(@)],
           handle' = NoHandle, IsCore(core'), core'.phase \notin OnView
    PROVE  RuntimeInv'
<1>1. handle \in Conns /\ inbound[handle] \in Seq(Report)
    BY HandleIsConn DEF RuntimeInv, RuntimeTypes
<1>2. Tail(inbound[handle]) \in Seq(Report)
    BY <1>1, HeadTailProperties
<1>3. RuntimeTypes'
    BY <1>1, <1>2 DEF RuntimeInv, RuntimeTypes, NoHandle
<1>4. Unopened' /\ FrameInHand' /\ SocketSays'
    BY DEF RuntimeInv, Unopened, FrameInHand, SocketSays
<1>5. EndIsReported' /\ ReportsSay' /\ SeatedIsConnected'
    BY DEF EndIsReported, ReportsSay, Reading, SeatedIsConnected, OnView
<1> QED
    BY <1>3, <1>4, <1>5 DEF RuntimeInv

\* What the loop works on when it has taken a report.
Taken(c, up) == [Host(c, up) EXCEPT !.inbound[handle] = Tail(@)]

\* The report is off the channel, and nothing else is changed.
LEMMA TakenIsHost ==
    ASSUME NEW c, NEW up
    PROVE  /\ IsHost(Taken(c, up)) /\ Taken(c, up).core = c
           /\ Taken(c, up).handle = handle /\ Taken(c, up).opened = opened
           /\ Taken(c, up).inbound = [inbound EXCEPT ![handle] = Tail(@)]
           /\ Taken(c, up).pump = pump /\ Taken(c, up).server = server
BY DEF Taken, Host, IsHost, HostFields

\* handle_inbound and the loop around it.
LEMMA InboundKeeps ==
    ASSUME RuntimeInv, Inbound
    PROVE  RuntimeInv'
<1> DEFINE e == Head(inbound[handle])
<1>1. /\ handle # NoHandle /\ handle \in Conns /\ IsCore(core)
      /\ UNCHANGED <<toClient, lastTold, pushes>>
    BY HandleIsConn DEF RuntimeInv, RuntimeTypes, Inbound, sockets, downstream
<1>2. inbound[handle] # <<>>
    BY <1>1 DEF Inbound, RuntimeInv, EndIsReported
<1>3. e \in Report
    BY <1>1, <1>2 DEF RuntimeInv, RuntimeTypes
<1>4. CASE e = Connected
    <2> DEFINE t == OnConnectionOpened(core)
    <2>1. e.kind = "Connected" /\ e # Lost /\ ToldBy(e) = "Nothing"
        BY <1>4 DEF Connected, Lost, ToldBy
    <2>2. Take(t)
        BY <1>2, <2>1 DEF Inbound
    <2>3. PICK up \in BOOLEAN : Becomes(ProcessEffects(Taken(t.core, up), t.effects))
        BY <2>2 DEF Take, Taken
    <2>4. Withdraws(core, t.core) /\ Plain(t.effects)
        BY <1>1, IntentPhases
    <2> HIDE DEF t
    <2>5. Follows(Taken(t.core, up))
        BY <2>3, <2>4, TakenIsHost, PlainPerformed
    <2>6. /\ core' = t.core /\ UNCHANGED <<handle, opened, pump, server>>
          /\ inbound' = [inbound EXCEPT ![handle] = Tail(@)]
        BY <2>5, TakenIsHost, ZenonT(60) DEF Follows
    <2>7. IsCore(core') /\ Heeds(e, core.phase, core'.phase)
        BY <2>1, <2>4, <2>6 DEF Withdraws, Heeds
    <2> QED
        BY <1>1, <1>2, <2>1, <2>6, <2>7, TakeKeeps
<1>5. ASSUME NEW m \in ServerFrame \ {EndOfFile}, e = Message(m) PROVE RuntimeInv'
    <2> DEFINE t == HandleInbound(core, m)
    <2>1. e.kind = "Message" /\ e # Lost /\ ToldBy(e) = Tells(m) /\ e.message = m
        BY <1>5 DEF Message, Lost, ToldBy
    <2>2. Take(t)
        BY <1>2, <2>1 DEF Inbound
    <2>3. PICK up \in BOOLEAN : Becomes(ProcessEffects(Taken(t.core, up), t.effects))
        BY <2>2 DEF Take, Taken
    <2>4. Answers(core, m, t.core, t.effects)
        BY <1>1, InboundPhases
    <2> HIDE DEF t
    <2>5. CASE Plain(t.effects) /\ Tells(m) # "Closed"
        <3>1. Follows(Taken(t.core, up))
            BY <2>3, <2>5, TakenIsHost, PlainPerformed
        <3>2. /\ core' = t.core /\ UNCHANGED <<handle, opened, pump, server>>
              /\ inbound' = [inbound EXCEPT ![handle] = Tail(@)]
            BY <3>1, TakenIsHost, ZenonT(60) DEF Follows
        <3>3. IsCore(core') /\ Heeds(e, core.phase, core'.phase)
            BY <2>1, <2>4, <2>5, <3>2 DEF Answers, Heeds, LoggedIn
        <3> QED
            BY <1>1, <1>2, <2>1, <3>2, <3>3, TakeKeeps
    <2>6. CASE Closing(t.effects) /\ Tells(m) = "Closed"
        <3> DEFINE h == Taken(t.core, up)
        <3>1. /\ IsHost(h) /\ h.core = t.core /\ h.opened = opened /\ h.pump = pump
              /\ h.server = server /\ h.inbound = [inbound EXCEPT ![handle] = Tail(@)]
            BY TakenIsHost, ZenonT(60)
        <3>2. Becomes(ProcessEffects(h, t.effects))
            BY <2>3
        <3> HIDE DEF h
        <3>3. /\ core' = h.core /\ handle' = NoHandle /\ opened' = h.opened
              /\ inbound' = h.inbound /\ pump' = h.pump /\ server' = h.server
            BY <2>6, <3>1, <3>2, ClosingPerformed
        <3>4. IsCore(core') /\ core'.phase \notin OnView
            BY <2>4, <2>6, <3>1, <3>3 DEF Answers, LoggedIn
        <3> QED
            BY <1>1, <1>2, <3>1, <3>3, <3>4, TakeAndDrop
    <2> QED
        BY <2>4, <2>5, <2>6 DEF Answers, LoggedIn
<1>6. CASE e = Lost
    <2>1. e.kind = "Lost"
        BY <1>6 DEF Lost
    <2>2. OnLost
        BY <1>2, <2>1 DEF Inbound
    <2>3. /\ core' = ResetTo("Ended", core) /\ handle' = NoHandle
          /\ UNCHANGED <<opened, pump, server>>
          /\ inbound' = [inbound EXCEPT ![handle] = Tail(@)]
        BY <2>2 DEF OnLost, Becomes, Host, OnConnectionLost, To
    <2>4. IsCore(core') /\ core'.phase \notin OnView
        BY <2>3, ResetPhases DEF OnView, LoggedIn
    <2> QED
        BY <1>1, <1>2, <2>3, <2>4, TakeAndDrop
<1> QED
    BY <1>3, <1>4, <1>5, <1>6 DEF Report

-----------------------------------------------------------------------------
(* run_pump *)

\* A pump that runs has a socket.
LEMMA RunningIsOpen ==
    ASSUME RuntimeInv, NEW c \in Conns, pump[c] # "None" \/ server[c] # "None"
    PROVE  ~ (c > opened)
BY DEF RuntimeInv, Unopened

\* A pump that reports the loss and ends.
LEMMA LosingKeeps ==
    ASSUME RuntimeInv, NEW c \in Conns, PumpRunning(c), LosesConnection(c),
           UNCHANGED <<core, handle, opened, toClient, lastTold, server, pushes>>
    PROVE  RuntimeInv'
<1>1. ~ (c > opened)
    BY RunningIsOpen DEF PumpRunning
<1>2. Lost \in Report /\ inbound[c] \in Seq(Report) /\ Append(inbound[c], Lost) \in Seq(Report)
    <2>1. Lost \in Report
        BY DEF Report
    <2>2. inbound[c] \in Seq(Report)
        BY DEF RuntimeInv, RuntimeTypes
    <2> QED
        BY <2>1, <2>2
<1>3. pump' = [pump EXCEPT ![c] = "Done"]
      /\ inbound' = IF c = handle THEN [inbound EXCEPT ![c] = Append(@, Lost)] ELSE inbound
    BY DEF LosesConnection, Reported
<1>4. RuntimeTypes'
    BY <1>2, <1>3 DEF RuntimeInv, RuntimeTypes
<1>5. Unopened' /\ FrameInHand' /\ SocketSays'
    BY <1>1, <1>3 DEF RuntimeInv, RuntimeTypes, Unopened, FrameInHand, SocketSays
<1>6. EndIsReported' /\ ReportsSay'
    <2>1. CASE c = handle
        <3>1. inbound'[handle] = Append(inbound[handle], Lost) /\ pump'[handle] = "Done"
            BY <1>3, <2>1 DEF RuntimeInv, RuntimeTypes
        <3>2. inbound'[handle] # <<>> /\ inbound'[handle][Len(inbound'[handle])] = Lost
            BY <1>2, <2>1, <3>1
        <3> QED
            BY <3>1, <3>2 DEF EndIsReported, ReportsSay, Reading
    <2>2. CASE c # handle
        <3>1. inbound' = inbound /\ (handle # NoHandle => pump'[handle] = pump[handle])
            BY <1>3, <2>2 DEF RuntimeInv, RuntimeTypes
        <3> QED
            BY <3>1 DEF RuntimeInv, EndIsReported, ReportsSay, Reading
    <2> QED
        BY <2>1, <2>2
<1>7. SeatedIsConnected'
    BY DEF RuntimeInv, SeatedIsConnected
<1> QED
    BY <1>4, <1>5, <1>6, <1>7 DEF RuntimeInv

\* A pump that changes its state and nothing that is followed here: it ends without
\* a handle, begins a frame, or is cut off in one.
LEMMA PumpMoves ==
    ASSUME RuntimeInv, NEW c \in Conns, NEW p, pump' = [pump EXCEPT ![c] = p],
           pump[c] # "None", UNCHANGED <<core, handle, opened, inbound, toClient, lastTold, server, pushes>>,
           \/ p = "Done" /\ handle # c
           \/ p = "Garbled" \/ p = pump[c]
           \/ p = "Midframe" /\ pump[c] = "Idle" /\ toClient[c] # <<>> /\ Head(toClient[c]) # EndOfFile
    PROVE  RuntimeInv'
<1>1. ~ (c > opened)
    BY RunningIsOpen
<1>2. RuntimeTypes'
    BY DEF RuntimeInv, RuntimeTypes
<1>3. \A k \in Conns : k # c => pump'[k] = pump[k]
    BY DEF RuntimeInv, RuntimeTypes
<1>4. pump'[c] = p
    BY DEF RuntimeInv, RuntimeTypes
<1>5. Unopened' /\ SocketSays' /\ SeatedIsConnected'
    BY <1>1, <1>3 DEF RuntimeInv, Unopened, SocketSays, SeatedIsConnected
<1>6. FrameInHand'
    BY <1>3, <1>4 DEF RuntimeInv, FrameInHand
<1>7. EndIsReported' /\ ReportsSay'
    <2>1. handle # NoHandle => handle \in Conns
        BY HandleIsConn
    <2>2. EndIsReported'
        BY <1>3, <1>4, <2>1 DEF RuntimeInv, EndIsReported
    <2>3. Reading' => Reading
        BY <1>3, <1>4, <2>1 DEF Reading
    <2> QED
        BY <2>2, <2>3 DEF RuntimeInv, ReportsSay
<1> QED
    BY <1>2, <1>5, <1>6, <1>7 DEF RuntimeInv

\* A whole frame goes from the socket to the channel of the handle; it is what is
\* said last there if nothing is said behind it in the socket.
LEMMA ReadRestKeeps ==
    ASSUME RuntimeInv, NEW c \in Conns, PumpReadRest(c)
    PROVE  RuntimeInv'
<1> DEFINE f == toClient[c]
           m == Head(f)
<1>1. /\ pump[c] = "Midframe" /\ f \in Seq(ServerFrame) /\ f # <<>> /\ m # EndOfFile
    BY DEF RuntimeInv, RuntimeTypes, FrameInHand, PumpReadRest
<1>2. Tail(f) \in Seq(ServerFrame) /\ m \in ServerFrame
    BY <1>1, HeadTailProperties
<1>3. Message(m) \in Report /\ ToldBy(Message(m)) = Tells(m)
    BY <1>1, <1>2 DEF Report, ToldBy, Message
<1>4. /\ toClient' = [toClient EXCEPT ![c] = Tail(f)]
      /\ inbound' = IF c = handle THEN [inbound EXCEPT ![c] = Append(@, Message(m))] ELSE inbound
      /\ pump' = [pump EXCEPT ![c] = IF c = handle THEN "Idle" ELSE "Done"]
      /\ UNCHANGED <<core, handle, opened, lastTold, server, pushes>>
    BY DEF PumpReadRest, Reported
<1>5. ~ (c > opened)
    BY <1>1, RunningIsOpen
<1>6. /\ Telling(f) \in Seq(Words) /\ Telling(f) # <<>> /\ Telling(Tail(f)) = Tail(Telling(f))
      /\ Head(Telling(f)) = Tells(m)
    BY <1>1, FramesSay
<1>7. LastSays(Telling(f), lastTold[c])
    BY DEF RuntimeInv, SocketSays
<1> HIDE DEF f, m
<1>8. /\ LastSays(Telling(Tail(f)), lastTold[c])
      /\ Silent(Telling(f)) <=> Tells(m) = "Nothing" /\ Silent(Telling(Tail(f)))
      /\ Silent(Telling(Tail(f))) /\ Tells(m) # "Nothing" => Tells(m) = lastTold[c]
    BY <1>6, <1>7, TailSays
<1>9. inbound[c] \in Seq(Report) /\ Append(inbound[c], Message(m)) \in Seq(Report)
    BY <1>3 DEF RuntimeInv, RuntimeTypes
<1>10. RuntimeTypes'
    BY <1>2, <1>4, <1>9 DEF RuntimeInv, RuntimeTypes
<1>11. /\ \A k \in Conns : k # c => /\ pump'[k] = pump[k] /\ toClient'[k] = toClient[k]
                                    /\ inbound'[k] = inbound[k]
       /\ toClient'[c] = Tail(f) /\ pump'[c] # "Midframe" /\ (c = handle => pump'[c] = "Idle")
    BY <1>4 DEF RuntimeInv, RuntimeTypes
<1>12. Unopened' /\ SeatedIsConnected'
    BY <1>4, <1>5, <1>11 DEF RuntimeInv, Unopened, SeatedIsConnected
<1>13. FrameInHand' /\ SocketSays'
    BY <1>4, <1>8, <1>11 DEF RuntimeInv, FrameInHand, SocketSays
<1>14. CASE c = handle
    <2>1. EndIsReported'
        BY <1>4, <1>11, <1>14 DEF EndIsReported
    <2>2. inbound'[c] = Append(inbound[c], Message(m))
        BY <1>4, <1>14 DEF RuntimeInv, RuntimeTypes
    <2>3. ASSUME Silent(Telling(Tail(f)))
          PROVE  /\ LastSays(Told(inbound'[c]), lastTold[c])
                 /\ Silent(Told(inbound'[c])) /\ core.phase \in LoggedIn => core.phase = lastTold[c]
        <3>1. CASE Tells(m) = "Nothing"
            <4>1. /\ LastSays(Told(inbound[c]), lastTold[c])
                  /\ Silent(Told(inbound[c])) /\ core.phase \in LoggedIn => core.phase = lastTold[c]
                <5>1. c # NoHandle
                    BY DEF Conns, NoHandle
                <5>2. Silent(Telling(toClient[handle]))
                    BY <1>8, <1>14, <2>3, <3>1 DEF f
                <5> QED
                    BY <1>1, <1>14, <5>1, <5>2 DEF RuntimeInv, ReportsSay, Reading
            <4> QED
                BY <1>3, <1>9, <2>2, <3>1, <4>1, OneMoreReport
        <3>2. CASE Tells(m) # "Nothing"
            <4>1. Tells(m) = lastTold[c]
                BY <1>8, <2>3, <3>2
            <4> QED
                BY <1>3, <1>9, <2>2, <3>2, <4>1, OneMoreReport
        <3> QED
            BY <3>1, <3>2
    <2>4. ReportsSay'
        BY <1>4, <1>11, <1>14, <2>3 DEF ReportsSay
    <2> QED
        BY <1>10, <1>12, <1>13, <2>1, <2>4 DEF RuntimeInv
<1>15. CASE c # handle
    <2>1. handle # NoHandle => handle \in Conns
        BY HandleIsConn
    <2>2. EndIsReported'
        BY <1>4, <1>11, <1>15, <2>1 DEF RuntimeInv, EndIsReported
    <2>3. ReportsSay'
        BY <1>4, <1>11, <1>15, <2>1 DEF RuntimeInv, ReportsSay, Reading
    <2> QED
        BY <1>10, <1>12, <1>13, <2>2, <2>3 DEF RuntimeInv
<1> QED
    BY <1>14, <1>15

\* run_pump, one branch of its select! at a time.
LEMMA PumpKeeps ==
    ASSUME RuntimeInv, NEW c \in Conns, Pump(c) \/ PumpGarbled(c)
    PROVE  RuntimeInv'
<1>1. CASE PumpSend(c)
    <2>1. PumpRunning(c) /\ UNCHANGED <<core, handle, opened, lastTold, server, pushes>>
        BY <1>1 DEF PumpSend
    <2>2. CASE AfterSend(c) /\ UNCHANGED inbound
        <3> DEFINE p == IF pump[c] = "Midframe" THEN "Garbled" ELSE pump[c]
        <3>1. pump' = [pump EXCEPT ![c] = p] /\ UNCHANGED toClient
            BY <2>2 DEF AfterSend
        <3>2. pump[c] # "None" /\ (p = "Garbled" \/ p = pump[c])
            BY <2>1 DEF PumpRunning
        <3> HIDE DEF p
        <3> QED
            BY <2>1, <2>2, <3>1, <3>2, PumpMoves
    <2>3. CASE LosesConnection(c) /\ UNCHANGED sockets
        BY <2>1, <2>3, LosingKeeps DEF sockets, downstream
    <2> QED
        BY <1>1, <2>2, <2>3 DEF PumpSend
<1>2. CASE PumpShutdown(c)
    <2>1. /\ pump[c] # "None" /\ handle # c /\ pump' = [pump EXCEPT ![c] = "Done"]
          /\ UNCHANGED <<core, handle, opened, inbound, toClient, lastTold, server, pushes>>
        BY <1>2 DEF PumpShutdown, PumpRunning, channels, downstream
    <2> QED
        BY <2>1, PumpMoves
<1>3. CASE PumpReadPart(c)
    <2>1. /\ pump[c] = "Idle" /\ toClient[c] # <<>> /\ Head(toClient[c]) # EndOfFile
          /\ pump' = [pump EXCEPT ![c] = "Midframe"]
          /\ UNCHANGED <<core, handle, opened, inbound, toClient, lastTold, server, pushes>>
        BY <1>3 DEF PumpReadPart, channels, sockets, downstream
    <2> QED
        BY <2>1, PumpMoves
<1>4. CASE PumpReadRest(c)
    BY <1>4, ReadRestKeeps
<1>5. CASE PumpEof(c)
    BY <1>5, LosingKeeps DEF PumpEof, sockets, downstream
<1>6. CASE PumpGarbled(c)
    <2>1. PumpRunning(c)
        BY <1>6 DEF PumpGarbled, PumpRunning
    <2> QED
        BY <1>6, <2>1, LosingKeeps DEF PumpGarbled, sockets, downstream
<1> QED
    BY <1>1, <1>2, <1>3, <1>4, <1>5, <1>6 DEF Pump

-----------------------------------------------------------------------------
(* The server *)

\* What is said by a frame, and by two.
LEMMA ShortTelling ==
    /\ \A m \in ServerFrame : <<m>> \in Seq(ServerFrame) /\ Telling(<<m>>) = <<Tells(m)>>
    /\ \A m \in ServerFrame : \A n \in ServerFrame :
         <<m, n>> \in Seq(ServerFrame) /\ Telling(<<m, n>>) = <<Tells(m), Tells(n)>>
BY DEF Telling

\* What the server sends in one step: at most two frames, and when one of them says
\* where the client is, the last one does.
Parcel(ms) ==
    \/ ms = <<>>
    \/ \E m \in ServerFrame : ms = <<m>>
    \/ \E m \in ServerFrame : \E n \in ServerFrame :
         ms = <<m, n>> /\ (Tells(n) = "Nothing" => Tells(m) = "Nothing")

\* A parcel says nothing and the client is where it was; or it is where the last
\* frame says.
LEMMA ParcelTells ==
    ASSUME NEW ms, Parcel(ms), NEW place
    PROVE  /\ ms \in Seq(ServerFrame)
           /\ \/ Silent(Telling(ms)) /\ Tell(place, ms) = place
              \/ /\ ms # <<>> /\ Telling(ms)[Len(Telling(ms))] = Tell(place, ms)
                 /\ Tell(place, ms) \in {"Lobby", "Seated", "Closed"}
<1> DEFINE Goal == /\ ms \in Seq(ServerFrame)
                   /\ \/ Silent(Telling(ms)) /\ Tell(place, ms) = place
                      \/ /\ ms # <<>> /\ Telling(ms)[Len(Telling(ms))] = Tell(place, ms)
                         /\ Tell(place, ms) \in {"Lobby", "Seated", "Closed"}
           telling == {i \in DOMAIN ms : Tells(ms[i]) # "Nothing"}
<1> SUFFICES Goal
    OBVIOUS
<1>1. Tell(place, ms) = IF telling = {} THEN place ELSE Tells(ms[Max(telling)])
    BY DEF Tell
<1>2. \A m \in ServerFrame : Tells(m) \in {"Lobby", "Seated", "Closed", "Nothing"}
    BY DEF Tells
<1>3. CASE ms = <<>>
    <2>1. DOMAIN ms = {} /\ ms \in Seq(ServerFrame)
        BY <1>3
    <2>2. telling = {} /\ Silent(Telling(ms))
        BY <2>1 DEF Silent, Telling
    <2> QED
        BY <1>1, <2>1, <2>2
<1>4. ASSUME NEW m \in ServerFrame, ms = <<m>> PROVE Goal
    <2>1. DOMAIN ms = {1} /\ ms[1] = m /\ ms # <<>>
        BY <1>4
    <2>2. ms \in Seq(ServerFrame) /\ Telling(ms) = <<Tells(m)>>
        BY <1>4, ShortTelling
    <2>3. CASE Tells(m) = "Nothing"
        <3>1. telling = {}
            BY <2>1, <2>3
        <3>2. Silent(Telling(ms))
            BY <2>2, <2>3 DEF Silent
        <3> QED
            BY <1>1, <2>2, <3>1, <3>2
    <2>4. CASE Tells(m) # "Nothing"
        <3>1. telling = {1}
            BY <2>1, <2>4
        <3>2. Tell(place, ms) = Tells(m)
            BY <1>1, <2>1, <3>1, LastOfTwo
        <3>3. Telling(ms)[Len(Telling(ms))] = Tells(m)
            BY <2>2
        <3> QED
            BY <1>2, <2>1, <2>2, <2>4, <3>2, <3>3
    <2> QED
        BY <2>3, <2>4
<1>5. ASSUME NEW m \in ServerFrame, NEW n \in ServerFrame, ms = <<m, n>>,
             Tells(n) = "Nothing" => Tells(m) = "Nothing"
      PROVE  Goal
    <2>1. DOMAIN ms = {1, 2} /\ ms[1] = m /\ ms[2] = n /\ ms # <<>>
        BY <1>5
    <2>2. ms \in Seq(ServerFrame) /\ Telling(ms) = <<Tells(m), Tells(n)>>
        BY <1>5, ShortTelling
    <2>3. CASE Tells(n) = "Nothing"
        <3>1. telling = {}
            BY <1>5, <2>1, <2>3
        <3>2. Silent(Telling(ms))
            BY <1>5, <2>2, <2>3 DEF Silent
        <3> QED
            BY <1>1, <2>2, <3>1, <3>2
    <2>4. CASE Tells(n) # "Nothing"
        <3>1. telling = {2} \/ telling = {1, 2}
            BY <2>1, <2>4
        <3>2. Tell(place, ms) = Tells(n)
            BY <1>1, <2>1, <3>1, LastOfTwo
        <3>3. Telling(ms)[Len(Telling(ms))] = Tells(n)
            BY <2>2
        <3> QED
            BY <1>2, <2>1, <2>2, <2>4, <3>2, <3>3
    <2> QED
        BY <2>3, <2>4
<1> QED
    BY <1>3, <1>4, <1>5 DEF Parcel

\* What is left of one frame, or of two, when the queue may be full.
LEMMA PartsOfShort ==
    ASSUME NEW m \in ServerFrame, NEW n \in ServerFrame, NEW c
    PROVE  /\ \A ms \in Accepted(c, <<m>>) : ms = <<>> \/ ms = <<m>>
           /\ \A ms \in Accepted(c, <<m, n>>) :
                ms = <<>> \/ ms = <<m>> \/ ms = <<n>> \/ ms = <<m, n>>
<1>1. <<m>> \in Seq(ServerFrame) /\ <<m, n>> \in Seq(ServerFrame)
    BY ShortTelling
<1> DEFINE Cut(s, i, j) == SubSeq(s, i, j)
<1>2. ASSUME NEW s \in Seq(ServerFrame), NEW i \in 1 .. Len(s), NEW j \in i .. Len(s)
      PROVE  /\ Cut(s, i, j) \in Seq(ServerFrame) /\ Len(Cut(s, i, j)) = j - i + 1
             /\ \A k \in 1 .. j - i + 1 : Cut(s, i, j)[k] = s[i + k - 1]
    <2>1. i \in Int /\ j \in Int /\ i <= j /\ \A k \in i .. j : s[k] \in ServerFrame
        OBVIOUS
    <2> QED
        BY <2>1, SubSeqProperties
<1>3. ASSUME NEW s \in Seq(ServerFrame), NEW i \in 1 .. Len(s), Len(s) \in {1, 2}
      PROVE  Cut(s, i, i) = <<s[i]>>
    <2> DEFINE t == <<s[i]>>
    <2>1. /\ Cut(s, i, i) \in Seq(ServerFrame) /\ Len(Cut(s, i, i)) = 1
          /\ Cut(s, i, i)[1] = s[i]
        <3>1. i \in i .. Len(s) /\ i - i + 1 = 1 /\ i + 1 - 1 = i /\ 1 \in 1 .. 1
            OBVIOUS
        <3> QED
            BY <1>2, <3>1
    <2>2. t \in Seq(ServerFrame) /\ Len(t) = 1 /\ t[1] = s[i]
        OBVIOUS
    <2> HIDE DEF t, Cut
    <2>3. \A k \in 1 .. 1 : Cut(s, i, i)[k] = t[k]
        BY <2>1, <2>2
    <2>4. Cut(s, i, i) = t
        BY <2>1, <2>2, <2>3, SeqEqual
    <2> QED
        BY <2>4 DEF t
<1>4. Len(<<m>>) = 1 /\ Len(<<m, n>>) = 2 /\ <<m>>[1] = m /\ <<m, n>>[1] = m /\ <<m, n>>[2] = n
    OBVIOUS
<1>5. ASSUME NEW ms \in Accepted(c, <<m>>) PROVE ms = <<>> \/ ms = <<m>>
    <2> SUFFICES ASSUME NEW i \in 1 .. 1, NEW j \in 0 .. 1, ms = SubSeq(<<m>>, i, j)
                 PROVE  ms = <<>> \/ ms = <<m>>
        BY <1>5 DEF Accepted
    <2>1. CASE j < i
        BY <2>1, SubSeqEmpty
    <2>2. CASE i = 1 /\ j = 1
        BY <1>1, <1>3, <1>4, <2>2
    <2> QED
        BY <2>1, <2>2
<1>6. ASSUME NEW ms \in Accepted(c, <<m, n>>)
      PROVE  ms = <<>> \/ ms = <<m>> \/ ms = <<n>> \/ ms = <<m, n>>
    <2>1. \A i \in 1 .. 2 : \A j \in 0 .. 2 :
            j < i \/ (i = 1 /\ j = 1) \/ (i = 1 /\ j = 2) \/ (i = 2 /\ j = 2)
        OBVIOUS
    <2> SUFFICES ASSUME NEW i \in 1 .. 2, NEW j \in 0 .. 2, ms = SubSeq(<<m, n>>, i, j)
                 PROVE  ms = <<>> \/ ms = <<m>> \/ ms = <<n>> \/ ms = <<m, n>>
        BY <1>6 DEF Accepted
    <2>2. CASE j < i
        BY <2>2, SubSeqEmpty
    <2>3. CASE i = 1 /\ j = 1
        BY <1>1, <1>3, <1>4, <2>3
    <2>4. CASE i = 1 /\ j = 2
        BY <1>1, <1>4, <2>4, SubSeqFull
    <2>5. CASE i = 2 /\ j = 2
        BY <1>1, <1>3, <1>4, <2>5
    <2> QED
        BY <2>1, <2>2, <2>3, <2>4, <2>5
<1> QED
    BY <1>5, <1>6

\* The server sends frames on an open connection, wherever it has the player then.
LEMMA ReplyKeeps ==
    ASSUME RuntimeInv, NEW c \in Conns, server[c] # "None", NEW ms, Parcel(ms),
           Reply(c, ms), UNCHANGED <<core, handle, opened, inbound, pump>>,
           pushes' \in 0 .. MaxPushes,
           UNCHANGED server \/ (\E place \in {"Lobby", "Seated", "Closed"} : Becoming(c, place))
    PROVE  RuntimeInv'
<1> DEFINE f == toClient[c]
           x == Tell(lastTold[c], ms)
<1>1. /\ ms \in Seq(ServerFrame)
      /\ \/ Silent(Telling(ms)) /\ x = lastTold[c]
         \/ /\ ms # <<>> /\ Telling(ms)[Len(Telling(ms))] = x
            /\ x \in {"Lobby", "Seated", "Closed"}
    BY ParcelTells
<1>2. f \in Seq(ServerFrame) /\ f \o ms \in Seq(ServerFrame)
    BY <1>1 DEF RuntimeInv, RuntimeTypes
<1>3. toClient' = [toClient EXCEPT ![c] = f \o ms] /\ lastTold' = [lastTold EXCEPT ![c] = x]
    BY DEF Reply
<1>4. /\ toClient'[c] = f \o ms /\ lastTold'[c] = x
      /\ \A k \in Conns : k # c => toClient'[k] = toClient[k] /\ lastTold'[k] = lastTold[k]
    BY <1>3 DEF RuntimeInv, RuntimeTypes
<1>5. ~ (c > opened)
    BY RunningIsOpen
<1> HIDE DEF x
<1>6. RuntimeTypes'
    <2>1. server' \in [Conns -> {"None", "Handshake", "Lobby", "Seated", "Busted", "Closed"}]
        BY DEF Becoming, RuntimeInv, RuntimeTypes
    <2>2. toClient' \in [Conns -> Seq(ServerFrame)]
        BY <1>2, <1>3 DEF RuntimeInv, RuntimeTypes
    <2>3. lastTold' \in [Conns -> {"None", "Lobby", "Seated", "Closed"}]
        BY <1>3, <1>1 DEF RuntimeInv, RuntimeTypes
    <2> QED
        BY <2>1, <2>2, <2>3 DEF RuntimeInv, RuntimeTypes
<1>7. Unopened' /\ EndIsReported' /\ SeatedIsConnected'
    <2>1. \A k \in Conns : k # c => server'[k] = server[k]
        BY DEF Becoming, RuntimeInv, RuntimeTypes
    <2> QED
        BY <1>4, <1>5, <2>1 DEF RuntimeInv, Unopened, EndIsReported, SeatedIsConnected
<1>8. f # <<>> => f \o ms # <<>> /\ Head(f \o ms) = Head(f)
    <2> SUFFICES ASSUME f # <<>> PROVE f \o ms # <<>> /\ Head(f \o ms) = Head(f)
        OBVIOUS
    <2> HIDE DEF f
    <2>1. Len(f) \in Nat /\ Len(f) # 0 /\ Len(ms) \in Nat
        BY <1>1, <1>2
    <2>2. /\ Len(f \o ms) = Len(f) + Len(ms)
          /\ \A i \in 1 .. Len(f) + Len(ms) :
               (f \o ms)[i] = IF i <= Len(f) THEN f[i] ELSE ms[i - Len(f)]
        BY <1>1, <1>2, ConcatProperties
    <2>3. (f \o ms)[1] = f[1] /\ Len(f \o ms) # 0
        BY <2>1, <2>2
    <2> QED
        BY <1>2, <2>3
<1> HIDE DEF f
<1>9. FrameInHand'
    BY <1>4, <1>8 DEF RuntimeInv, FrameInHand, f
<1>10. /\ Telling(f) \in Seq(Words) /\ Telling(ms) \in Seq(Words)
       /\ Telling(f \o ms) = Telling(f) \o Telling(ms)
       /\ ms # <<>> => Telling(ms) # <<>>
    BY <1>1, <1>2, FramesSay
<1>11. LastSays(Telling(f), lastTold[c])
    BY DEF RuntimeInv, SocketSays, f
<1>12. CASE Silent(Telling(ms)) /\ x = lastTold[c]
    <2>1. /\ LastSays(Telling(f \o ms), lastTold[c])
          /\ Silent(Telling(f \o ms)) <=> Silent(Telling(f))
        BY <1>10, <1>11, <1>12, MoreSays
    <2>2. SocketSays'
        BY <1>4, <1>12, <2>1 DEF RuntimeInv, SocketSays
    <2>3. handle # NoHandle => handle \in Conns
        BY HandleIsConn
    <2>4. Reading /\ Silent(Telling(toClient'[handle])) => Silent(Telling(toClient[handle]))
        BY <1>4, <2>1, <2>3 DEF Reading, f
    <2>5. handle # NoHandle => lastTold'[handle] = lastTold[handle]
        BY <1>4, <1>12, <2>3
    <2>6. ReportsSay'
        BY <2>4, <2>5 DEF RuntimeInv, ReportsSay, Reading
    <2> QED
        BY <1>6, <1>7, <1>9, <2>2, <2>6 DEF RuntimeInv
<1>13. CASE /\ ms # <<>> /\ Telling(ms)[Len(Telling(ms))] = x
            /\ x \in {"Lobby", "Seated", "Closed"}
    <2>1. x # "Nothing"
        BY <1>13
    <2>2. LastSays(Telling(f \o ms), x)
        BY <1>10, <1>13, <2>1, MoreSays
    <2>3. ~ Silent(Telling(f \o ms))
        <3>1. Len(Telling(ms)) \in DOMAIN Telling(ms)
            <4> DEFINE v == Telling(ms)
            <4>1. v \in Seq(Words) /\ v # <<>>
                BY <1>10, <1>13
            <4> HIDE DEF v
            <4>2. Len(v) \in DOMAIN v
                BY <4>1
            <4> QED
                BY <4>2 DEF v
        <3>2. ~ Silent(Telling(ms))
            BY <1>13, <2>1, <3>1 DEF Silent
        <3> QED
            <4>1. Silent(Telling(f) \o Telling(ms)) <=> Silent(Telling(f)) /\ Silent(Telling(ms))
                BY <1>10, MoreSays
            <4> QED
                BY <1>10, <3>2, <4>1
    <2>4. SocketSays'
        BY <1>4, <2>2 DEF RuntimeInv, SocketSays
    <2>5. handle # NoHandle => handle \in Conns
        BY HandleIsConn
    <2>6. ReportsSay'
        <3>1. CASE handle = c
            BY <1>4, <2>3, <3>1 DEF ReportsSay
        <3>2. CASE handle # c
            BY <1>4, <2>5, <3>2 DEF RuntimeInv, ReportsSay, Reading
        <3> QED
            BY <3>1, <3>2
    <2> QED
        BY <1>6, <1>7, <1>9, <2>4, <2>6 DEF RuntimeInv
<1> QED
    BY <1>1, <1>12, <1>13

\* The server closes the connection, with a last word or without.
LEMMA CloseKeeps ==
    ASSUME RuntimeInv, NEW c \in Conns, server[c] # "None", NEW ms,
           ms = <<>> \/ ms = <<Rejected>> \/ ms = <<Goodbye>>, CloseAfter(c, ms),
           ServerOnly, pushes' \in 0 .. MaxPushes
    PROVE  RuntimeInv'
<1>1. EndOfFile \in ServerFrame /\ Tells(EndOfFile) = "Closed"
    BY DEF ServerFrame, EndOfFile, Tells
<1>2. Rejected \in ServerFrame /\ Goodbye \in ServerFrame
    BY DEF ServerFrame
<1>3. \/ ms \o <<EndOfFile>> = <<EndOfFile>>
      \/ \E n \in ServerFrame : ms \o <<EndOfFile>> = <<n, EndOfFile>>
    <2>1. CASE ms = <<>>
        BY <2>1
    <2>2. ASSUME NEW n \in ServerFrame, ms = <<n>> PROVE ms \o <<EndOfFile>> = <<n, EndOfFile>>
        <3>1. <<n>> \in Seq(ServerFrame) /\ <<EndOfFile>> \in Seq(ServerFrame)
              /\ <<n, EndOfFile>> \in Seq(ServerFrame)
            BY <1>1
        <3>2. /\ <<n>> \o <<EndOfFile>> \in Seq(ServerFrame) /\ Len(<<n>> \o <<EndOfFile>>) = 2
              /\ (<<n>> \o <<EndOfFile>>)[1] = n /\ (<<n>> \o <<EndOfFile>>)[2] = EndOfFile
            BY <3>1
        <3>3. \A i \in 1 .. 2 : (<<n>> \o <<EndOfFile>>)[i] = <<n, EndOfFile>>[i]
            BY <3>2
        <3> QED
            BY <2>2, <3>1, <3>2, <3>3, SeqEqual
    <2> QED
        BY <1>2, <2>1, <2>2
<1>4. Parcel(ms \o <<EndOfFile>>)
    BY <1>1, <1>3 DEF Parcel
<1>5. UNCHANGED <<core, handle, opened, inbound, pump>>
    BY DEF ServerOnly, channels
<1> QED
    BY <1>4, <1>5, ReplyKeeps DEF CloseAfter

\* A step of the server that sends nothing.
LEMMA ServerMoves ==
    ASSUME RuntimeInv, NEW c \in Conns, server[c] # "None", ServerOnly,
           UNCHANGED <<toClient, lastTold, pushes>>,
           UNCHANGED server \/ Becoming(c, "Busted")
    PROVE  RuntimeInv'
<1>1. UNCHANGED <<core, handle, opened, inbound, pump>>
    BY DEF ServerOnly, channels
<1>2. ~ (c > opened)
    BY RunningIsOpen
<1>3. /\ \A k \in Conns : k # c => server'[k] = server[k]
      /\ server' \in [Conns -> {"None", "Handshake", "Lobby", "Seated", "Busted", "Closed"}]
    BY DEF Becoming, RuntimeInv, RuntimeTypes
<1>4. RuntimeTypes' /\ Unopened'
    BY <1>1, <1>2, <1>3 DEF RuntimeInv, RuntimeTypes, Unopened
<1>5. FrameInHand' /\ EndIsReported' /\ SocketSays' /\ ReportsSay' /\ SeatedIsConnected'
    BY <1>1 DEF RuntimeInv, FrameInHand, EndIsReported, SocketSays, ReportsSay, Reading,
                SeatedIsConnected
<1> QED
    BY <1>4, <1>5 DEF RuntimeInv

\* The server reads a message and answers it.
LEMMA ServerReadsKeeps ==
    ASSUME RuntimeInv, NEW c \in Conns, ServerReads(c)
    PROVE  RuntimeInv'
<1> DEFINE m == Head(toServer[c])
<1>1. /\ server[c] # "None" /\ ServerOnly /\ UNCHANGED pushes /\ pushes' \in 0 .. MaxPushes
      /\ UNCHANGED <<core, handle, opened, inbound, pump>>
    BY DEF ServerReads, ServerOnly, channels, RuntimeInv, RuntimeTypes
<1>2. /\ {Welcome(1), JoinedTable(Table, Seat), LeftTable, ActionRejected} \subseteq ServerFrame
      /\ Tells(JoinedTable(Table, Seat)) = "Seated"
    BY DEF ServerFrame, Tells, JoinedTable
<1>3. /\ Parcel(<<>>) /\ \A k \in ServerFrame : Parcel(<<k>>)
      /\ Parcel(<<Welcome(1), JoinedTable(Table, Seat)>>)
    BY <1>2 DEF Parcel
<1> DEFINE Closes == \E ms : /\ ms = <<>> \/ ms = <<Rejected>> \/ ms = <<Goodbye>>
                             /\ CloseAfter(c, ms)
           Welcomes == \/ Reply(c, <<Welcome(1)>>) /\ Becoming(c, "Lobby")
                       \/ /\ Reply(c, <<Welcome(1), JoinedTable(Table, Seat)>>)
                          /\ Becoming(c, "Seated")
           Answers1 == \E k \in ServerFrame :
                         /\ TrySend(c, <<k>>)
                         /\ UNCHANGED server \/ (\E place \in {"Lobby", "Seated"} : Becoming(c, place))
           Accepts == UNCHANGED <<downstream, server>>
<1>4. Closes \/ Welcomes \/ Answers1 \/ Accepts
    <2>1. CASE m = EndOfFile
        BY <2>1 DEF ServerReads
    <2>2. CASE m # EndOfFile /\ server[c] = "Handshake"
        BY <2>2 DEF ServerReads, ServerHandshake
    <2>3. CASE m # EndOfFile /\ server[c] # "Handshake"
        <3>1. ServerSession(c, m)
            BY <2>3 DEF ServerReads
        <3> HIDE DEF m
        <3> QED
            BY <1>2, <3>1 DEF ServerSession
    <2> QED
        BY <2>1, <2>2, <2>3
<1>5. CASE Closes
    BY <1>1, <1>5, CloseKeeps
<1>6. CASE Welcomes
    BY <1>1, <1>2, <1>3, <1>6, ReplyKeeps
<1>7. CASE Answers1
    <2>1. PICK k \in ServerFrame :
              /\ TrySend(c, <<k>>)
              /\ UNCHANGED server \/ (\E place \in {"Lobby", "Seated"} : Becoming(c, place))
        BY <1>7
    <2>2. PICK ms \in Accepted(c, <<k>>) : Reply(c, ms)
        BY <2>1 DEF TrySend
    <2>3. Parcel(ms)
        BY <1>3, <2>2, PartsOfShort
    <2> QED
        BY <1>1, <2>1, <2>2, <2>3, ReplyKeeps
<1>8. CASE Accepts
    BY <1>1, <1>8, ServerMoves DEF downstream
<1> QED
    BY <1>4, <1>5, <1>6, <1>7, <1>8

\* The server starts a hand, frees the seat of a player without chips, or ends the
\* connection.
LEMMA ServerActsKeeps ==
    ASSUME RuntimeInv, NEW c \in Conns, ServerPrompts(c) \/ ServerBusts(c) \/ ServerCloses(c)
    PROVE  RuntimeInv'
<1>1. server[c] # "None" /\ ServerOnly
    BY DEF ServerPrompts, ServerBusts, ServerCloses
<1>2. ServerPrompts(c) \/ ServerCloses(c) => pushes' \in 1 .. MaxPushes /\ pushes' \in 0 .. MaxPushes
    BY RuntimeAssumption DEF ServerPrompts, ServerCloses, RuntimeInv, RuntimeTypes
<1>3. CASE ServerPrompts(c)
    <2> DEFINE a == TableEvent(Table, HandStarted(pushes'))
               b == PromptMessage(Table, pushes', Seat, 0)
    <2>1. a \in ServerFrame /\ b \in ServerFrame
        BY <1>2, <1>3 DEF ServerFrame
    <2>2. Tells(a) = "Nothing" /\ Tells(b) = "Nothing"
        BY DEF Tells, TableEvent, PromptMessage
    <2>3. TrySend(c, <<a, b>>) /\ UNCHANGED server
        BY <1>3 DEF ServerPrompts
    <2> HIDE DEF a, b
    <2>4. PICK ms \in Accepted(c, <<a, b>>) : Reply(c, ms)
        BY <2>3 DEF TrySend
    <2>5. Parcel(ms)
        BY <2>1, <2>2, <2>4, PartsOfShort DEF Parcel
    <2>6. UNCHANGED <<core, handle, opened, inbound, pump>>
        BY <1>1 DEF ServerOnly, channels
    <2> QED
        BY <1>1, <1>2, <1>3, <2>3, <2>4, <2>5, <2>6, ReplyKeeps
<1>4. CASE ServerBusts(c)
    BY <1>1, <1>4, ServerMoves DEF ServerBusts, sockets, downstream
<1>5. CASE ServerCloses(c)
    <2>1. CloseAfter(c, <<Goodbye>>) \/ CloseAfter(c, <<>>)
        BY <1>5 DEF ServerCloses
    <2> QED
        BY <1>1, <1>2, <1>5, <2>1, CloseKeeps
<1> QED
    BY <1>3, <1>4, <1>5

-----------------------------------------------------------------------------
(* The theorems *)

\* Initially there is no connection.
LEMMA RuntimeInit == Init => RuntimeInv
<1> SUFFICES ASSUME Init PROVE RuntimeInv
    OBVIOUS
<1>1. IsCore(core) /\ core.phase = "Disconnected"
    BY ResetPhases DEF Init
<1>2. RuntimeTypes
    BY <1>1, RuntimeAssumption DEF Init, RuntimeTypes, NoHandle
<1>3. Unopened /\ FrameInHand
    BY DEF Init, Unopened, FrameInHand
<1>4. SocketSays
    BY DEF Init, SocketSays, LastSays, Telling
<1>5. EndIsReported /\ ReportsSay /\ SeatedIsConnected
    BY <1>1 DEF Init, EndIsReported, ReportsSay, Reading, SeatedIsConnected, LoggedIn
<1> QED
    BY <1>2, <1>3, <1>4, <1>5 DEF RuntimeInv

\* Every step keeps the invariant.
LEMMA RuntimeStep == RuntimeInv /\ [Next]_vars => RuntimeInv'
<1> SUFFICES ASSUME RuntimeInv, [Next]_vars PROVE RuntimeInv'
    OBVIOUS
<1>1. CASE UNCHANGED vars
    <2>1. UNCHANGED <<core, handle, opened, inbound, toClient, lastTold, pump, server, pushes>>
        BY <1>1 DEF vars, channels, sockets, downstream
    <2>2. Withdraws(core, core')
        BY <2>1 DEF Withdraws, RuntimeInv, RuntimeTypes
    <2> QED
        BY <2>1, <2>2, LoopKeeps
<1>2. CASE Connect
    BY <1>2, ConnectKeeps
<1>3. CASE Login \/ Resume \/ Join \/ Leave \/ Submit \/ Disconnect \/ ClearSession
    BY <1>3, IntentKeeps
<1>4. CASE Restart
    BY <1>4, RestartKeeps
<1>5. CASE Inbound
    BY <1>5, InboundKeeps
<1>6. ASSUME NEW c \in Conns, Pump(c) \/ PumpGarbled(c) PROVE RuntimeInv'
    BY <1>6, PumpKeeps
<1>7. ASSUME NEW c \in Conns,
             ServerReads(c) \/ ServerPrompts(c) \/ ServerBusts(c) \/ ServerCloses(c)
      PROVE  RuntimeInv'
    BY <1>7, ServerReadsKeeps, ServerActsKeeps
<1> QED
    BY <1>1, <1>2, <1>3, <1>4, <1>5, <1>6, <1>7 DEF Next

\* RuntimeInv is an invariant of the loop of runtime.rs, the pumps of native.rs and
\* the server behind the sockets.
THEOREM RuntimeInvariance == Spec => []RuntimeInv
BY RuntimeInit, RuntimeStep, PTL DEF Spec

\* A client that shows itself connecting, in the lobby or seated holds a connection:
\* whatever drops the handle in runtime.rs has told the core.
THEOREM ViewsAreConnected == Spec => []SeatedIsConnected
<1>1. RuntimeInv => SeatedIsConnected
    BY DEF RuntimeInv
<1> QED
    BY RuntimeInvariance, <1>1, PTL

\* Once everything in the server's queue has been read, a client in the lobby or
\* seated is where the last of it put it on this connection: no frame is lost, taken
\* twice or taken from a connection that was given up, however the sends cut off the
\* reads of native.rs, and whatever try_send dropped before.
THEOREM ViewsAgree == Spec => []ViewAgrees
<1>1. RuntimeInv => ViewAgrees
    <2> SUFFICES ASSUME RuntimeInv, handle # NoHandle, Quiet(handle), core.phase \in LoggedIn
                 PROVE  core.phase = lastTold[handle]
        BY DEF ViewAgrees
    <2>1. Reading /\ toClient[handle] = <<>> /\ inbound[handle] = <<>>
        BY DEF Reading, Quiet
    <2>2. Silent(Telling(<<>>)) /\ Silent(Told(<<>>))
        BY DEF Silent, Telling, Told
    <2> QED
        BY <2>1, <2>2 DEF RuntimeInv, ReportsSay
<1> QED
    BY RuntimeInvariance, <1>1, PTL
=============================================================================
