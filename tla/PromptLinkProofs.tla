-------------------------- MODULE PromptLinkProofs --------------------------
(***************************************************************************)
(* What a prompt guarantees for every number of connections and prompts,   *)
(* with logins, takeovers, leaves and closes anywhere in between: the      *)
(* action the engine receives answers the prompt it asked unless a prompt  *)
(* of the hand was answered twice, and a prompt that waits in a slot was   *)
(* sent over that connection.                                              *)
(*                                                                         *)
(* deliver_action compares hand ids only, so the argument is about where   *)
(* the prompts of the current hand are.  The responder of a prompt is in   *)
(* one place, and a connection that knows of a prompt answered over        *)
(* another one has been replaced in the link for good.                     *)
(***************************************************************************)
EXTENDS PromptLink, TLAPS

-----------------------------------------------------------------------------
(* The inductive invariant *)

Places == {"offline", "lookup", "take", "replace", "install", "reprompt",
           "reading", "deliver", "leave", "leave_take", "leave_seat",
           "leave_record", "close_record",
           "close", "close_take", "close_check", "force_leave", "closed"}

\* The session of c will not put c into the link any more.
Past(c) == session[c] \notin {"offline", "lookup", "take", "replace"}

\* A prompt of the past, or the current one.
Known(p) ==
    /\ p.n <= asked.n /\ p.hand <= asked.hand
    /\ p.n = asked.n => p = asked

\* p was answered, in the hand that is being played.
Stale(p) == p # NoPrompt /\ p.hand = asked.hand /\ (p.n < asked.n \/ channel = "answered")

\* The client of c has been told of p, or is about to be, and may answer it.
Copy(c, p) ==
    \/ p \in prompts[c]
    \/ inbox[c] = p
    \/ session[c] = "reprompt" /\ migrated[c] = p
    \/ act = "prompt" /\ conn = c /\ p = asked

\* So is the client of c, or it has answered p and may answer it again.
Told(c, p) == Copy(c, p) \/ answered[c] = p

\* reconnect_player of c has a prompt between two slots.
Moving(c) == session[c] \in {"replace", "install"}

\* Where the responder of the current prompt is.
Held(c) == pending[c] = asked
Moved(c) == Moving(c) /\ migrated[c] = asked

\* No prompt of the current hand will be put into the slot of c.
Retired(c) ==
    /\ Past(c) /\ link # c
    /\ act \in {"check", "register"} => conn # c
    /\ ~ Held(c) /\ ~ Moved(c)

\* Prompts are numbered; every one in use has been asked.
Numbered ==
    /\ asked.n = 0 <=> asked = NoPrompt
    /\ asked.hand <= asked.n /\ (asked.n > 0 => asked.hand > 0)
    /\ act # "idle" => asked.n > 0
    /\ \A c \in Conns :
        /\ Known(pending[c]) /\ Known(migrated[c]) /\ Known(inbox[c]) /\ Known(answered[c])
        /\ \A p \in prompts[c] : Known(p)
        /\ session[c] = "reprompt" => migrated[c] # NoPrompt

\* What act has returned, and what it has been sent.
Outcomes ==
    /\ outcome = "action" => act = "idle" /\ channel = "answered"
    /\ act \in {"idle", "cleanup"} /\ asked.n > 0 => outcome # "none"
    /\ channel = "answered" => /\ asked.n > 0 /\ answer.hand = asked.hand
                               /\ answer = asked \/ asked.hand \in repeats
    /\ channel = "open" => act \in {"prompt", "wait"}

\* A prompt that act has not registered yet is nowhere.
Fresh ==
    act \in {"check", "register"} =>
        \A c \in Conns : ~ Held(c) /\ migrated[c] # asked /\ ~ Told(c, asked)

\* The connections that the link, act or reconnect_player name, and those whose
\* client knows of a prompt, have their takeover behind them.
PastTakeover ==
    /\ Past(link) /\ Past(conn)
    /\ \A c \in Conns :
        /\ Past(old[c])
        /\ \A p \in Prompt : p # NoPrompt /\ Told(c, p) => Past(c)

\* The responder of the current prompt is in one place at most.
OneResponder ==
    asked.n > 0 =>
        /\ \A c, d \in Conns : Held(c) /\ Held(d) => c = d
        /\ \A c, d \in Conns : Moved(c) /\ Moved(d) => c = d
        /\ \A c, d \in Conns : ~ (Held(c) /\ Moved(d))

\* A prompt in a slot has been sent over the connection of the slot, or is next.
HolderKnows == asked.n > 0 => \A c \in Conns : Held(c) => Copy(c, asked)

\* A connection is told of the current prompt once.
ToldOnce ==
    asked.n > 0 =>
        \A c \in Conns :
            /\ asked \in prompts[c] => inbox[c] # asked /\ answered[c] # asked
            /\ asked \in prompts[c] \/ inbox[c] = asked \/ answered[c] = asked =>
                  /\ ~ (session[c] = "reprompt" /\ migrated[c] = asked)
                  /\ ~ (act = "prompt" /\ conn = c)
            /\ ~ (session[c] = "reprompt" /\ migrated[c] = asked /\ act = "prompt" /\ conn = c)
            /\ Moved(c) => ~ Told(c, asked)

\* While act waits, a connection that knows of the prompt has its responder,
\* has been replaced, or is about to be by the session that took it.
CopiesFollow ==
    channel = "open" =>
        \A c \in Conns :
            Told(c, asked) =>
                \/ Held(c)
                \/ link # c
                \/ \E d \in Conns : session[d] = "replace" /\ migrated[d] = asked /\ old[d] = c

\* A prompt that was answered in this hand has no responder, and as long as none
\* is answered twice, whoever knows of it has been replaced.
AnsweredIsOver ==
    \A c \in Conns :
        /\ ~ Stale(pending[c])
        /\ Moving(c) => ~ Stale(migrated[c])
        /\ asked.hand \notin repeats => \A p \in Prompt : Stale(p) /\ Copy(c, p) => Retired(c)

\* The inductive invariant.
PromptInv ==
    /\ TypeOK /\ Numbered /\ Outcomes /\ Fresh /\ PastTakeover
    /\ OneResponder /\ HolderKnows /\ ToldOnce /\ CopiesFollow /\ AnsweredIsOver

\* The player seated between two prompts satisfies it.
LEMMA InitPrompt == Init => PromptInv
<1> SUFFICES ASSUME Init PROVE PromptInv
    OBVIOUS
<1>1. 1 \in Conns /\ 0 \in 0 .. MaxPrompts
    BY PromptAssumption DEF Conns
<1>2. NoPrompt \in Prompt /\ NoPrompt.n = 0 /\ NoPrompt.hand = 0
    BY <1>1 DEF NoPrompt, Prompt
<1>3. TypeOK
    BY <1>1, <1>2 DEF Init, TypeOK
<1>4. Numbered /\ Outcomes /\ Fresh
    BY <1>2 DEF Init, Numbered, Known, Outcomes, Fresh
<1>5. PastTakeover
    BY <1>1 DEF Init, PastTakeover, Past, Copy, Told
<1>6. OneResponder /\ HolderKnows /\ ToldOnce /\ CopiesFollow
    BY <1>2 DEF Init, OneResponder, HolderKnows, ToldOnce, CopiesFollow
<1>7. AnsweredIsOver
    BY <1>2 DEF Init, AnsweredIsOver, Stale, Moving, Copy
<1> QED
    BY <1>3, <1>4, <1>5, <1>6, <1>7 DEF PromptInv

-----------------------------------------------------------------------------
(* Steps of a session that move no prompt *)

\* What TypeOK says of a prompt.
LEMMA PromptType ==
    /\ \A p \in Prompt : p.n \in Nat /\ p.hand \in Nat /\ p.n <= MaxPrompts
    /\ \A p, q \in Prompt : p.n = q.n /\ p.hand = q.hand => p = q
    /\ NoPrompt \in Prompt /\ NoPrompt.n = 0 /\ NoPrompt.hand = 0
BY PromptAssumption DEF Prompt, NoPrompt

\* The session of c goes from one place to another, both outside the takeover's
\* last steps, and no prompt moves.
SessionMoves(c, place) ==
    /\ c \in Conns /\ place \in Places
    /\ session' = [session EXCEPT ![c] = place]
    /\ session[c] \notin {"replace", "install", "reprompt"}
    /\ place \notin {"replace", "install", "reprompt"}
    /\ Past(c) => place \notin {"offline", "lookup", "take"}
    /\ UNCHANGED <<link, pending, engine, migrated, prompts, inbox, answered, repeats>>
    /\ old' = old \/ old' = [old EXCEPT ![c] = link]

\* Such a step keeps the invariant.
LEMMA SessionMovesInv ==
    ASSUME PromptInv, TypeOK', NEW c, NEW place, SessionMoves(c, place)
    PROVE  PromptInv'
<1> USE DEF SessionMoves, engine
<1>1. TypeOK /\ Numbered /\ Outcomes /\ Fresh /\ PastTakeover /\ OneResponder /\ HolderKnows
      /\ ToldOnce /\ CopiesFollow /\ AnsweredIsOver
    BY DEF PromptInv
<1>2. \A d \in Conns : Past(d) => Past(d)'
    BY <1>1 DEF Past, TypeOK
<1>3. \A d \in Conns : /\ Moving(d)' <=> Moving(d)
                       /\ Moved(d)' <=> Moved(d)
                       /\ Held(d)' <=> Held(d)
                       /\ session'[d] = "reprompt" <=> session[d] = "reprompt"
                       /\ session'[d] = "replace" <=> session[d] = "replace"
    BY <1>1 DEF Moving, Moved, Held, TypeOK
<1>4. \A d \in Conns : \A p : (Copy(d, p)' <=> Copy(d, p)) /\ (Told(d, p)' <=> Told(d, p))
    BY <1>3 DEF Copy, Told
<1>5. /\ \A p : Known(p)' <=> Known(p)
      /\ \A p : Stale(p)' <=> Stale(p)
    BY DEF Known, Stale
<1>6. Numbered' /\ Outcomes'
    BY <1>1, <1>5 DEF Numbered, Outcomes
<1>7. Fresh' /\ OneResponder' /\ HolderKnows' /\ ToldOnce'
    BY <1>1, <1>3, <1>4 DEF Fresh, OneResponder, HolderKnows, ToldOnce
<1>8. PastTakeover'
    <2>1. \A d \in Conns : Past(d) => session'[d] \notin {"offline", "lookup", "take", "replace"}
        BY <1>2 DEF Past
    <2>2. Past(link)' /\ Past(conn)'
        BY <1>1, <2>1 DEF PastTakeover, Past, TypeOK
    <2>3. ASSUME NEW d \in Conns PROVE Past(old[d])'
        <3>1. old'[d] = old[d] \/ old'[d] = link
            BY <1>1 DEF TypeOK
        <3>2. Past(old[d]) /\ Past(link) /\ old[d] \in Conns /\ link \in Conns
            BY <1>1 DEF PastTakeover, TypeOK
        <3> QED
            BY <2>1, <3>1, <3>2 DEF Past
    <2> QED
        BY <1>1, <1>2, <1>4, <2>2, <2>3 DEF PastTakeover
<1>9. CopiesFollow'
    BY <1>1, <1>3, <1>4 DEF CopiesFollow, TypeOK
<1>10. AnsweredIsOver'
    BY <1>1, <1>2, <1>3, <1>4, <1>5 DEF AnsweredIsOver, Retired, TypeOK
<1> QED
    BY <1>6, <1>7, <1>8, <1>9, <1>10 DEF PromptInv

\* Every step of a session that moves no prompt is such a step.
LEMMA QuietSteps ==
    ASSUME PromptInv, NEW c \in Conns,
           \/ Login(c) \/ ReconnectOld(c) \/ ReadMessage(c) \/ LeaveTable(c) \/ SocketCloses(c)
           \/ CancelStore(c) \/ LeaveSeat(c) \/ LeaveRecord(c)
           \/ CloseCheck(c) \/ CloseRecord(c) \/ ForceLeave(c)
    PROVE  PromptInv'
<1> DEFINE place == session'[c]
<1> USE DEF At, Goto, seat, engine
<1>1. TypeOK
    BY DEF PromptInv
<1>2. TypeOK'
    <2>1. /\ UNCHANGED <<link, pending, engine, migrated, prompts, inbox, answered, repeats>>
          /\ old' \in [Conns -> Conns]
        BY <1>1 DEF TypeOK, Login, ReconnectOld, ReadMessage, LeaveTable, SocketCloses, CancelStore,
                    LeaveSeat, LeaveRecord, CloseCheck, CloseRecord, ForceLeave
    <2>2. revoked' \in [Conns -> BOOLEAN] /\ departed' \in [Conns -> BOOLEAN]
        <3>1. CASE Login(c)
            BY <1>1, <3>1 DEF TypeOK, Login
        <3>2. CASE CancelStore(c)
            BY <1>1, <3>2 DEF TypeOK, CancelStore
        <3>3. CASE ~ Login(c) /\ ~ CancelStore(c)
            BY <1>1, <3>3 DEF TypeOK, ReconnectOld, ReadMessage, LeaveTable, SocketCloses,
                    LeaveSeat, LeaveRecord, CloseCheck, CloseRecord, ForceLeave
        <3> QED
            BY <3>1, <3>2, <3>3
    <2>3. member' \in BOOLEAN /\ leave_pending' \in BOOLEAN
        BY <1>1 DEF TypeOK, Login, ReconnectOld, ReadMessage, LeaveTable, SocketCloses, CancelStore,
                    LeaveSeat, LeaveRecord, CloseCheck, CloseRecord, ForceLeave
    <2>4. session' \in [Conns -> Places]
        BY <1>1 DEF TypeOK, Login, ReconnectOld, ReadMessage, LeaveTable, SocketCloses, CancelStore,
                    LeaveSeat, LeaveRecord, CloseCheck, CloseRecord, ForceLeave, Places
    <2> QED
        BY <1>1, <2>1, <2>2, <2>3, <2>4 DEF TypeOK, Places
<1>3. CASE Login(c)
    <2>1. SessionMoves(c, "lookup")
        BY <1>1, <1>3 DEF Login, SessionMoves, Places, Past, TypeOK
    <2> QED
        BY <1>2, <2>1, SessionMovesInv
<1>4. CASE ReconnectOld(c) /\ ~ member
    <2>1. SessionMoves(c, "reading")
        BY <1>1, <1>4 DEF ReconnectOld, SessionMoves, Places, Past, TypeOK
    <2> QED
        BY <1>2, <2>1, SessionMovesInv
<1>5. CASE ReconnectOld(c) /\ member
    <2>1. SessionMoves(c, "take")
        BY <1>1, <1>5 DEF ReconnectOld, SessionMoves, Places, Past, TypeOK
    <2> QED
        BY <1>2, <2>1, SessionMovesInv
<1>6. CASE ReadMessage(c) \/ LeaveTable(c) \/ SocketCloses(c) \/ CancelStore(c)
           \/ LeaveSeat(c) \/ LeaveRecord(c) \/ CloseCheck(c) \/ CloseRecord(c) \/ ForceLeave(c)
    <2>1. PICK q \in {"reading", "deliver", "leave", "leave_take", "leave_record", "close_record",
                      "close", "close_take", "force_leave", "closed"} :
             /\ session' = [session EXCEPT ![c] = q]
             /\ session[c] \notin {"replace", "install", "reprompt"}
             /\ UNCHANGED <<link, pending, engine, old, migrated, prompts, inbox, answered, repeats>>
        <3>1. CASE ReadMessage(c) \/ LeaveTable(c) \/ SocketCloses(c) \/ CancelStore(c)
            BY <1>1, <3>1 DEF TypeOK, ReadMessage, LeaveTable, SocketCloses, CancelStore
        <3>2. CASE LeaveSeat(c) \/ LeaveRecord(c) \/ CloseCheck(c) \/ CloseRecord(c) \/ ForceLeave(c)
            BY <1>1, <3>2 DEF TypeOK, LeaveSeat, LeaveRecord, CloseCheck, CloseRecord, ForceLeave
        <3> QED
            BY <1>6, <3>1, <3>2
    <2>2. SessionMoves(c, q)
        BY <2>1 DEF SessionMoves, Places
    <2> QED
        BY <1>2, <2>2, SessionMovesInv
<1> QED
    BY <1>3, <1>4, <1>5, <1>6

-----------------------------------------------------------------------------
(* Steps of act *)

\* act asks anew.  Whatever of this hand is around was answered.
LEMMA ActStartInv == ASSUME PromptInv, ActStart PROVE PromptInv'
<1> USE DEF ActStart, seat, clients
<1>1. TypeOK /\ Numbered /\ Outcomes /\ Fresh /\ PastTakeover /\ OneResponder /\ HolderKnows
      /\ ToldOnce /\ CopiesFollow /\ AnsweredIsOver
    BY DEF PromptInv
<1>2. PICK hand \in asked.hand .. (asked.hand + 1) :
        /\ asked.n = 0 => hand = 1
        /\ outcome \in {"departed", "dropped", "timeout"} => hand > asked.hand
        /\ asked' = [n |-> asked.n + 1, hand |-> hand]
    OBVIOUS
<1>3. /\ asked.n \in Nat /\ asked.hand \in Nat /\ hand \in Nat
      /\ asked'.n = asked.n + 1 /\ asked'.hand = hand /\ asked' \in Prompt
      /\ asked' # NoPrompt /\ hand > 0
    <2>1. asked.n \in Nat /\ asked.hand \in Nat /\ asked.n < MaxPrompts /\ asked.hand <= asked.n
        BY <1>1, PromptType DEF TypeOK, Numbered
    <2>2. hand \in 0 .. MaxPrompts /\ asked.n + 1 \in 0 .. MaxPrompts
        BY <1>2, <2>1, PromptAssumption
    <2>3. hand > 0
        BY <1>1, <1>2, <2>1 DEF Numbered
    <2> QED
        BY <1>2, <2>1, <2>2, <2>3, PromptType DEF Prompt
<1>4. TypeOK'
    BY <1>1, <1>3, PromptAssumption, PromptType DEF TypeOK
<1>5. \A p \in Prompt : Known(p) => Known(p)' /\ p # asked'
    BY <1>2, <1>3, PromptType DEF Known
<1>6. \A p \in Prompt : Known(p) /\ Stale(p)' => Stale(p)
    <2> SUFFICES ASSUME NEW p \in Prompt, Known(p), Stale(p)' PROVE Stale(p)
        OBVIOUS
    <2>1. p.n \in Nat /\ p.hand \in Nat /\ p # NoPrompt /\ p.hand = hand
        BY <1>3, PromptType DEF Stale
    <2>2. hand = asked.hand /\ asked.n > 0
        BY <1>1, <1>2, <1>3, <2>1 DEF Known, Numbered
    <2>3. outcome = "action"
        BY <1>1, <1>2, <1>3, <2>2 DEF Outcomes, TypeOK
    <2> QED
        BY <1>1, <2>1, <2>2, <2>3 DEF Stale, Outcomes
<1>7. \A c \in Conns : /\ Known(pending[c]) /\ Known(migrated[c]) /\ Known(inbox[c])
                       /\ Known(answered[c]) /\ answered[c] \in Prompt
                       /\ pending[c] \in Prompt /\ migrated[c] \in Prompt /\ inbox[c] \in Prompt
                       /\ \A p \in prompts[c] : Known(p) /\ p \in Prompt
    BY <1>1 DEF Numbered, TypeOK
<1>8. \A c \in Conns : /\ \A p : Copy(c, p)' => Copy(c, p) /\ Known(p) /\ p \in Prompt
                       /\ \A p : Told(c, p)' => Told(c, p) /\ Known(p) /\ p \in Prompt
                       /\ ~ Held(c)' /\ ~ Moved(c)' /\ migrated'[c] # asked' /\ ~ Told(c, asked)' /\ ~ Copy(c, asked)'
                       /\ Moving(c)' <=> Moving(c)
                       /\ Past(c)' <=> Past(c)
    BY <1>5, <1>7 DEF Copy, Told, Held, Moved, Moving, Past
<1>9. Numbered' /\ Outcomes' /\ Fresh'
    <2>1. Numbered'
        BY <1>1, <1>2, <1>3, <1>5, <1>7, PromptType DEF Numbered
    <2>2. Outcomes' /\ Fresh'
        BY <1>8 DEF Outcomes, Fresh
    <2> QED
        BY <2>1, <2>2
<1>10. PastTakeover'
    <2>1. Past(link)' /\ Past(conn)' /\ \A d \in Conns : Past(old[d])'
        BY <1>1 DEF PastTakeover, Past, TypeOK
    <2> QED
        BY <1>1, <1>8, <2>1 DEF PastTakeover
<1>11. OneResponder' /\ HolderKnows' /\ ToldOnce' /\ CopiesFollow'
    <2>1. OneResponder' /\ HolderKnows' /\ CopiesFollow'
        BY <1>8 DEF OneResponder, HolderKnows, CopiesFollow
    <2>2. ToldOnce'
        BY <1>8 DEF ToldOnce, Copy, Told
    <2> QED
        BY <2>1, <2>2
<1>12. AnsweredIsOver'
    <2> SUFFICES ASSUME NEW c \in Conns
                 PROVE  /\ ~ Stale(pending[c])'
                        /\ Moving(c)' => ~ Stale(migrated[c])'
                        /\ asked'.hand \notin repeats =>
                              \A p \in Prompt : Stale(p)' /\ Copy(c, p)' => Retired(c)'
        BY DEF AnsweredIsOver
    <2>1. ~ Stale(pending[c])'
        BY <1>1, <1>6, <1>7 DEF AnsweredIsOver, Stale
    <2>2. Moving(c)' => ~ Stale(migrated[c])'
        BY <1>1, <1>6, <1>7, <1>8 DEF AnsweredIsOver, Stale
    <2>3. ASSUME asked'.hand \notin repeats, NEW p \in Prompt, Stale(p)', Copy(c, p)'
          PROVE  Retired(c)'
        <3>1. Retired(c)
            BY <1>1, <1>6, <1>8, <2>3 DEF AnsweredIsOver, Stale
        <3> QED
            BY <1>8, <3>1 DEF Retired
    <2> QED
        BY <2>1, <2>2, <2>3
<1> QED
    BY <1>4, <1>9, <1>10, <1>11, <1>12 DEF PromptInv

\* Steps of act that move no prompt: it returns, or turns to the cleanup.
ActMoves ==
    /\ UNCHANGED <<link, pending, asked, answer, clients>>
    /\ act' \notin {"check", "prompt"} /\ act # "prompt"
    /\ act' = "register" => act = "check" /\ conn' = conn
    /\ conn' = conn \/ conn' = link
    /\ channel' = channel \/ (channel = "open" /\ channel' = "closed")

\* Such a step keeps what is said about prompts.
LEMMA ActMovesInv ==
    ASSUME PromptInv, TypeOK', Outcomes', ActMoves, asked.n > 0
    PROVE  PromptInv'
<1> USE DEF ActMoves, clients
<1>1. TypeOK /\ Numbered /\ Outcomes /\ Fresh /\ PastTakeover /\ OneResponder /\ HolderKnows
      /\ ToldOnce /\ CopiesFollow /\ AnsweredIsOver
    BY DEF PromptInv
<1>2. \A c \in Conns : /\ \A p : (Copy(c, p)' <=> Copy(c, p)) /\ (Told(c, p)' <=> Told(c, p))
                       /\ Held(c)' <=> Held(c)
                       /\ Moved(c)' <=> Moved(c)
                       /\ Moving(c)' <=> Moving(c)
                       /\ Past(c)' <=> Past(c)
    BY DEF Copy, Told, Held, Moved, Moving, Past
<1>3. \A p : Stale(p)' => Stale(p)
    BY DEF Stale
<1>4. Numbered' /\ Fresh'
    BY <1>1, <1>2 DEF Numbered, Known, Fresh
<1>5. PastTakeover'
    <2>1. Past(link)' /\ Past(conn)' /\ \A d \in Conns : Past(old[d])'
        BY <1>1 DEF PastTakeover, Past, TypeOK
    <2> QED
        BY <1>1, <1>2, <2>1 DEF PastTakeover
<1>6. OneResponder' /\ HolderKnows' /\ ToldOnce' /\ CopiesFollow'
    BY <1>1, <1>2 DEF OneResponder, HolderKnows, ToldOnce, CopiesFollow
<1>7. AnsweredIsOver'
    <2>1. \A c \in Conns : Retired(c) => Retired(c)'
        BY <1>2 DEF Retired
    <2> QED
        BY <1>1, <1>2, <1>3, <2>1 DEF AnsweredIsOver, Stale
<1> QED
    BY <1>4, <1>5, <1>6, <1>7 DEF PromptInv

\* act finds the player gone, receives the answer, or gives up waiting.
LEMMA ActReturnsInv ==
    ASSUME PromptInv, ActCheckDeparted \/ ActAnswered \/ ActElapsed \/ ActDropped
    PROVE  PromptInv'
<1> USE DEF ActCheckDeparted, ActAnswered, ActElapsed, ActDropped, seat, clients
<1>1. TypeOK /\ Numbered /\ Outcomes
    BY DEF PromptInv
<1>2. ActMoves /\ asked.n > 0
    BY <1>1 DEF ActMoves, Numbered
<1>3. TypeOK'
    BY <1>1 DEF TypeOK
<1>4. Outcomes'
    BY <1>1 DEF Outcomes
<1> QED
    BY <1>2, <1>3, <1>4, ActMovesInv

\* act registers the prompt on the connection it resolved.
LEMMA ActRegisterInv == ASSUME PromptInv, ActRegister PROVE PromptInv'
<1> USE DEF ActRegister, clients
<1>1. TypeOK /\ Numbered /\ Outcomes /\ Fresh /\ PastTakeover /\ OneResponder /\ HolderKnows
      /\ ToldOnce /\ CopiesFollow /\ AnsweredIsOver
    BY DEF PromptInv
<1>2. asked.n \in Nat /\ asked.n > 0 /\ asked # NoPrompt /\ conn \in Conns /\ asked \in Prompt
    BY <1>1, PromptType DEF TypeOK, Numbered
<1>3. TypeOK'
    BY <1>1 DEF TypeOK
<1>4. \A c \in Conns : /\ pending'[c] = IF c = conn THEN asked ELSE pending[c]
                       /\ ~ Held(c) /\ ~ Moved(c) /\ migrated[c] # asked /\ ~ Told(c, asked)
    BY <1>1 DEF Fresh, Moved, TypeOK
<1>5. \A c \in Conns : /\ \A p : /\ Copy(c, p)' <=> Copy(c, p) \/ (c = conn /\ p = asked)
                                 /\ Told(c, p)' <=> Told(c, p) \/ (c = conn /\ p = asked)
                       /\ Held(c)' <=> c = conn
                       /\ ~ Moved(c)'
                       /\ Moving(c)' <=> Moving(c)
                       /\ Past(c)' <=> Past(c)
    BY <1>4 DEF Copy, Told, Held, Moved, Moving, Past
<1>6. \A p : Stale(p)' => Stale(p) /\ p # asked
    BY <1>2 DEF Stale
<1>7. Numbered' /\ Outcomes' /\ Fresh'
    <2>1. \A p : (Known(p)' <=> Known(p)) /\ Known(asked)
        BY <1>1, PromptType DEF Known, TypeOK
    <2>2. Numbered'
        BY <1>1, <1>2, <1>4, <2>1 DEF Numbered
    <2>3. Outcomes' /\ Fresh'
        BY <1>1 DEF Outcomes, Fresh
    <2> QED
        BY <2>2, <2>3
<1>8. PastTakeover'
    <2>1. Past(link)' /\ Past(conn)' /\ \A d \in Conns : Past(old[d])'
        BY <1>1 DEF PastTakeover, Past, TypeOK
    <2> QED
        BY <1>1, <1>5, <2>1 DEF PastTakeover, Past
<1>9. OneResponder' /\ HolderKnows' /\ CopiesFollow'
    BY <1>2, <1>4, <1>5 DEF OneResponder, HolderKnows, CopiesFollow
<1>10. ToldOnce'
    <2>1. \A c \in Conns : /\ asked' \notin prompts'[c] /\ inbox'[c] # asked'
                           /\ migrated'[c] # asked' /\ answered'[c] # asked'
        BY <1>4 DEF Copy, Told
    <2> QED
        BY <1>5, <2>1 DEF ToldOnce
<1>11. AnsweredIsOver'
    <2>1. \A c \in Conns : Retired(c) => c # conn /\ Retired(c)'
        BY <1>5 DEF Retired
    <2> QED
        BY <1>1, <1>4, <1>5, <1>6, <2>1 DEF AnsweredIsOver, Stale
<1> QED
    BY <1>3, <1>7, <1>8, <1>9, <1>10, <1>11 DEF PromptInv

\* The prompt is sent over the connection it was registered on, which may have
\* lost it meanwhile.
LEMMA ActPromptInv == ASSUME PromptInv, ActPrompt PROVE PromptInv'
<1> USE DEF ActPrompt, seat
<1>1. TypeOK /\ Numbered /\ Outcomes /\ Fresh /\ PastTakeover /\ OneResponder /\ HolderKnows
      /\ ToldOnce /\ CopiesFollow /\ AnsweredIsOver
    BY DEF PromptInv
<1>2. asked.n \in Nat /\ asked.n > 0 /\ asked # NoPrompt /\ conn \in Conns /\ asked \in Prompt
    BY <1>1, PromptType DEF TypeOK, Numbered
<1>3. TypeOK'
    BY <1>1, <1>2 DEF TypeOK
<1>4. \A c \in Conns : prompts'[c] = IF c = conn THEN prompts[c] \union {asked} ELSE prompts[c]
    BY <1>1 DEF TypeOK
<1>5. \A c \in Conns : /\ \A p : (Copy(c, p)' <=> Copy(c, p)) /\ (Told(c, p)' <=> Told(c, p))
                       /\ Held(c)' <=> Held(c)
                       /\ Moved(c)' <=> Moved(c)
                       /\ Moving(c)' <=> Moving(c)
                       /\ Past(c)' <=> Past(c)
    BY <1>4 DEF Copy, Told, Held, Moved, Moving, Past
<1>6. \A p : (Stale(p)' <=> Stale(p)) /\ (Known(p)' <=> Known(p)) /\ Known(asked)
    BY <1>1, PromptType DEF Stale, Known, TypeOK
<1>7. Numbered' /\ Outcomes' /\ Fresh'
    <2>1. Numbered'
        BY <1>1, <1>4, <1>6 DEF Numbered
    <2>2. Outcomes' /\ Fresh'
        BY <1>1 DEF Outcomes, Fresh
    <2> QED
        BY <2>1, <2>2
<1>8. PastTakeover'
    <2>1. Past(link)' /\ Past(conn)' /\ \A d \in Conns : Past(old[d])'
        BY <1>1 DEF PastTakeover, Past, TypeOK
    <2> QED
        BY <1>1, <1>5, <2>1 DEF PastTakeover
<1>9. OneResponder' /\ HolderKnows' /\ CopiesFollow'
    BY <1>1, <1>5 DEF OneResponder, HolderKnows, CopiesFollow
<1>10. ToldOnce'
    <2>1. inbox[conn] # asked /\ answered[conn] # asked /\ ~ (session[conn] = "reprompt" /\ migrated[conn] = asked)
        BY <1>1, <1>2 DEF ToldOnce
    <2> QED
        BY <1>1, <1>4, <1>5, <2>1 DEF ToldOnce
<1>11. AnsweredIsOver'
    <2>1. \A c \in Conns : Retired(c) => Retired(c)'
        BY <1>5 DEF Retired
    <2> QED
        BY <1>1, <1>5, <1>6, <2>1 DEF AnsweredIsOver, Stale
<1> QED
    BY <1>3, <1>7, <1>8, <1>9, <1>10, <1>11 DEF PromptInv

-----------------------------------------------------------------------------
(* Steps that empty a slot *)

\* The slot of c is emptied and the prompt in it is not delivered: its responder,
\* if it was the current one, is dropped.
SlotEmptied(c) ==
    /\ pending' = [pending EXCEPT ![c] = NoPrompt]
    /\ channel' = channel \/ (channel = "open" /\ channel' # "answered")
    /\ channel' = "open" => ~ Held(c)
    /\ act' = act \/ (act = "cleanup" /\ act' = "idle")
    /\ \/ session' = session
       \/ /\ session[c] \in {"leave_take", "close_take"}
          /\ \E place \in {"leave_seat", "close_check"} : session' = [session EXCEPT ![c] = place]
    /\ UNCHANGED <<link, asked, conn, answer, outcome, old, migrated, prompts, inbox,
                   answered, repeats>>

\* Emptying a slot keeps the invariant.
LEMMA SlotEmptiedInv ==
    ASSUME PromptInv, TypeOK', Outcomes', NEW c \in Conns, SlotEmptied(c)
    PROVE  PromptInv'
<1> USE DEF SlotEmptied
<1>1. TypeOK /\ Numbered /\ Outcomes /\ Fresh /\ PastTakeover /\ OneResponder /\ HolderKnows
      /\ ToldOnce /\ CopiesFollow /\ AnsweredIsOver
    BY DEF PromptInv
<1>2. \A d \in Conns : /\ pending'[d] = IF d = c THEN NoPrompt ELSE pending[d]
                       /\ Past(d)' <=> Past(d)
                       /\ Moving(d)' <=> Moving(d)
                       /\ session'[d] = "reprompt" <=> session[d] = "reprompt"
                       /\ session'[d] = "replace" <=> session[d] = "replace"
    BY <1>1 DEF Past, Moving, TypeOK
<1>3. \A d \in Conns : /\ \A p : (Copy(d, p)' <=> Copy(d, p)) /\ (Told(d, p)' <=> Told(d, p))
                       /\ Moved(d)' <=> Moved(d)
                       /\ asked.n > 0 => (Held(d)' <=> Held(d) /\ d # c)
    BY <1>1, <1>2, PromptType DEF Copy, Told, Moved, Held, Numbered, TypeOK
<1>4. \A p : (Stale(p)' => Stale(p)) /\ (Known(p)' <=> Known(p)) /\ Known(NoPrompt) /\ ~ Stale(NoPrompt)
    BY <1>1, PromptType DEF Stale, Known, TypeOK, Numbered
<1>5. Numbered'
    BY <1>1, <1>2, <1>4 DEF Numbered
<1>6. Fresh'
    BY <1>1, <1>3 DEF Fresh, Numbered
<1>7. PastTakeover'
    <2>1. Past(link)' /\ Past(conn)' /\ \A d \in Conns : Past(old[d])'
        BY <1>1, <1>2 DEF PastTakeover, Past, TypeOK
    <2> QED
        BY <1>1, <1>2, <1>3, <2>1 DEF PastTakeover
<1>8. OneResponder' /\ HolderKnows' /\ ToldOnce'
    BY <1>1, <1>2, <1>3 DEF OneResponder, HolderKnows, ToldOnce
<1>9. CopiesFollow'
    BY <1>1, <1>2, <1>3 DEF CopiesFollow, Numbered, Outcomes
<1>10. AnsweredIsOver'
    <2>1. \A d \in Conns, p \in Prompt : Stale(p) /\ Retired(d) => Retired(d)'
        <3>1. ASSUME NEW p \in Prompt, Stale(p) PROVE asked.n > 0
            BY <1>1, <3>1, PromptType DEF Stale, Outcomes, TypeOK
        <3> QED
            BY <1>2, <1>3, <3>1 DEF Retired
    <2>2. \A d \in Conns : ~ Stale(pending[d])'
        BY <1>1, <1>2, <1>4 DEF AnsweredIsOver, Stale
    <2>3. \A d \in Conns : Moving(d)' => ~ Stale(migrated[d])'
        BY <1>1, <1>2, <1>4 DEF AnsweredIsOver, Stale
    <2> QED
        BY <1>1, <1>3, <1>4, <2>1, <2>2, <2>3 DEF AnsweredIsOver
<1> QED
    BY <1>5, <1>6, <1>7, <1>8, <1>9, <1>10 DEF PromptInv

\* act clears the slot of the connection that has the seat by then; a leaving or
\* closing session clears its own.
LEMMA EmptyingSteps ==
    ASSUME PromptInv, ActCleanup \/ \E c \in Conns : CancelTake(c)
    PROVE  PromptInv'
<1>1. TypeOK /\ Numbered /\ Outcomes
    BY DEF PromptInv
<1>2. CASE ActCleanup
    <2> USE <1>2 DEF ActCleanup, clients
    <2>1. TypeOK'
        BY <1>1, PromptType DEF TypeOK
    <2>2. Outcomes' /\ SlotEmptied(conn)
        BY <1>1 DEF Outcomes, SlotEmptied, Numbered
    <2> QED
        BY <1>1, <2>1, <2>2, SlotEmptiedInv DEF TypeOK
<1>3. ASSUME NEW c \in Conns, CancelTake(c) PROVE PromptInv'
    <2> USE <1>3 DEF CancelTake, Drop, At, Goto
    <2>1. TypeOK'
        BY <1>1, PromptType DEF TypeOK
    <2>2. /\ channel' = channel \/ (channel = "open" /\ channel' \in {"by_superseded", "by_departure"})
          /\ channel' = "open" => ~ Held(c)
        BY <1>1 DEF Held, Outcomes, Numbered
    <2>3. Outcomes'
        BY <1>1, <2>2 DEF Outcomes
    <2>4. SlotEmptied(c)
        BY <1>1, <2>2 DEF SlotEmptied
    <2> QED
        BY <2>1, <2>3, <2>4, SlotEmptiedInv
<1> QED
    BY <1>2, <1>3

-----------------------------------------------------------------------------
(* The takeover *)

\* reconnect_player takes the prompt off the connection it found in the link.
LEMMA TakeInv ==
    ASSUME PromptInv, NEW c \in Conns, ReconnectTake(c)
    PROVE  PromptInv'
<1> USE DEF ReconnectTake, At, Goto, engine
<1>1. TypeOK /\ Numbered /\ Outcomes /\ Fresh /\ PastTakeover /\ OneResponder /\ HolderKnows
      /\ ToldOnce /\ CopiesFollow /\ AnsweredIsOver
    BY DEF PromptInv
<1> DEFINE o == old[c]
<1>2. o \in Conns /\ Past(o) /\ ~ Past(c) /\ c # o /\ NoPrompt \in Prompt
    BY <1>1, PromptType DEF TypeOK, PastTakeover, Past
<1>3. TypeOK'
    BY <1>1, <1>2 DEF TypeOK
<1>4. \A d \in Conns : /\ pending'[d] = IF d = o THEN NoPrompt ELSE pending[d]
                       /\ migrated'[d] = IF d = c THEN pending[o] ELSE migrated[d]
                       /\ session'[d] = IF d = c THEN "replace" ELSE session[d]
    BY <1>1, <1>2 DEF TypeOK
<1> HIDE DEF o
<1>5. \A d \in Conns : /\ Past(d)' <=> Past(d)
                       /\ Moving(d)' <=> Moving(d) \/ d = c
                       /\ \A p : (Copy(d, p)' <=> Copy(d, p)) /\ (Told(d, p)' <=> Told(d, p))
    BY <1>4 DEF Past, Moving, Copy, Told
<1>6. \A d \in Conns : asked.n > 0 => /\ Held(d)' <=> Held(d) /\ d # o
                                      /\ Moved(d)' <=> (d = c /\ Held(o)) \/ (d # c /\ Moved(d))
    BY <1>1, <1>2, <1>4 DEF Held, Moved, Moving, Numbered
<1>7. ~ Moving(c) /\ ~ Moved(c)
    BY DEF Moving, Moved
<1>8. \A p : (Stale(p)' <=> Stale(p)) /\ (Known(p)' <=> Known(p)) /\ Known(NoPrompt) /\ ~ Stale(NoPrompt)
    BY <1>1, PromptType DEF Stale, Known, TypeOK, Numbered
<1>9. \A p \in Prompt : p # NoPrompt => ~ Told(c, p)
    BY <1>1, <1>2 DEF PastTakeover
<1>10. asked.n > 0 => asked \in Prompt /\ asked # NoPrompt
    BY <1>1, PromptType DEF Numbered, TypeOK
<1>11. Numbered' /\ Outcomes'
    BY <1>1, <1>2, <1>4, <1>8 DEF Numbered, Outcomes
<1>12. Fresh'
    <2>1. act \in {"check", "register"} => asked.n > 0
        BY <1>1 DEF Numbered
    <2> QED
        BY <1>1, <1>2, <1>4, <1>5, <1>6, <2>1 DEF Fresh, Held
<1>13. PastTakeover'
    <2>1. Past(link)' /\ Past(conn)' /\ \A d \in Conns : Past(old[d])'
        BY <1>1, <1>2, <1>4 DEF PastTakeover, Past, TypeOK
    <2> QED
        BY <1>1, <1>5, <2>1 DEF PastTakeover
<1>14. OneResponder'
    BY <1>1, <1>2, <1>6 DEF OneResponder
<1>15. HolderKnows'
    BY <1>1, <1>5, <1>6 DEF HolderKnows
<1>16. ToldOnce'
    BY <1>1, <1>4, <1>5, <1>6, <1>9, <1>10 DEF ToldOnce
<1>17. CopiesFollow'
    <2> SUFFICES ASSUME channel = "open", NEW d \in Conns, Told(d, asked)
                 PROVE  \/ Held(d)' \/ link # d
                        \/ \E e \in Conns : session'[e] = "replace" /\ migrated'[e] = asked /\ old[e] = d
        BY <1>5 DEF CopiesFollow
    <2>1. asked.n > 0
        BY <1>1 DEF Outcomes, Numbered
    <2>2. CASE Held(d) /\ d # o
        BY <1>6, <2>1, <2>2
    <2>3. CASE Held(d) /\ d = o
        BY <1>4, <2>3 DEF Held, o
    <2>4. CASE ~ Held(d) /\ link = d
        <3>1. PICK e \in Conns : session[e] = "replace" /\ migrated[e] = asked /\ old[e] = d
            BY <1>1, <2>4 DEF CopiesFollow
        <3>2. e # c
            BY <3>1
        <3> QED
            BY <1>4, <3>1, <3>2
    <2> QED
        BY <2>2, <2>3, <2>4
<1>18. AnsweredIsOver'
    <2>1. asked.hand \notin repeats =>
            \A d \in Conns, p \in Prompt : Stale(p) /\ Copy(d, p) => Retired(d)'
        <3> SUFFICES ASSUME asked.hand \notin repeats,
                            NEW d \in Conns, NEW p \in Prompt, Stale(p), Copy(d, p) PROVE Retired(d)'
            OBVIOUS
        <3>1. asked.n > 0 /\ p # NoPrompt
            BY <1>1, PromptType DEF Stale, Outcomes, TypeOK
        <3>2. d # c /\ Retired(d)
            BY <1>1, <1>9, <3>1 DEF AnsweredIsOver, Told
        <3> QED
            BY <1>5, <1>6, <3>1, <3>2 DEF Retired
    <2>2. \A d \in Conns : ~ Stale(pending[d])'
        BY <1>1, <1>4, <1>8 DEF AnsweredIsOver, Stale
    <2>3. \A d \in Conns : Moving(d)' => ~ Stale(migrated[d])'
        BY <1>1, <1>2, <1>4, <1>5, <1>8 DEF AnsweredIsOver, Stale
    <2> QED
        BY <1>5, <1>8, <2>1, <2>2, <2>3 DEF AnsweredIsOver
<1> QED
    BY <1>3, <1>11, <1>12, <1>13, <1>14, <1>15, <1>16, <1>17, <1>18 DEF PromptInv

\* reconnect_player puts its connection into the link: the one before is out of
\* it for good.
LEMMA ReplaceInv ==
    ASSUME PromptInv, NEW c \in Conns, ReconnectReplace(c)
    PROVE  PromptInv'
<1> USE DEF ReconnectReplace, At, Goto, engine
<1>1. TypeOK /\ Numbered /\ Outcomes /\ Fresh /\ PastTakeover /\ OneResponder /\ HolderKnows
      /\ ToldOnce /\ CopiesFollow /\ AnsweredIsOver
    BY DEF PromptInv
<1>2. TypeOK'
    BY <1>1 DEF TypeOK
<1>3. \A d \in Conns : session'[d] = IF d = c THEN "install" ELSE session[d]
    BY <1>1 DEF TypeOK
<1>4. \A d \in Conns : /\ Past(d)' <=> Past(d) \/ d = c
                       /\ Moving(d)' <=> Moving(d)
                       /\ \A p : (Copy(d, p)' <=> Copy(d, p)) /\ (Told(d, p)' <=> Told(d, p))
                       /\ Held(d)' <=> Held(d)
                       /\ Moved(d)' <=> Moved(d)
    BY <1>3 DEF Past, Moving, Copy, Told, Held, Moved
<1>5. ~ Past(c) /\ \A p \in Prompt : p # NoPrompt => ~ Told(c, p)
    BY <1>1 DEF PastTakeover, Past
<1>6. \A p : (Stale(p)' <=> Stale(p)) /\ (Known(p)' <=> Known(p))
    BY DEF Stale, Known
<1>7. Numbered' /\ Outcomes' /\ Fresh' /\ OneResponder' /\ HolderKnows'
    BY <1>1, <1>4, <1>6 DEF Numbered, Outcomes, Fresh, OneResponder, HolderKnows
<1>8. ToldOnce'
    BY <1>1, <1>3, <1>4 DEF ToldOnce
<1>9. PastTakeover'
    <2>1. Past(link)' /\ Past(conn)' /\ \A d \in Conns : Past(old[d])'
        BY <1>1, <1>3 DEF PastTakeover, Past, TypeOK
    <2> QED
        BY <1>1, <1>4, <2>1 DEF PastTakeover
<1>10. CopiesFollow'
    <2> SUFFICES ASSUME channel = "open", NEW d \in Conns, Told(d, asked) PROVE link' # d
        BY <1>4 DEF CopiesFollow
    <2>1. asked \in Prompt /\ asked # NoPrompt
        BY <1>1, PromptType DEF Outcomes, Numbered, TypeOK
    <2> QED
        BY <1>5, <2>1
<1>11. AnsweredIsOver'
    <2>1. ASSUME asked.hand \notin repeats,
                 NEW d \in Conns, NEW p \in Prompt, Stale(p), Copy(d, p)
          PROVE  Retired(d)'
        <3>1. d # c /\ Retired(d)
            BY <1>1, <1>5, <2>1 DEF AnsweredIsOver, Stale, Told
        <3> QED
            BY <1>4, <3>1 DEF Retired
    <2>2. \A d \in Conns : ~ Stale(pending[d])' /\ (Moving(d)' => ~ Stale(migrated[d])')
        BY <1>1, <1>4, <1>6 DEF AnsweredIsOver, Stale
    <2> QED
        BY <1>4, <1>6, <2>1, <2>2 DEF AnsweredIsOver
<1> QED
    BY <1>2, <1>7, <1>8, <1>9, <1>10, <1>11 DEF PromptInv

\* Nothing was taken, so nothing is installed.
LEMMA InstallNothingInv ==
    ASSUME PromptInv, NEW c \in Conns, ReconnectInstall(c), migrated[c] = NoPrompt
    PROVE  PromptInv'
<1> USE DEF ReconnectInstall, At, Goto
<1>1. TypeOK /\ Numbered /\ Outcomes /\ Fresh /\ PastTakeover /\ OneResponder /\ HolderKnows
      /\ ToldOnce /\ CopiesFollow /\ AnsweredIsOver
    BY DEF PromptInv
<1>2. TypeOK'
    BY <1>1 DEF TypeOK
<1>3. \A d \in Conns : session'[d] = IF d = c THEN "reading" ELSE session[d]
    BY <1>1 DEF TypeOK
<1>4. \A d \in Conns : /\ Past(d)' <=> Past(d)
                       /\ Moving(d)' => Moving(d)
                       /\ \A p : (Copy(d, p)' <=> Copy(d, p)) /\ (Told(d, p)' <=> Told(d, p))
                       /\ Held(d)' <=> Held(d)
                       /\ Moved(d)' => Moved(d)
    BY <1>3 DEF Past, Moving, Copy, Told, Held, Moved
<1>5. \A p : (Stale(p)' <=> Stale(p)) /\ (Known(p)' <=> Known(p))
    BY DEF Stale, Known
<1>6. Numbered' /\ Outcomes' /\ Fresh' /\ OneResponder' /\ HolderKnows'
    BY <1>1, <1>3, <1>4, <1>5 DEF Numbered, Outcomes, Fresh, OneResponder, HolderKnows
<1>7. ToldOnce'
    BY <1>1, <1>3, <1>4 DEF ToldOnce
<1>8. PastTakeover'
    <2>1. Past(link)' /\ Past(conn)' /\ \A d \in Conns : Past(old[d])'
        BY <1>1, <1>3 DEF PastTakeover, Past, TypeOK
    <2> QED
        BY <1>1, <1>4, <2>1 DEF PastTakeover
<1>9. CopiesFollow'
    <2>1. \A e \in Conns : session[e] = "replace" => session'[e] = "replace"
        BY <1>3
    <2> QED
        BY <1>1, <1>4, <2>1 DEF CopiesFollow
<1>10. AnsweredIsOver'
    <2>1. \A d \in Conns : Retired(d) => Retired(d)'
        BY <1>4 DEF Retired
    <2>2. \A d \in Conns : ~ Stale(pending[d])' /\ (Moving(d)' => ~ Stale(migrated[d])')
        BY <1>1, <1>4, <1>5 DEF AnsweredIsOver, Stale
    <2> QED
        BY <1>1, <1>4, <1>5, <2>1, <2>2 DEF AnsweredIsOver
<1> QED
    BY <1>2, <1>6, <1>7, <1>8, <1>9, <1>10 DEF PromptInv

\* The prompt is installed in the slot of the new connection; one that act has
\* registered there meanwhile is dropped.
LEMMA InstallPromptInv ==
    ASSUME PromptInv, NEW c \in Conns, ReconnectInstall(c), migrated[c] # NoPrompt
    PROVE  PromptInv'
<1> USE DEF ReconnectInstall, At, Goto, Drop
<1>1. TypeOK /\ Numbered /\ Outcomes /\ Fresh /\ PastTakeover /\ OneResponder /\ HolderKnows
      /\ ToldOnce /\ CopiesFollow /\ AnsweredIsOver
    BY DEF PromptInv
<1>2. TypeOK'
    BY <1>1 DEF TypeOK
<1>3. \A d \in Conns : /\ session'[d] = IF d = c THEN "reprompt" ELSE session[d]
                       /\ pending'[d] = IF d = c THEN migrated[c] ELSE pending[d]
    BY <1>1 DEF TypeOK
<1>4. \A d \in Conns : /\ Past(d)' <=> Past(d)
                       /\ Moving(d)' <=> Moving(d) /\ d # c
                       /\ \A p : /\ Copy(d, p)' <=> Copy(d, p) \/ (d = c /\ p = migrated[c])
                                 /\ Told(d, p)' <=> Told(d, p) \/ (d = c /\ p = migrated[c])
                       /\ Held(d)' <=> (d # c /\ Held(d)) \/ (d = c /\ Moved(c))
                       /\ Moved(d)' <=> Moved(d) /\ d # c
    BY <1>3 DEF Past, Moving, Copy, Told, Held, Moved
<1>5. /\ channel' = channel \/ (channel = "open" /\ channel' = "by_overwrite")
      /\ asked.n > 0 /\ channel' = "open" => ~ Held(c)
    BY <1>1 DEF Held, Numbered
<1>6. \A p : (Stale(p)' <=> Stale(p)) /\ (Known(p)' <=> Known(p))
    BY <1>5 DEF Stale, Known
<1>7. Moving(c) /\ Past(c) /\ (Moved(c) <=> migrated[c] = asked) /\ migrated[c] \in Prompt
    BY <1>1 DEF Moving, Moved, Past, TypeOK
<1>8. Numbered' /\ Outcomes'
    BY <1>1, <1>3, <1>5, <1>6 DEF Numbered, Outcomes
<1>9. Fresh' /\ OneResponder' /\ HolderKnows'
    BY <1>1, <1>4, <1>7 DEF Fresh, OneResponder, HolderKnows
<1>10. ToldOnce'
    <2>1. asked.n > 0 /\ migrated[c] = asked => ~ Told(c, asked)
        BY <1>1, <1>7 DEF ToldOnce
    <2> QED
        BY <1>1, <1>3, <1>4, <1>7, <2>1 DEF ToldOnce, Copy, Told
<1>11. PastTakeover'
    <2>1. Past(link)' /\ Past(conn)' /\ \A d \in Conns : Past(old[d])'
        BY <1>1, <1>3 DEF PastTakeover, Past, TypeOK
    <2> QED
        BY <1>1, <1>4, <1>7, <2>1 DEF PastTakeover
<1>12. CopiesFollow'
    <2> SUFFICES ASSUME channel' = "open", NEW d \in Conns, Told(d, asked)'
                 PROVE  \/ Held(d)' \/ link # d
                        \/ \E e \in Conns : session'[e] = "replace" /\ migrated[e] = asked /\ old[e] = d
        BY DEF CopiesFollow
    <2>1. channel = "open" /\ ~ Held(c)
        BY <1>1, <1>5 DEF Outcomes, Numbered
    <2>2. CASE d = c /\ migrated[c] = asked
        BY <1>4, <1>7, <2>2
    <2>3. CASE Told(d, asked)
        <3>1. \/ Held(d) \/ link # d
              \/ \E e \in Conns : session[e] = "replace" /\ migrated[e] = asked /\ old[e] = d
            BY <1>1, <2>1, <2>3 DEF CopiesFollow
        <3> QED
            BY <1>3, <1>4, <2>1, <3>1
    <2> QED
        BY <1>4, <2>2, <2>3
<1>13. AnsweredIsOver'
    <2>1. ~ Stale(migrated[c])
        BY <1>1, <1>7 DEF AnsweredIsOver
    <2>2. \A d \in Conns : Retired(d) => Retired(d)'
        BY <1>4, <1>7 DEF Retired
    <2>3. \A d \in Conns : ~ Stale(pending[d])' /\ (Moving(d)' => ~ Stale(migrated[d])')
        BY <1>1, <1>3, <1>4, <1>6, <2>1 DEF AnsweredIsOver, Stale
    <2> QED
        BY <1>1, <1>4, <1>6, <2>1, <2>2, <2>3 DEF AnsweredIsOver
<1> QED
    BY <1>2, <1>8, <1>9, <1>10, <1>11, <1>12, <1>13 DEF PromptInv

-----------------------------------------------------------------------------
(* Prompts sent and answered *)

\* A prompt goes from one stage of the way to the client's answer to the next,
\* or the client is done with it: it is sent again, or it is answered.
Forwarded(c) ==
    /\ \/ /\ session' = session
       \/ /\ session[c] = "reprompt" /\ session' = [session EXCEPT ![c] = "reading"]
    /\ UNCHANGED <<seat, engine, old, migrated>>
    /\ repeats \subseteq repeats'
    /\ \A d \in Conns, p \in Prompt : p # NoPrompt /\ Told(d, p)' => Told(d, p)
    /\ \A d \in Conns : asked.n > 0 /\ Held(d) /\ Copy(d, asked) => Copy(d, asked)'
    /\ asked.hand \notin repeats' =>
          \A d \in Conns, p \in Prompt : Stale(p) /\ Copy(d, p)' => Copy(d, p)

\* Such a step keeps the invariant.
LEMMA ForwardedInv ==
    ASSUME PromptInv, TypeOK', ToldOnce', NEW c \in Conns, Forwarded(c),
           \A d \in Conns : Known(inbox'[d]) /\ Known(answered'[d]) /\ \A p \in prompts'[d] : Known(p)
    PROVE  PromptInv'
<1> USE DEF Forwarded, seat, engine
<1>1. TypeOK /\ Numbered /\ Outcomes /\ Fresh /\ PastTakeover /\ OneResponder /\ HolderKnows
      /\ ToldOnce /\ CopiesFollow /\ AnsweredIsOver
    BY DEF PromptInv
<1>2. \A d \in Conns : /\ session'[d] = "replace" <=> session[d] = "replace"
                       /\ session'[d] = "reprompt" => session[d] = "reprompt"
                       /\ Past(d)' <=> Past(d)
                       /\ Moving(d)' <=> Moving(d)
                       /\ Held(d)' <=> Held(d)
                       /\ Moved(d)' <=> Moved(d)
    BY <1>1 DEF Past, Moving, Held, Moved, TypeOK
<1>3. \A p : (Stale(p)' <=> Stale(p)) /\ (Known(p)' <=> Known(p)) /\ (Stale(p) => p # NoPrompt)
    BY DEF Stale, Known
<1>4. asked.n > 0 => asked \in Prompt /\ asked # NoPrompt
    BY <1>1, PromptType DEF Numbered, TypeOK
<1>5. \A d \in Conns : asked.n > 0 => /\ Told(d, asked)' => Told(d, asked)
                                      /\ Held(d) /\ Copy(d, asked) => Copy(d, asked)'
    BY <1>4
<1>6. Numbered' /\ Outcomes'
    BY <1>1, <1>2, <1>3 DEF Numbered, Outcomes
<1>7. Fresh' /\ OneResponder' /\ HolderKnows'
    BY <1>1, <1>2, <1>5 DEF Fresh, OneResponder, HolderKnows, Numbered
<1>8. PastTakeover'
    <2>1. Past(link)' /\ Past(conn)' /\ \A d \in Conns : Past(old[d])'
        BY <1>1, <1>2 DEF PastTakeover, Past, TypeOK
    <2> QED
        BY <1>1, <1>2, <2>1 DEF PastTakeover
<1>9. CopiesFollow'
    BY <1>1, <1>2, <1>5 DEF CopiesFollow, Outcomes, Numbered
<1>10. AnsweredIsOver'
    <2>1. \A d \in Conns : Retired(d) => Retired(d)'
        BY <1>2 DEF Retired
    <2>2. \A d \in Conns : ~ Stale(pending[d])' /\ (Moving(d)' => ~ Stale(migrated[d])')
        BY <1>1, <1>2, <1>3 DEF AnsweredIsOver, Stale
    <2> QED
        BY <1>1, <1>3, <2>1, <2>2 DEF AnsweredIsOver
<1> QED
    BY <1>6, <1>7, <1>8, <1>9, <1>10 DEF PromptInv

\* reconnect_player sends the prompt again; the client answers one it has.
LEMMA ForwardingSteps ==
    ASSUME PromptInv, NEW c \in Conns,
           ReconnectReprompt(c) \/ Submit(c) \/ Resubmit(c)
    PROVE  PromptInv'
<1>1. TypeOK /\ Numbered /\ ToldOnce
    BY DEF PromptInv
<1>2. asked.n > 0 => asked \in Prompt /\ asked # NoPrompt
    BY <1>1, PromptType DEF Numbered, TypeOK
<1>3. CASE ReconnectReprompt(c)
    <2> USE <1>3 DEF ReconnectReprompt, At, Goto, seat, engine
    <2>1. migrated[c] \in Prompt /\ migrated[c] # NoPrompt /\ Known(migrated[c])
        BY <1>1 DEF Numbered, TypeOK
    <2>2. TypeOK'
        BY <1>1, <2>1 DEF TypeOK
    <2>3. \A d \in Conns :
            /\ session'[d] = IF d = c THEN "reading" ELSE session[d]
            /\ prompts'[d] = IF d = c THEN prompts[d] \union {migrated[c]} ELSE prompts[d]
        BY <1>1 DEF TypeOK
    <2>4. \A d \in Conns, p \in Prompt : (Copy(d, p)' <=> Copy(d, p)) /\ (Told(d, p)' <=> Told(d, p))
        BY <2>3 DEF Copy, Told
    <2>5. ToldOnce'
        <3>1. \A d \in Conns : Moved(d)' <=> Moved(d)
            BY <2>3 DEF Moved, Moving
        <3> QED
            BY <1>1, <1>2, <2>3, <2>4, <3>1 DEF ToldOnce, Copy, Told
    <2>6. \A d \in Conns : Known(inbox'[d]) /\ Known(answered'[d]) /\ \A p \in prompts'[d] : Known(p)
        BY <1>1, <2>1, <2>3 DEF Numbered
    <2>7. Forwarded(c)
        <3>1. \A d \in Conns : asked.n > 0 /\ Held(d) /\ Copy(d, asked) => Copy(d, asked)'
            BY <2>3 DEF Copy
        <3> QED
            BY <2>4, <3>1 DEF Forwarded
    <2> QED
        BY <2>2, <2>5, <2>6, <2>7, ForwardedInv
<1>4. CASE Submit(c)
    <2> USE DEF seat, engine
    <2>1. PICK p \in prompts[c] :
            /\ inbox' = [inbox EXCEPT ![c] = p]
            /\ answered' = [answered EXCEPT ![c] = p]
            /\ prompts' = [prompts EXCEPT ![c] = {q \in @ : q.n > p.n}]
            /\ inbox[c] = NoPrompt
            /\ UNCHANGED <<seat, engine, session, old, migrated, repeats>>
        BY <1>4 DEF Submit
    <2>2. p \in Prompt /\ p # NoPrompt /\ Known(p) /\ p.n \in Nat
        BY <1>1, PromptType DEF TypeOK, Numbered
    <2>3. \A d \in Conns :
            /\ inbox'[d] = IF d = c THEN p ELSE inbox[d]
            /\ answered'[d] = IF d = c THEN p ELSE answered[d]
            /\ prompts'[d] = IF d = c THEN {q \in prompts[d] : q.n > p.n} ELSE prompts[d]
        BY <1>1, <2>1 DEF TypeOK
    <2>4. TypeOK'
        <3>1. /\ inbox' \in [Conns -> Prompt] /\ answered' \in [Conns -> Prompt]
              /\ prompts' \in [Conns -> SUBSET (Prompt \ {NoPrompt})]
            BY <1>1, <2>1, <2>2 DEF TypeOK
        <3> QED
            BY <1>1, <2>1, <3>1 DEF TypeOK
    <2>5. /\ \A d \in Conns, q \in Prompt : q # NoPrompt /\ Copy(d, q)' => Copy(d, q)
          /\ \A d \in Conns, q \in Prompt : q # NoPrompt /\ Told(d, q)' => Told(d, q)
        BY <2>1, <2>2, <2>3 DEF Copy, Told
    <2>6. \A d \in Conns : asked.n > 0 =>
            /\ asked \in prompts'[d] => asked \in prompts[d] /\ inbox'[d] # asked /\ answered'[d] # asked
            /\ inbox'[d] = asked => inbox[d] = asked \/ asked \in prompts[d]
            /\ answered'[d] = asked => answered[d] = asked \/ asked \in prompts[d]
        <3> SUFFICES ASSUME NEW d \in Conns, asked.n > 0
                     PROVE  /\ asked \in prompts'[d] => /\ asked \in prompts[d]
                                                       /\ inbox'[d] # asked /\ answered'[d] # asked
                            /\ inbox'[d] = asked => inbox[d] = asked \/ asked \in prompts[d]
                            /\ answered'[d] = asked => answered[d] = asked \/ asked \in prompts[d]
            OBVIOUS
        <3>1. asked.n \in Nat
            BY <1>2, PromptType
        <3>2. CASE d = c
            <4>1. inbox'[d] = p /\ answered'[d] = p /\ prompts'[d] = {q \in prompts[d] : q.n > p.n}
                BY <2>3, <3>2
            <4> QED
                BY <2>2, <3>1, <3>2, <4>1
        <3>3. CASE d # c
            BY <1>1, <2>3, <3>3 DEF ToldOnce
        <3> QED
            BY <3>2, <3>3
    <2>7. \A d \in Conns : Moved(d)' <=> Moved(d)
        BY <2>1 DEF Moved, Moving
    <2>8. ToldOnce'
        <3> HIDE DEF Moved, Told
        <3>1. UNCHANGED <<asked, act, conn, session, migrated>>
            BY <2>1
        <3>2. \A d \in Conns : asked.n > 0 => (Told(d, asked)' => Told(d, asked))
            BY <1>2, <2>1, <2>2, <2>3 DEF Told, Copy
        <3> QED
            BY <1>1, <2>6, <2>7, <3>1, <3>2 DEF ToldOnce
    <2>9. \A d \in Conns : Known(inbox'[d]) /\ Known(answered'[d]) /\ \A q \in prompts'[d] : Known(q)
        BY <1>1, <2>2, <2>3 DEF Numbered
    <2>10. \A d \in Conns : asked.n > 0 /\ Held(d) /\ Copy(d, asked) => Copy(d, asked)'
        <3> SUFFICES ASSUME NEW d \in Conns, asked.n > 0, Copy(d, asked) PROVE Copy(d, asked)'
            OBVIOUS
        <3>1. asked \in Prompt /\ asked # NoPrompt /\ p.n <= asked.n /\ asked.n \in Nat
            BY <1>2, <2>2, PromptType DEF Known
        <3>2. asked \in prompts[c] => asked \in prompts'[c] \/ inbox'[c] = asked
            <4>1. prompts'[c] = {q \in prompts[c] : q.n > p.n} /\ inbox'[c] = p
                BY <2>3
            <4>2. p.n < asked.n \/ p = asked
                BY <2>2, <3>1 DEF Known
            <4> QED
                BY <4>1, <4>2
        <3> QED
            BY <2>1, <2>3, <3>1, <3>2 DEF Copy
    <2>11. Forwarded(c)
        BY <2>1, <2>5, <2>10 DEF Forwarded, Stale
    <2> QED
        BY <2>4, <2>8, <2>9, <2>11, ForwardedInv
<1>5. CASE Resubmit(c)
    <2> USE <1>5 DEF Resubmit, seat, engine
    <2> DEFINE p == answered[c]
    <2>1. p \in Prompt /\ p # NoPrompt /\ Known(p) /\ inbox[c] = NoPrompt /\ p.hand \in 0 .. MaxPrompts
        BY <1>1 DEF TypeOK, Numbered, Prompt
    <2>2. TypeOK'
        BY <1>1, <2>1 DEF TypeOK
    <2>3. \A d \in Conns : inbox'[d] = IF d = c THEN p ELSE inbox[d]
        BY <1>1 DEF TypeOK
    <2>4. /\ \A d \in Conns, q \in Prompt : q # NoPrompt => (Told(d, q)' => Told(d, q))
          /\ \A d \in Conns : \A q : Copy(d, q)' => Copy(d, q) \/ (d = c /\ q = p)
        BY <2>3 DEF Copy, Told
    <2>5. ToldOnce'
        <3>1. \A d \in Conns : Moved(d)' <=> Moved(d)
            BY DEF Moved, Moving
        <3> QED
            BY <1>1, <1>2, <2>3, <2>4, <3>1 DEF ToldOnce
    <2>6. \A d \in Conns : Known(inbox'[d]) /\ Known(answered'[d]) /\ \A q \in prompts'[d] : Known(q)
        BY <1>1, <2>1, <2>3 DEF Numbered
    <2>7. \A d \in Conns : asked.n > 0 /\ Held(d) /\ Copy(d, asked) => Copy(d, asked)'
        BY <1>2, <2>1, <2>3 DEF Copy
    <2>8. asked.hand \notin repeats' => \A d \in Conns, q \in Prompt : Stale(q) /\ Copy(d, q)' => Copy(d, q)
        BY <2>4 DEF Stale
    <2>9. Forwarded(c)
        BY <2>4, <2>7, <2>8 DEF Forwarded
    <2> QED
        BY <2>2, <2>5, <2>6, <2>9, ForwardedInv
<1> QED
    BY <1>3, <1>4, <1>5

\* What delivering a message does to what the clients know.
LEMMA DeliverCopies ==
    ASSUME PromptInv, NEW c \in Conns, DeliverAction(c)
    PROVE  /\ TypeOK'
           /\ \A d \in Conns :
                /\ inbox'[d] = IF d = c THEN NoPrompt ELSE inbox[d]
                /\ session'[d] = IF d = c THEN "reading" ELSE session[d]
                /\ Past(d)' <=> Past(d)
                /\ Moving(d)' <=> Moving(d)
                /\ Moved(d)' <=> Moved(d)
                /\ \A p \in Prompt : p # NoPrompt /\ Copy(d, p)' => Copy(d, p)
                /\ \A p \in Prompt : p # NoPrompt /\ Told(d, p)' => Told(d, p)
                /\ \A p \in Prompt : Copy(d, p) /\ (d = c => inbox[c] # p) => Copy(d, p)'
           /\ asked.n > 0 => asked \in Prompt /\ asked # NoPrompt
           /\ \A p : (Known(p)' <=> Known(p)) /\ Known(NoPrompt)
           /\ PastTakeover'
<1> USE DEF DeliverAction, At, Goto
<1>1. TypeOK /\ Numbered /\ PastTakeover
    BY DEF PromptInv
<1>2. TypeOK'
    <2>1. NoPrompt \in Prompt /\ inbox[c] \in Prompt /\ inbox[c].n \in 0 .. MaxPrompts
        BY <1>1, PromptType, PromptAssumption DEF TypeOK, Prompt
    <2> QED
        BY <1>1, <2>1 DEF TypeOK
<1>3. \A d \in Conns : /\ inbox'[d] = IF d = c THEN NoPrompt ELSE inbox[d]
                       /\ session'[d] = IF d = c THEN "reading" ELSE session[d]
    BY <1>1 DEF TypeOK
<1>4. \A d \in Conns : /\ Past(d)' <=> Past(d)
                       /\ Moving(d)' <=> Moving(d)
                       /\ Moved(d)' <=> Moved(d)
                       /\ \A p \in Prompt : p # NoPrompt /\ Copy(d, p)' => Copy(d, p)
                       /\ \A p \in Prompt : p # NoPrompt /\ Told(d, p)' => Told(d, p)
                       /\ \A p \in Prompt : Copy(d, p) /\ (d = c => inbox[c] # p) => Copy(d, p)'
    BY <1>3 DEF Past, Moving, Moved, Copy, Told
<1>5. asked.n > 0 => asked \in Prompt /\ asked # NoPrompt
    BY <1>1, PromptType DEF Numbered, TypeOK
<1>6. \A p : (Known(p)' <=> Known(p)) /\ Known(NoPrompt)
    BY <1>1, PromptType DEF Known, Numbered, TypeOK
<1>7. PastTakeover'
    <2>1. Past(link)' /\ Past(conn)' /\ \A d \in Conns : Past(old[d])'
        BY <1>1, <1>3 DEF PastTakeover, Past, TypeOK
    <2> QED
        BY <1>1, <1>4, <2>1 DEF PastTakeover
<1> QED
    BY <1>2, <1>3, <1>4, <1>5, <1>6, <1>7

\* The message answers the prompt act waits for.
AnswersAct(c) == Matches(pending[c], inbox[c]) /\ pending[c] = asked /\ channel = "open"

\* An action that reaches act answers its prompt, and from then on nobody who
\* knows of the prompt can answer another one of this hand, if none of the hand's
\* prompts is answered twice.
LEMMA AnswerInv ==
    ASSUME PromptInv, NEW c \in Conns, DeliverAction(c), AnswersAct(c)
    PROVE  PromptInv'
<1> USE DEF DeliverAction, AnswersAct, Matches
<1>1. TypeOK /\ Numbered /\ Outcomes /\ Fresh /\ PastTakeover /\ OneResponder /\ HolderKnows
      /\ ToldOnce /\ CopiesFollow /\ AnsweredIsOver
    BY DEF PromptInv
<1>2. asked.n > 0 /\ asked \in Prompt /\ asked # NoPrompt /\ Held(c) /\ asked.hand > 0
      /\ act \in {"prompt", "wait"} /\ channel = "open"
    BY <1>1, DeliverCopies DEF Held, Numbered, Outcomes
<1>3. /\ inbox[c].hand = asked.hand /\ inbox[c] \in Prompt
      /\ asked.hand \notin repeats => inbox[c] = asked
    <2>0. inbox[c].hand = asked.hand /\ inbox[c] \in Prompt
        BY <1>1 DEF TypeOK
    <2> SUFFICES ASSUME asked.hand \notin repeats PROVE inbox[c] = asked
        BY <2>0
    <2>1. inbox[c] \in Prompt /\ Known(inbox[c]) /\ inbox[c] # NoPrompt /\ Copy(c, inbox[c])
        BY <1>1, <1>2, PromptType DEF TypeOK, Numbered, Copy
    <2>2. inbox[c].n < asked.n => Stale(inbox[c])
        BY <2>1 DEF Stale
    <2>3. inbox[c].n < asked.n => Retired(c)
        BY <1>1, <2>1, <2>2 DEF AnsweredIsOver
    <2>4. ~ (inbox[c].n < asked.n)
        BY <1>2, <2>3 DEF Retired
    <2> QED
        BY <1>2, <2>1, <2>4, PromptType DEF Known
<1>4. channel' = "answered" /\ answer' = inbox[c]
      /\ UNCHANGED <<link, act, asked, conn, outcome, old, migrated, prompts, answered, repeats>>
    OBVIOUS
<1>5. \A d \in Conns : /\ pending'[d] = IF d = c THEN NoPrompt ELSE pending[d]
                       /\ ~ Held(d)' /\ ~ Moved(d) /\ ~ Moved(d)'
                       /\ d # c => ~ Held(d)
    <2>1. \A d \in Conns : pending'[d] = IF d = c THEN NoPrompt ELSE pending[d]
        BY <1>1 DEF TypeOK
    <2>2. \A d \in Conns : ~ Moved(d) /\ (d # c => ~ Held(d))
        BY <1>1, <1>2 DEF OneResponder
    <2> QED
        BY <1>2, <1>4, <2>1, <2>2, DeliverCopies DEF Held
<1>0. \A d \in Conns : /\ inbox'[d] = IF d = c THEN NoPrompt ELSE inbox[d]
                       /\ session'[d] = IF d = c THEN "reading" ELSE session[d]
                       /\ Known(pending[d]) /\ Known(inbox[d]) /\ Known(migrated[d]) /\ Known(answered[d])
                       /\ \A p \in prompts[d] : Known(p)
                       /\ session[d] = "reprompt" => migrated[d] # NoPrompt
    BY <1>1, DeliverCopies, ZenonT(40) DEF Numbered
<1> HIDE DEF DeliverAction, AnswersAct, Matches
<1>6. /\ asked.hand \notin repeats => ~ Copy(c, asked)'
      /\ \A d \in Conns, p \in Prompt : p # NoPrompt /\ Copy(d, p)' => Copy(d, p)
    <2>1. asked.hand \notin repeats => asked \notin prompts[c] /\ ~ (act = "prompt" /\ conn = c)
        BY <1>1, <1>2, <1>3 DEF ToldOnce
    <2>2. asked.hand \notin repeats => ~ Copy(c, asked)'
        BY <1>2, <1>4, <1>0, <2>1 DEF Copy
    <2> QED
        BY <2>2, DeliverCopies
<1>7. \A p \in Prompt : Known(p) /\ Stale(p)' => Stale(p) \/ p = asked
    <2> SUFFICES ASSUME NEW p \in Prompt, Known(p), Stale(p)', p # asked PROVE Stale(p)
        OBVIOUS
    <2>1. p.n # asked.n /\ p.n <= asked.n
        BY DEF Known
    <2>2. p.n \in Nat /\ asked.n \in Nat
        BY <1>2, PromptType
    <2>3. p.n < asked.n
        BY <2>1, <2>2
    <2> QED
        BY <1>4, <2>3 DEF Stale
<1>8. Numbered' /\ Outcomes' /\ Fresh'
    <2>1. \A p : Known(p)' <=> Known(p)
        BY <1>4 DEF Known
    <2>2. Known(NoPrompt)
        BY DeliverCopies
    <2>3. \A d \in Conns :
            /\ Known(pending[d])' /\ Known(migrated[d])' /\ Known(inbox[d])' /\ Known(answered[d])'
            /\ \A p \in prompts'[d] : Known(p)'
            /\ session'[d] = "reprompt" => migrated'[d] # NoPrompt
        BY <1>4, <1>5, <1>0, <2>2 DEF Known
    <2>4. Numbered'
        BY <1>1, <1>4, <2>3 DEF Numbered
    <2>5. Outcomes' /\ Fresh'
        BY <1>1, <1>2, <1>3, <1>4 DEF Outcomes, Fresh
    <2> QED
        BY <2>4, <2>5
<1>9. OneResponder' /\ HolderKnows' /\ CopiesFollow'
    BY <1>4, <1>5 DEF OneResponder, HolderKnows, CopiesFollow
<1>10. ToldOnce'
    BY <1>1, <1>2, <1>4, <1>5, <1>0 DEF ToldOnce
<1>11. AnsweredIsOver'
    <2>1. \A d \in Conns : ~ Stale(pending[d])'
        <3> SUFFICES ASSUME NEW d \in Conns, Stale(pending[d])' PROVE FALSE
            OBVIOUS
        <3>1. pending'[d] \in Prompt /\ Known(pending'[d]) /\ pending'[d] # NoPrompt
            BY <1>1, <1>5, DeliverCopies DEF Numbered, TypeOK, Stale
        <3>2. d # c /\ pending'[d] = pending[d] /\ pending[d] # asked
            BY <1>5, <3>1 DEF Held
        <3> QED
            BY <1>1, <1>7, <3>1, <3>2 DEF AnsweredIsOver, Stale
    <2>2. \A d \in Conns : Moving(d)' => ~ Stale(migrated[d])'
        <3> SUFFICES ASSUME NEW d \in Conns, Moving(d)', Stale(migrated[d])' PROVE FALSE
            OBVIOUS
        <3>1. Moving(d) /\ migrated[d] \in Prompt /\ Known(migrated[d]) /\ migrated[d] # asked
            BY <1>1, <1>5, DeliverCopies DEF Numbered, TypeOK, Moved
        <3> QED
            BY <1>1, <1>4, <1>7, <3>1 DEF AnsweredIsOver, Stale
    <2>3. ASSUME asked.hand \notin repeats,
                 NEW d \in Conns, NEW p \in Prompt, Stale(p)', Copy(d, p)'
          PROVE  Retired(d)'
        <3>0. p # NoPrompt /\ Copy(d, p)
            BY <1>6, <2>3 DEF Stale
        <3>1. p # NoPrompt /\ Copy(d, p) /\ Known(p)
            BY <1>0, <1>2, <3>0, PromptType DEF Copy, Known
        <3>2. CASE Stale(p)
            BY <1>1, <1>4, <1>5, <2>3, <3>1, <3>2, DeliverCopies DEF AnsweredIsOver, Retired
        <3>3. CASE p = asked
            <4>1. d # c
                BY <1>4, <1>6, <2>3, <3>3 DEF Copy
            <4>2. \A e \in Conns : ~ (session[e] = "replace" /\ migrated[e] = asked)
                BY <1>5 DEF Moved, Moving
            <4>3. link # d /\ Past(d)
                BY <1>1, <1>2, <1>5, <3>1, <3>3, <4>1, <4>2 DEF CopiesFollow, PastTakeover, Told
            <4> QED
                BY <1>2, <1>4, <1>5, <4>3, DeliverCopies DEF Retired
        <3> QED
            BY <1>7, <2>3, <3>1, <3>2, <3>3
    <2> QED
        BY <1>4, <2>1, <2>2, <2>3 DEF AnsweredIsOver
<1> QED
    BY <1>8, <1>9, <1>10, <1>11, DeliverCopies DEF PromptInv

\* Any other message is discarded, with the responder of an earlier call at most.
LEMMA DiscardInv ==
    ASSUME PromptInv, NEW c \in Conns, DeliverAction(c), ~ AnswersAct(c)
    PROVE  PromptInv'
<1> USE DEF DeliverAction, AnswersAct
<1>1. TypeOK /\ Numbered /\ Outcomes /\ Fresh /\ PastTakeover /\ OneResponder /\ HolderKnows
      /\ ToldOnce /\ CopiesFollow /\ AnsweredIsOver
    BY DEF PromptInv
<1>2. UNCHANGED <<link, act, asked, conn, channel, answer, outcome, old, migrated, prompts,
                  answered, repeats>>
    OBVIOUS
<1>3. \A d \in Conns : pending'[d] = pending[d] \/ pending'[d] = NoPrompt
    BY <1>1 DEF TypeOK
<1>4. pending'[c] # pending[c] => ~ (pending[c] = asked /\ channel = "open")
    OBVIOUS
<1>5. \A d \in Conns \ {c} : pending'[d] = pending[d]
    BY <1>1 DEF TypeOK
<1>6. pending[c] # NoPrompt /\ pending[c] = inbox[c] => pending'[c] = NoPrompt
    BY <1>1 DEF TypeOK, Matches
<1>7. session[c] = "deliver"
    BY DEF At
<1> HIDE DEF DeliverAction, AnswersAct
<1>8. asked.n > 0 => asked \in Prompt /\ asked # NoPrompt
    BY DeliverCopies
<1>9. \A d \in Conns : asked.n > 0 /\ Held(d)' => Held(d)
    BY <1>2, <1>3, <1>8 DEF Held
<1>10. \A d \in Conns : /\ inbox'[d] = IF d = c THEN NoPrompt ELSE inbox[d]
                        /\ session'[d] = IF d = c THEN "reading" ELSE session[d]
                        /\ Known(pending[d]) /\ Known(inbox[d]) /\ Known(migrated[d]) /\ Known(answered[d])
                        /\ \A p \in prompts[d] : Known(p)
                        /\ session[d] = "reprompt" => migrated[d] # NoPrompt
    BY <1>1, DeliverCopies DEF Numbered
<1>11. \A p : Stale(p)' <=> Stale(p)
    BY <1>2 DEF Stale
<1>12. Numbered' /\ Outcomes' /\ Fresh'
    <2>1. Known(NoPrompt)
        BY DeliverCopies
    <2>2. \A d \in Conns :
            /\ Known(pending[d])' /\ Known(migrated[d])' /\ Known(inbox[d])' /\ Known(answered[d])'
            /\ \A p \in prompts'[d] : Known(p)'
            /\ session'[d] = "reprompt" => migrated'[d] # NoPrompt
        BY <1>2, <1>3, <1>10, <2>1 DEF Known
    <2>3. Numbered'
        BY <1>1, <1>2, <2>2 DEF Numbered
    <2>4. Outcomes'
        BY <1>1, <1>2 DEF Outcomes
    <2>5. act \in {"check", "register"} => asked.n > 0
        BY <1>1 DEF Numbered
    <2>6. \A d \in Conns : Told(d, asked)' /\ asked.n > 0 => Told(d, asked)
        BY <1>2, <1>8, <1>10 DEF Copy, Told
    <2>7. Fresh'
        BY <1>1, <1>2, <1>9, <2>5, <2>6 DEF Fresh
    <2> QED
        BY <2>3, <2>4, <2>7
<1>13. OneResponder'
    <2>1. \A d \in Conns : Moved(d)' <=> Moved(d)
        BY DeliverCopies
    <2> QED
        BY <1>1, <1>2, <1>9, <2>1 DEF OneResponder
<1>14. HolderKnows'
    <2> SUFFICES ASSUME asked.n > 0, NEW d \in Conns, Held(d)' PROVE Copy(d, asked)'
        BY <1>2 DEF HolderKnows
    <2>1. Held(d) /\ Copy(d, asked)
        BY <1>1, <1>9 DEF HolderKnows
    <2>2. d = c => inbox[c] # asked
        BY <1>2, <1>6, <1>8, <2>1 DEF Held
    <2> QED
        BY <1>2, <1>7, <1>10, <2>1, <2>2 DEF Copy
<1>15. ToldOnce'
    <2>1. \A d \in Conns : Moved(d)' <=> Moved(d)
        BY DeliverCopies
    <2>2. \A d \in Conns : Told(d, asked)' /\ asked.n > 0 => Told(d, asked)
        BY <1>2, <1>8, <1>10 DEF Copy, Told
    <2> QED
        BY <1>1, <1>2, <1>8, <1>10, <2>1, <2>2 DEF ToldOnce
<1>16. CopiesFollow'
    <2> SUFFICES ASSUME channel = "open", NEW d \in Conns, Told(d, asked)'
                 PROVE  \/ Held(d)'
                        \/ link # d
                        \/ \E e \in Conns : session'[e] = "replace" /\ migrated[e] = asked /\ old[e] = d
        BY <1>2 DEF CopiesFollow
    <2>1. asked.n > 0
        BY <1>1 DEF Outcomes, Numbered
    <2>2. Told(d, asked)
        BY <1>2, <1>8, <1>10, <2>1 DEF Copy, Told
    <2>3. Held(d) => Held(d)'
        BY <1>2, <1>4, <1>5 DEF Held
    <2>4. \A e \in Conns : session[e] = "replace" => session'[e] = "replace"
        BY <1>7, <1>10
    <2> QED
        BY <1>1, <2>2, <2>3, <2>4 DEF CopiesFollow
<1>17. AnsweredIsOver'
    <2>1. \A d \in Conns : ~ Stale(pending[d])'
        BY <1>1, <1>2, <1>3 DEF AnsweredIsOver, Stale
    <2>2. \A d \in Conns : Moving(d)' => ~ Stale(migrated[d])'
        BY <1>1, <1>2, DeliverCopies DEF AnsweredIsOver, Stale
    <2>3. \A d \in Conns : Retired(d) => Retired(d)' \/ asked.n = 0
        BY <1>1, <1>2, <1>9, DeliverCopies, PromptType DEF Retired, TypeOK
    <2>4. ASSUME asked.hand \notin repeats,
                 NEW d \in Conns, NEW p \in Prompt, Stale(p)', Copy(d, p)'
          PROVE  Retired(d)'
        <3>1. p # NoPrompt /\ Stale(p)
            BY <1>11, <2>4 DEF Stale
        <3>2. Copy(d, p)
            BY <2>4, <3>1, DeliverCopies
        <3>3. Retired(d)
            BY <1>1, <2>4, <3>1, <3>2 DEF AnsweredIsOver
        <3>4. asked.n > 0
            BY <1>1, <3>1, PromptType DEF Stale, Outcomes, TypeOK
        <3> QED
            BY <2>3, <3>3, <3>4
    <2> QED
        BY <1>2, <2>1, <2>2, <2>4 DEF AnsweredIsOver
<1> QED
    BY <1>12, <1>13, <1>14, <1>15, <1>16, <1>17, DeliverCopies DEF PromptInv

-----------------------------------------------------------------------------
(* The theorems *)

\* A step in which nothing of this seat happens.
LEMMA StutterInv == ASSUME PromptInv, UNCHANGED vars PROVE PromptInv'
<1>1. UNCHANGED <<link, pending, departed, revoked, member, leave_pending,
                  act, asked, conn, channel, answer, outcome,
                  session, old, migrated, prompts, inbox, answered, repeats>>
    BY DEF vars, seat, engine, clients
<1>2. TypeOK' /\ Numbered' /\ Outcomes' /\ Fresh' /\ PastTakeover'
    BY <1>1 DEF PromptInv, TypeOK, Numbered, Known, Outcomes, Fresh, PastTakeover,
                Held, Copy, Told, Past
<1>3. OneResponder' /\ HolderKnows' /\ ToldOnce' /\ CopiesFollow'
    BY <1>1 DEF PromptInv, OneResponder, HolderKnows, ToldOnce, CopiesFollow,
                Held, Moved, Moving, Copy, Told
<1>4. AnsweredIsOver'
    BY <1>1 DEF PromptInv, AnsweredIsOver, Stale, Moving, Copy, Retired, Past, Held, Moved
<1> QED
    BY <1>2, <1>3, <1>4 DEF PromptInv

\* Every step of the engine thread, of a session task and of a client keeps it.
LEMMA NextPrompt == ASSUME PromptInv, [Next]_vars PROVE PromptInv'
<1>1. CASE Act
    BY <1>1, ActStartInv, ActReturnsInv, ActRegisterInv, ActPromptInv, EmptyingSteps DEF Act
<1>2. ASSUME NEW c \in Conns, Task(c) PROVE PromptInv'
    <2>1. CASE ReconnectTake(c) \/ ReconnectReplace(c) \/ ReconnectInstall(c) \/ ReconnectReprompt(c)
        BY <2>1, TakeInv, ReplaceInv, InstallNothingInv, InstallPromptInv, ForwardingSteps
    <2>2. CASE DeliverAction(c)
        BY <2>2, AnswerInv, DiscardInv
    <2>3. CASE CancelTake(c)
        BY <2>3, EmptyingSteps
    <2>4. CASE \/ ReconnectOld(c) \/ ReadMessage(c) \/ CancelStore(c) \/ LeaveSeat(c)
               \/ LeaveRecord(c) \/ CloseCheck(c) \/ CloseRecord(c) \/ ForceLeave(c)
        BY <2>4, QuietSteps
    <2> QED
        BY <1>2, <2>1, <2>2, <2>3, <2>4 DEF Task
<1>3. ASSUME NEW c \in Conns, Client(c) PROVE PromptInv'
    BY <1>3, QuietSteps, ForwardingSteps DEF Client
<1>4. CASE UNCHANGED vars
    BY <1>4, StutterInv
<1> QED
    BY <1>1, <1>2, <1>3, <1>4 DEF Next

\* The inductive invariant holds throughout, whatever the sessions and clients do.
THEOREM PromptInvariance == Spec => []PromptInv
<1>1. Init => PromptInv
    BY InitPrompt
<1>2. PromptInv /\ [Next]_vars => PromptInv'
    BY NextPrompt
<1> QED
    BY <1>1, <1>2, PTL DEF Spec

\* Every variable of the seat, the engine thread and the sessions keeps its type.
THEOREM PromptTypeCorrect == Spec => []TypeOK
<1>1. PromptInv => TypeOK
    BY DEF PromptInv
<1> QED
    BY <1>1, PromptInvariance, PTL

\* The action RemoteAgent::act returns was given in this hand, and to the prompt of
\* this very call unless a prompt of the hand was answered twice: deliver_action
\* compares only the hand id, which takes any number of connections, prompts,
\* takeovers and late answers, and not a client that answers a prompt again.
THEOREM AnswersAreCurrent == Spec => []AnswerIsForThisPrompt
<1>1. PromptInv => AnswerIsForThisPrompt
    BY DEF PromptInv, Outcomes, AnswerIsForThisPrompt
<1> QED
    BY <1>1, PromptInvariance, PTL

\* Once the sessions have settled, the prompt that act waits on has been sent
\* over the connection whose slot holds its responder: reconnect_player never
\* leaves the engine waiting on a client that was not asked.
THEOREM HoldersArePrompted == Spec => []HolderWasPrompted
<1>1. ASSUME PromptInv PROVE HolderWasPrompted
    <2> SUFFICES ASSUME NEW c \in Conns, act = "wait", Quiet, pending[c] = asked
                 PROVE  asked \in prompts[c] \/ inbox[c] = asked
        BY DEF HolderWasPrompted
    <2>1. asked.n > 0
        BY <1>1, PromptType DEF PromptInv, Numbered, TypeOK
    <2>2. Copy(c, asked)
        BY <1>1, <2>1 DEF PromptInv, HolderKnows, Held
    <2> QED
        BY <2>2 DEF Copy, Quiet
<1> QED
    BY <1>1, PromptInvariance, PTL
=============================================================================
