----------------------------- MODULE PromptLink -----------------------------
(***************************************************************************)
(* One seat, the engine thread that asks it for an action, and the         *)
(* connections of its player: RemoteAgent::act, Connection, SeatLink,      *)
(* Table::reconnect_player and the life of a session                       *)
(* (crates/poker-server/src/remote_agent.rs, connection.rs, session.rs,    *)
(* table.rs).                                                              *)
(*                                                                         *)
(* act runs on a blocking thread while session tasks run on the runtime, so*)
(* a step is one access to shared state: one atomic load or store, one     *)
(* critical section of a connection's `pending' mutex or of the link.      *)
(* Connections are numbered in the order in which they log in.  An action  *)
(* is abstracted to the prompt it answers; legality is left out (what the   *)
(* engine makes of an illegal action is in HandEngine).                    *)
(***************************************************************************)
EXTENDS Integers, FiniteSets

CONSTANTS
    MaxConns,       \* bound: connections the player ever opens
    MaxPrompts      \* bound: calls of act

ASSUME PromptAssumption == MaxConns \in Nat \ {0} /\ MaxPrompts \in Nat \ {0}

Conns == 1 .. MaxConns
NoPrompt == [n |-> 0, hand |-> 0]
Prompt == [n : 0 .. MaxPrompts, hand : 0 .. MaxPrompts]

VARIABLES
    \* shared state
    link,           \* SeatLink.inner
    pending,        \* Connection.pending: the prompt whose responder it holds
    departed,       \* Connection.departed
    revoked,        \* the session's revoked flag, set by the registry
    member,         \* TableManager has an entry for the player
    leave_pending,  \* Seat.leave_pending
    \* the engine thread
    act,            \* where RemoteAgent::act is
    asked,          \* the prompt of this call
    conn,           \* act's `conn', then its `cleanup'
    channel,        \* the oneshot of this call; who dropped it, if dropped
    answer,         \* the prompt the received action was the answer to
    outcome,        \* what the last call returned, and why
    \* the sessions and their clients
    session,        \* where the session of each connection is
    old,            \* reconnect_player's `old'
    migrated,       \* reconnect_player's `migrated'
    prompts,        \* the prompts sent on each connection, not answered yet
    inbox,          \* the SubmitAction under way on each connection
    answered,       \* ClientCore.active_prompt, once the client has answered it
    repeats         \* history: the hands in which a prompt was answered again

seat == <<link, pending, departed, revoked, member, leave_pending>>
engine == <<act, asked, conn, channel, answer, outcome>>
clients == <<session, old, migrated, prompts, inbox, answered, repeats>>
vars == <<seat, engine, clients>>

-----------------------------------------------------------------------------
(* The player is seated on connection 1, between two prompts. *)
Init ==
    /\ link = 1
    /\ pending = [c \in Conns |-> NoPrompt]
    /\ departed = [c \in Conns |-> FALSE]
    /\ revoked = [c \in Conns |-> FALSE]
    /\ member = TRUE
    /\ leave_pending = FALSE
    /\ act = "idle"
    /\ asked = NoPrompt
    /\ conn = 1
    /\ channel = "closed"
    /\ answer = NoPrompt
    /\ outcome = "none"
    /\ session = [c \in Conns |-> IF c = 1 THEN "reading" ELSE "offline"]
    /\ old = [c \in Conns |-> 1]
    /\ migrated = [c \in Conns |-> NoPrompt]
    /\ prompts = [c \in Conns |-> {}]
    /\ inbox = [c \in Conns |-> NoPrompt]
    /\ answered = [c \in Conns |-> NoPrompt]
    /\ repeats = {}

-----------------------------------------------------------------------------
(* Dropping a responder *)

\* The slot of c is emptied without an answer.  The engine notices when it is
\* waiting on the responder that was in it.
Drop(c, why) ==
    channel' = IF pending[c] # NoPrompt /\ pending[c] = asked /\ channel = "open"
               THEN why ELSE channel

-----------------------------------------------------------------------------
(* RemoteAgent::act *)

\* The engine asks again, in the same hand unless the seat folded; a seat that
\* is leaving is gone after the hand.
ActStart ==
    /\ act = "idle"
    /\ asked.n < MaxPrompts
    /\ \E hand \in asked.hand .. (asked.hand + 1) :
        /\ asked.n = 0 => hand = 1
        /\ outcome \in {"departed", "dropped", "timeout"} => hand > asked.hand
        /\ leave_pending => hand = asked.hand
        /\ asked' = [n |-> asked.n + 1, hand |-> hand]
    /\ conn' = link
    /\ channel' = "closed"
    /\ answer' = NoPrompt
    /\ act' = "check"
    /\ outcome' = "none"
    /\ UNCHANGED <<seat, clients>>

ActCheckDeparted ==
    /\ act = "check"
    /\ IF departed[conn]
       THEN act' = "idle" /\ outcome' = "departed"
       ELSE act' = "register" /\ UNCHANGED outcome
    /\ UNCHANGED <<seat, asked, conn, channel, answer, clients>>

ActRegister ==
    /\ act = "register"
    /\ pending' = [pending EXCEPT ![conn] = asked]
    /\ channel' = "open"
    /\ act' = "prompt"
    /\ UNCHANGED <<link, departed, revoked, member, leave_pending,
                   asked, conn, answer, outcome, clients>>

ActPrompt ==
    /\ act = "prompt"
    /\ prompts' = [prompts EXCEPT ![conn] = @ \union {asked}]
    /\ act' = "wait"
    /\ UNCHANGED <<seat, asked, conn, channel, answer, outcome, session, old, migrated,
                   inbox, answered, repeats>>

ActAnswered ==
    /\ act = "wait"
    /\ channel = "answered"
    /\ act' = "idle"
    /\ outcome' = "action"
    /\ UNCHANGED <<seat, asked, conn, channel, answer, clients>>

\* Mutated ActElapsed: there is no deadline.
ActElapsed_Never == FALSE /\ UNCHANGED vars

\* The deadline elapses; the link is read again for the cleanup.
ActElapsed ==
    /\ act = "wait"
    /\ channel = "open"
    /\ channel' = "closed"
    /\ conn' = link
    /\ act' = "cleanup"
    /\ outcome' = "timeout"
    /\ UNCHANGED <<seat, asked, answer, clients>>

ActDropped ==
    /\ act = "wait"
    /\ channel \in {"by_departure", "by_superseded", "by_overwrite"}
    /\ conn' = link
    /\ act' = "cleanup"
    /\ outcome' = "dropped"
    /\ UNCHANGED <<seat, asked, channel, answer, clients>>

ActCleanup ==
    /\ act = "cleanup"
    /\ pending' = [pending EXCEPT ![conn] = NoPrompt]
    /\ act' = "idle"
    /\ UNCHANGED <<link, departed, revoked, member, leave_pending,
                   asked, conn, channel, answer, outcome, clients>>

-----------------------------------------------------------------------------
(* A new login, and reconnect_player *)

At(c, place) == session[c] = place
Goto(c, place) == session' = [session EXCEPT ![c] = place]

\* The registry revokes the connection that was online, if it still is.
Login(c) ==
    /\ At(c, "offline")
    /\ \A d \in 1 .. (c - 1) : ~ At(d, "offline")
    /\ revoked' = [d \in Conns |-> revoked[d] \/ (d < c /\ ~ At(d, "closed"))]
    /\ Goto(c, "lookup")
    /\ UNCHANGED <<link, pending, departed, member, leave_pending,
                   engine, old, migrated, prompts, inbox, answered, repeats>>

\* current_table, then the seat is looked up and the link read.
ReconnectOld(c) ==
    /\ At(c, "lookup")
    /\ IF member
       THEN Goto(c, "take") /\ old' = [old EXCEPT ![c] = link]
       ELSE Goto(c, "reading") /\ UNCHANGED old
    /\ UNCHANGED <<seat, engine, migrated, prompts, inbox, answered, repeats>>

ReconnectTake(c) ==
    /\ At(c, "take")
    /\ migrated' = [migrated EXCEPT ![c] = pending[old[c]]]
    /\ pending' = [pending EXCEPT ![old[c]] = NoPrompt]
    /\ Goto(c, "replace")
    /\ UNCHANGED <<link, departed, revoked, member, leave_pending,
                   engine, old, prompts, inbox, answered, repeats>>

ReconnectReplace(c) ==
    /\ At(c, "replace")
    /\ link' = c
    /\ Goto(c, "install")
    /\ UNCHANGED <<pending, departed, revoked, member, leave_pending,
                   engine, old, migrated, prompts, inbox, answered, repeats>>

\* Mutated ReconnectInstall: the prompt is not re-sent.
ReconnectInstall_Silent(c) ==
    /\ At(c, "install")
    /\ IF migrated[c] # NoPrompt
       THEN /\ Drop(c, "by_overwrite")
            /\ pending' = [pending EXCEPT ![c] = migrated[c]]
       ELSE UNCHANGED <<pending, channel>>
    /\ Goto(c, "reading")
    /\ UNCHANGED <<link, departed, revoked, member, leave_pending,
                   act, asked, conn, answer, outcome, old, migrated, prompts, inbox, answered, repeats>>

ReconnectInstall(c) ==
    /\ At(c, "install")
    /\ IF migrated[c] # NoPrompt
       THEN /\ Drop(c, "by_overwrite")
            /\ pending' = [pending EXCEPT ![c] = migrated[c]]
            /\ Goto(c, "reprompt")
       ELSE Goto(c, "reading") /\ UNCHANGED <<pending, channel>>
    /\ UNCHANGED <<link, departed, revoked, member, leave_pending,
                   act, asked, conn, answer, outcome, old, migrated, prompts, inbox, answered, repeats>>

ReconnectReprompt(c) ==
    /\ At(c, "reprompt")
    /\ prompts' = [prompts EXCEPT ![c] = @ \union {migrated[c]}]
    /\ Goto(c, "reading")
    /\ UNCHANGED <<seat, engine, old, migrated, inbox, answered, repeats>>

-----------------------------------------------------------------------------
(* The reader loop: SubmitAction *)

\* The client answers a prompt it has read and is done with those before it; TCP
\* delivers the answer once.
Submit(c) ==
    /\ session[c] \notin {"offline", "closed"}
    /\ inbox[c] = NoPrompt
    /\ \E p \in prompts[c] :
        /\ inbox' = [inbox EXCEPT ![c] = p]
        /\ answered' = [answered EXCEPT ![c] = p]
        /\ prompts' = [prompts EXCEPT ![c] = {q \in @ : q.n > p.n}]
    /\ UNCHANGED <<seat, engine, session, old, migrated, repeats>>

\* An ActionRejected, whatever it is about, and a replay that has the Prompt arm
\* the answered prompt again until the client reads the next one: the player may
\* answer it once more.
Resubmit(c) ==
    /\ session[c] \notin {"offline", "closed"}
    /\ inbox[c] = NoPrompt /\ answered[c] # NoPrompt
    /\ inbox' = [inbox EXCEPT ![c] = answered[c]]
    /\ repeats' = repeats \union {answered[c].hand}
    /\ UNCHANGED <<seat, engine, session, old, migrated, prompts, answered>>

\* A message has been read; a revoked session is torn down.
ReadMessage(c) ==
    /\ At(c, "reading")
    /\ inbox[c] # NoPrompt
    /\ Goto(c, IF revoked[c] THEN "close" ELSE "deliver")
    /\ UNCHANGED <<seat, engine, old, migrated, prompts, inbox, answered, repeats>>

\* Mutated Matches: the hand id is not compared.
Matches_AnyHand(slot, msg) == slot # NoPrompt

\* deliver_action's comparison of the slot with the message.
Matches(slot, msg) == slot # NoPrompt /\ slot.hand = msg.hand

DeliverAction(c) ==
    /\ At(c, "deliver")
    /\ IF Matches(pending[c], inbox[c])
       THEN /\ pending' = [pending EXCEPT ![c] = NoPrompt]
            /\ IF pending[c] = asked /\ channel = "open"
               THEN channel' = "answered" /\ answer' = inbox[c]
               ELSE UNCHANGED <<channel, answer>>
       ELSE UNCHANGED <<pending, channel, answer>>
    /\ inbox' = [inbox EXCEPT ![c] = NoPrompt]
    /\ Goto(c, "reading")
    /\ UNCHANGED <<link, departed, revoked, member, leave_pending,
                   act, asked, conn, outcome, old, migrated, prompts, answered, repeats>>

-----------------------------------------------------------------------------
(* Leaving and closing *)

\* LeaveTable arrives on a session that is not revoked, or the loop ends.
LeaveTable(c) ==
    /\ At(c, "reading")
    /\ ~ revoked[c]
    /\ Goto(c, "leave")
    /\ UNCHANGED <<seat, engine, old, migrated, prompts, inbox, answered, repeats>>

SocketCloses(c) ==
    /\ At(c, "reading")
    /\ Goto(c, "close")
    /\ UNCHANGED <<seat, engine, old, migrated, prompts, inbox, answered, repeats>>

\* cancel_pending: the flag, then the slot.
CancelStore(c) ==
    /\ session[c] \in {"leave", "close"}
    /\ departed' = [departed EXCEPT ![c] = TRUE]
    /\ Goto(c, IF At(c, "leave") THEN "leave_take" ELSE "close_take")
    /\ UNCHANGED <<link, pending, revoked, member, leave_pending,
                   engine, old, migrated, prompts, inbox, answered, repeats>>

CancelTake(c) ==
    /\ session[c] \in {"leave_take", "close_take"}
    /\ Drop(c, IF At(c, "close_take") /\ revoked[c] THEN "by_superseded" ELSE "by_departure")
    /\ pending' = [pending EXCEPT ![c] = NoPrompt]
    /\ Goto(c, IF At(c, "leave_take") THEN "leave_seat" ELSE "close_check")
    /\ UNCHANGED <<link, departed, revoked, member, leave_pending,
                   act, asked, conn, answer, outcome, old, migrated, prompts, inbox, answered, repeats>>

\* Table::leave during a hand; then the entry is removed.
LeaveSeat(c) ==
    /\ At(c, "leave_seat")
    /\ leave_pending' = TRUE
    /\ Goto(c, "leave_record")
    /\ UNCHANGED <<link, pending, departed, revoked, member,
                   engine, old, migrated, prompts, inbox, answered, repeats>>

LeaveRecord(c) ==
    /\ At(c, "leave_record")
    /\ member' = FALSE
    /\ Goto(c, "reading")
    /\ UNCHANGED <<link, pending, departed, revoked, leave_pending,
                   engine, old, migrated, prompts, inbox, answered, repeats>>

\* A superseded session leaves the seat alone.
CloseCheck(c) ==
    /\ At(c, "close_check")
    /\ Goto(c, IF revoked[c] THEN "closed" ELSE "close_record")
    /\ UNCHANGED <<seat, engine, old, migrated, prompts, inbox, answered, repeats>>

\* Another one removes the entry, and gives up the seat if there was one.
CloseRecord(c) ==
    /\ At(c, "close_record")
    /\ member' = FALSE
    /\ Goto(c, IF member THEN "force_leave" ELSE "closed")
    /\ UNCHANGED <<link, pending, departed, revoked, leave_pending,
                   engine, old, migrated, prompts, inbox, answered, repeats>>

\* force_leave skips a seat whose link has another session.
ForceLeave(c) ==
    /\ At(c, "force_leave")
    /\ leave_pending' = (leave_pending \/ link = c)
    /\ Goto(c, "closed")
    /\ UNCHANGED <<link, pending, departed, revoked, member,
                   engine, old, migrated, prompts, inbox, answered, repeats>>

-----------------------------------------------------------------------------
Act ==
    \/ ActStart \/ ActCheckDeparted \/ ActRegister \/ ActPrompt
    \/ ActAnswered \/ ActElapsed \/ ActDropped \/ ActCleanup

Task(c) ==
    \/ ReconnectOld(c) \/ ReconnectTake(c) \/ ReconnectReplace(c)
    \/ ReconnectInstall(c) \/ ReconnectReprompt(c)
    \/ ReadMessage(c) \/ DeliverAction(c)
    \/ CancelStore(c) \/ CancelTake(c) \/ LeaveSeat(c) \/ LeaveRecord(c)
    \/ CloseCheck(c) \/ CloseRecord(c) \/ ForceLeave(c)

Client(c) == Login(c) \/ Submit(c) \/ Resubmit(c) \/ LeaveTable(c) \/ SocketCloses(c)

Next == Act \/ \E c \in Conns : Task(c) \/ Client(c)

Spec == Init /\ [][Next]_vars

\* The engine thread and the session tasks are scheduled; clients may be silent.
FairSpec == Spec /\ WF_vars(Act) /\ \A c \in Conns : WF_vars(Task(c))

-----------------------------------------------------------------------------
(* Properties *)

TypeOK ==
    /\ link \in Conns /\ conn \in Conns /\ old \in [Conns -> Conns]
    /\ departed \in [Conns -> BOOLEAN] /\ revoked \in [Conns -> BOOLEAN]
    /\ member \in BOOLEAN /\ leave_pending \in BOOLEAN
    /\ pending \in [Conns -> Prompt] /\ migrated \in [Conns -> Prompt]
    /\ inbox \in [Conns -> Prompt] /\ prompts \in [Conns -> SUBSET (Prompt \ {NoPrompt})]
    /\ answered \in [Conns -> Prompt] /\ repeats \subseteq 0 .. MaxPrompts
    /\ asked \in Prompt /\ answer \in Prompt
    /\ act \in {"idle", "check", "register", "prompt", "wait", "cleanup"}
    /\ channel \in {"closed", "open", "answered", "by_departure", "by_superseded", "by_overwrite"}
    /\ outcome \in {"none", "departed", "action", "timeout", "dropped"}
    /\ session \in [Conns -> {"offline", "lookup", "take", "replace", "install", "reprompt",
                              "reading", "deliver", "leave", "leave_take", "leave_seat",
                              "leave_record", "close_record",
                              "close", "close_take", "close_check", "force_leave", "closed"}]

\* Every session is reading, gone, or not there yet.
Quiet == \A c \in Conns : session[c] \in {"offline", "reading", "closed"}

\* An action the engine receives is one the player gave in this hand, and it was
\* given to this very prompt, not to an earlier one, whichever connection it came
\* over and however late: the hand id is all that deliver_action compares.  That
\* holds until a prompt of the hand is answered twice.
AnswerIsForThisPrompt ==
    outcome = "action" =>
        answer.hand = asked.hand /\ (answer = asked \/ asked.hand \in repeats)

\* "Stale or duplicate replies are dropped silently by the server."
RepliesAreCurrent == outcome = "action" => answer = asked

\* A call of act returns: the engine thread is never stuck on a prompt.
PromptResolves == (act # "idle") ~> (act = "idle")

\* A prompt that has been moved to a new connection has been sent over it:
\* once the sessions have settled, the client behind the slot the engine waits
\* on knows of the prompt or has answered it.
HolderWasPrompted ==
    \A c \in Conns :
        (act = "wait" /\ channel = "open" /\ Quiet /\ pending[c] = asked)
            => asked \in prompts[c] \/ inbox[c] = asked

\* "the server SHALL NOT force-fold" on a handoff: the socket of a superseded
\* session that closes does not take the prompt with it.
HandoffDoesNotFold ==
    outcome = "dropped" => channel # "by_superseded"
=============================================================================
