----------------------------- MODULE TableActor -----------------------------
(***************************************************************************)
(* One table of the server: the seats behind Table.state, the actor        *)
(* run_table that plays hands, the session handlers that seat players and  *)
(* let them go, and the membership map of TableManager                     *)
(* (crates/poker-server/src/table.rs, session.rs).                         *)
(*                                                                         *)
(* Each step is what runs between two awaits: one critical section of the  *)
(* state mutex, one access to the manager's map, or one park.  A hand is   *)
(* abstracted to what HandEngine shows of it: a zero-sum change of the     *)
(* stacks of the seats in the snapshot.  Hand ids only grow and are left   *)
(* out.  A player may have several sessions, each with its connection: a   *)
(* login supersedes the session before it, which goes on with whatever it  *)
(* was doing and closes in its own time.                                   *)
(***************************************************************************)
EXTENDS Integers, FiniteSets, FiniteSetsExt

CONSTANTS
    Players,
    MaxSessions,    \* bound: sessions ever opened
    Owner,          \* the player who opens each of them
    MaxSeats, MinSeats, BigBlind,   \* TableConfig
    MinBuyIn,       \* big_blind * 10 in the code
    BuyIns,         \* the buy-ins a player may ask for
    MaxChips,       \* bound: no buy-in takes the table beyond this many chips
    NoSeat          \* an empty slot of TableInner.seats

SeatIndex == 0 .. (MaxSeats - 1)
Sessions == 1 .. MaxSessions

\* `link' names the SeatLink by the session that created it, `bound' is the
\* session whose connection is in it.
Seat == [player : Players, stack : Nat, leave_pending : BOOLEAN,
         link : Sessions, bound : Sessions]

\* What take_running_snapshot copies of a seat.
SeatView == [player : Players, stack : Nat]

ASSUME TableAssumption ==
    /\ MaxSessions \in Nat /\ Owner \in [Sessions -> Players]
    /\ MaxSeats \in Nat \ {0} /\ MinSeats \in Nat \ {0} /\ BigBlind \in Nat \ {0}
    /\ MinBuyIn \in Nat /\ BuyIns \subseteq Nat /\ MaxChips \in Nat
    /\ NoSeat \notin Seat /\ NoSeat \notin SeatView

VARIABLES
    \* TableInner
    seats, button, hand_in_progress,
    notify,         \* the permit of Table.notify
    \* the actor
    actor,          \* where run_table is
    snapshot,       \* RunningSnapshot: the player and the stack of each slot
    dealer,         \* the table seat of the snapshot's dealer
    \* TableManager
    player_table,   \* players with an entry (there is one table)
    \* the sessions
    session,        \* where each session is
    revoked,        \* its revoked flag, set by the registry
    found,          \* reconnect_player's `link'
    overtaken       \* history: players who logged in while an earlier session of
                    \* theirs was in the middle of something

table == <<seats, button, hand_in_progress>>
run == <<actor, snapshot, dealer>>
flags == <<revoked, found, overtaken>>
sessions == <<player_table, session, flags>>
vars == <<table, notify, run, sessions>>

-----------------------------------------------------------------------------
(* Helpers *)

Occupied == {i \in SeatIndex : seats[i] # NoSeat}
SeatsOf(p) == {i \in Occupied : seats[i].player = p}
Playing == {i \in SeatIndex : snapshot[i] # NoSeat}

\* A seat with stack < BB cannot post the blind.
CanPost == {i \in Occupied : seats[i].stack >= BigBlind}

TableChips == MapThenSumSet(LAMBDA i : seats[i].stack, Occupied)
SnapshotChips == MapThenSumSet(LAMBDA i : snapshot[i].stack, Playing)

\* Mutated next_occupied_seat: the scan does not wrap round.
next_occupied_seat_NoWrap(slots, from) == from + 1

\* next_occupied_seat: the first occupied slot strictly after `from', if any.
next_occupied_seat(slots, from) ==
    LET occupied == {i \in SeatIndex : slots[i] # NoSeat}
        Steps(i) == IF i > from THEN i - from ELSE i - from + MaxSeats
    IN  IF occupied = {} THEN from
        ELSE CHOOSE i \in occupied : \A j \in occupied : Steps(i) <= Steps(j)

Init ==
    /\ seats = [i \in SeatIndex |-> NoSeat]
    /\ button = 0
    /\ hand_in_progress = FALSE
    /\ notify = FALSE
    /\ actor = "check"
    /\ snapshot = [i \in SeatIndex |-> NoSeat]
    /\ dealer = 0
    /\ player_table = {}
    /\ session = [s \in Sessions |-> "offline"]
    /\ revoked = [s \in Sessions |-> FALSE]
    /\ found = [s \in Sessions |-> s]
    /\ overtaken = {}

-----------------------------------------------------------------------------
(* TableManager *)

\* current_table, as far as there is one.
AtTable(p) == p \in player_table

record_join(p)  == player_table' = player_table \union {p}
record_leave(p) == player_table' = player_table \ {p}

-----------------------------------------------------------------------------
(* A login, and the takeover of a seat *)

At(s, place) == session[s] = place
Goto(s, place) == session' = [session EXCEPT ![s] = place]

\* A session in the middle of a takeover, a join, a leave, or of giving up its seat.
Midway(s) == session[s] \in {"lookup", "replace", "sit", "record_join",
                             "leave", "record_leave", "close_record", "force_leave"}

\* The sessions the player of s opened before it.
Before(s) == {t \in 1 .. (s - 1) : Owner[t] = Owner[s]}

\* The registry revokes the session that was online, if it still is.
Login(s) ==
    /\ At(s, "offline")
    /\ \A t \in Before(s) : ~ At(t, "offline")
    /\ revoked' = [t \in Sessions |-> revoked[t] \/ (t \in Before(s) /\ ~ At(t, "closed"))]
    /\ overtaken' = IF \E t \in Before(s) : Midway(t)
                    THEN overtaken \union {Owner[s]} ELSE overtaken
    /\ Goto(s, "lookup")
    /\ UNCHANGED <<table, notify, run, player_table, found>>

\* current_table, then reconnect_player looks for the seat under the lock and
\* keeps its link.
FindSeat(s) ==
    /\ At(s, "lookup")
    /\ IF AtTable(Owner[s]) /\ SeatsOf(Owner[s]) # {}
       THEN /\ found' = [found EXCEPT ![s] = seats[Min(SeatsOf(Owner[s]))].link]
            /\ Goto(s, "replace")
       ELSE Goto(s, "idle") /\ UNCHANGED found
    /\ UNCHANGED <<table, notify, run, player_table, revoked, overtaken>>

\* SeatLink::replace, without the lock; the link of a seat that is gone is
\* nobody's.
ReplaceLink(s) ==
    /\ At(s, "replace")
    /\ seats' = [i \in SeatIndex |->
                    IF i \in SeatsOf(Owner[s]) /\ seats[i].link = found[s]
                    THEN [seats[i] EXCEPT !.bound = s] ELSE seats[i]]
    /\ found' = [found EXCEPT ![s] = s]
    /\ Goto(s, "idle")
    /\ UNCHANGED <<button, hand_in_progress, notify, run, player_table,
                   revoked, overtaken>>

-----------------------------------------------------------------------------
(* Session handlers: handle_join *)

\* current_table: a player with an entry is told "already seated at a table".
JoinTable(s) ==
    /\ At(s, "idle") /\ ~ revoked[s]
    /\ ~ AtTable(Owner[s])
    /\ Goto(s, "sit")
    /\ UNCHANGED <<table, notify, run, player_table, flags>>

NewSeat(s, buy_in) ==
    [player |-> Owner[s], stack |-> buy_in, leave_pending |-> FALSE, link |-> s, bound |-> s]

\* Mutated TakeSeat: the actor is not woken.
TakeSeat_NoNotify(s, i, buy_in) ==
    /\ seats' = [seats EXCEPT ![i] = NewSeat(s, buy_in)]
    /\ UNCHANGED notify

TakeSeat(s, i, buy_in) ==
    /\ seats' = [seats EXCEPT ![i] = NewSeat(s, buy_in)]
    /\ notify' = TRUE

\* Mutated Sit: the table does not look for a seat the player already has.
Sit_Again(s) ==
    /\ At(s, "sit")
    /\ Occupied # SeatIndex
    /\ \E buy_in \in BuyIns :
        /\ buy_in >= MinBuyIn
        /\ TableChips + buy_in <= MaxChips
        /\ TakeSeat(s, Min(SeatIndex \ Occupied), buy_in)
    /\ Goto(s, "record_join")
    /\ UNCHANGED <<button, hand_in_progress, run, player_table, flags>>

\* Table::sit in the first free slot.
Sit(s) ==
    /\ At(s, "sit")
    /\ SeatsOf(Owner[s]) = {}
    /\ Occupied # SeatIndex
    /\ \E buy_in \in BuyIns :
        /\ buy_in >= MinBuyIn
        /\ TableChips + buy_in <= MaxChips
        /\ TakeSeat(s, Min(SeatIndex \ Occupied), buy_in)
    /\ Goto(s, "record_join")
    /\ UNCHANGED <<button, hand_in_progress, run, player_table, flags>>

\* Table::sit refuses: too small a buy-in, already seated here, or full.  (The
\* last disjunct is the bound on chips, not the code.)
SitRefused(s) ==
    /\ At(s, "sit")
    /\ \/ \E buy_in \in BuyIns : buy_in < MinBuyIn
       \/ SeatsOf(Owner[s]) # {}
       \/ Occupied = SeatIndex
       \/ \A buy_in \in BuyIns : TableChips + buy_in > MaxChips
    /\ Goto(s, "idle")
    /\ UNCHANGED <<table, notify, run, player_table, flags>>

\* The seat is the player's: the entry follows, then JoinedTable.
RecordJoin(s) ==
    /\ At(s, "record_join")
    /\ record_join(Owner[s])
    /\ Goto(s, "idle")
    /\ UNCHANGED <<table, notify, run, flags>>

-----------------------------------------------------------------------------
(* Session handlers: handle_leave *)

\* cancel_pending comes first (PromptLink has it).
LeaveTable(s) ==
    /\ At(s, "idle") /\ ~ revoked[s]
    /\ Goto(s, "leave")
    /\ UNCHANGED <<table, notify, run, player_table, flags>>

\* Mutated Vacated: the seat is freed even while a hand is played.
Vacated_AtOnce(i) == NoSeat

\* What leave and force_leave make of an occupied slot.
Vacated(i) ==
    IF hand_in_progress THEN [seats[i] EXCEPT !.leave_pending = TRUE] ELSE NoSeat

GiveUp(i) ==
    /\ seats' = [seats EXCEPT ![i] = Vacated(i)]
    /\ notify' = TRUE

\* Table::leave finds the seat by player, whichever session it is bound to.
Leave(s) ==
    /\ At(s, "leave")
    /\ IF SeatsOf(Owner[s]) # {}
       THEN GiveUp(Min(SeatsOf(Owner[s]))) /\ Goto(s, "record_leave")
       ELSE Goto(s, "idle") /\ UNCHANGED <<seats, notify>>
    /\ UNCHANGED <<button, hand_in_progress, run, player_table, flags>>

RecordLeave(s) ==
    /\ At(s, "record_leave")
    /\ record_leave(Owner[s])
    /\ Goto(s, "idle")
    /\ UNCHANGED <<table, notify, run, flags>>

-----------------------------------------------------------------------------
(* Session cleanup *)

\* The reader loop ends (socket closed, Disconnect, idle timeout, rate limit, or a
\* message on a revoked session).  After cancel_pending the revoked flag is looked
\* at, once: a superseded session leaves the seat alone.
CloseSession(s) ==
    /\ At(s, "idle")
    /\ Goto(s, IF revoked[s] THEN "closed" ELSE "close_record")
    /\ UNCHANGED <<table, notify, run, player_table, flags>>

\* Mutated CloseRecord: the entry goes, the seat is not given up.
CloseRecord_KeepSeat(s) ==
    /\ At(s, "close_record")
    /\ record_leave(Owner[s])
    /\ Goto(s, "closed")
    /\ UNCHANGED <<table, notify, run, flags>>

\* record_leave: the table is only told when there was an entry.
CloseRecord(s) ==
    /\ At(s, "close_record")
    /\ record_leave(Owner[s])
    /\ Goto(s, IF AtTable(Owner[s]) THEN "force_leave" ELSE "closed")
    /\ UNCHANGED <<table, notify, run, flags>>

\* force_leave skips a seat that is bound to another session.
ForceLeave(s) ==
    /\ At(s, "force_leave")
    /\ IF SeatsOf(Owner[s]) # {} /\ seats[Min(SeatsOf(Owner[s]))].bound = s
       THEN GiveUp(Min(SeatsOf(Owner[s])))
       ELSE UNCHANGED <<seats, notify>>
    /\ Goto(s, "closed")
    /\ UNCHANGED <<button, hand_in_progress, run, player_table, flags>>

-----------------------------------------------------------------------------
(* The actor: run_table *)

\* The locked part of wait_for_quorum.
CheckQuorum ==
    /\ actor = "check"
    /\ IF ~ hand_in_progress /\ Cardinality(Occupied) >= MinSeats
       THEN hand_in_progress' = TRUE /\ actor' = "snapshot"
       ELSE actor' = "parked" /\ UNCHANGED hand_in_progress
    /\ UNCHANGED <<seats, button, notify, snapshot, dealer, sessions>>

\* The select! of wait_for_quorum.  Its other branch is the server's end: main
\* returns as soon as it has asked for it, and every task is dropped.
Woken ==
    /\ actor = "parked"
    /\ notify
    /\ notify' = FALSE
    /\ actor' = "check"
    /\ UNCHANGED <<table, snapshot, dealer, sessions>>

\* The dealer is the first playing seat at or after the button, or the first.
DealerFor(playing) ==
    IF playing = {} THEN 0
    ELSE IF \E i \in playing : i >= button
         THEN Min({i \in playing : i >= button}) ELSE Min(playing)

TakeRunningSnapshot ==
    /\ actor = "snapshot"
    /\ snapshot' = [i \in SeatIndex |->
                    IF i \in CanPost THEN [player |-> seats[i].player, stack |-> seats[i].stack]
                    ELSE NoSeat]
    /\ dealer' = DealerFor(CanPost)
    /\ actor' = IF Cardinality(CanPost) < MinSeats THEN "quorum_lost" ELSE "hand"
    /\ UNCHANGED <<table, notify, sessions>>

QuorumLost ==
    /\ actor = "quorum_lost"
    /\ hand_in_progress' = FALSE
    /\ snapshot' = [i \in SeatIndex |-> NoSeat]
    /\ dealer' = 0
    /\ actor' = "check"
    /\ UNCHANGED <<seats, button, notify, sessions>>

\* What run_one_hand returns, as chip_delta per table seat: any zero-sum outcome,
\* or nothing for anyone when the blocking task panicked.
Results ==
    {[i \in SeatIndex |-> IF i \in Playing THEN final[i] - snapshot[i].stack ELSE 0] :
        final \in {f \in [Playing -> 0 .. SnapshotChips] :
                        MapThenSumSet(LAMBDA i : f[i], Playing) = SnapshotChips}}
    \union {[i \in SeatIndex |-> 0]}

\* The stack after the deltas; max(0) never bites on a zero-sum result.
Settled(i, result) ==
    LET stack == seats[i].stack + result[i] IN IF stack < 0 THEN 0 ELSE stack

\* Mutated SlotAfterHand: pending leaves are not honoured.
SlotAfterHand_NoLeave(i, result) ==
    IF seats[i] = NoSeat \/ Settled(i, result) = 0 THEN NoSeat
    ELSE [seats[i] EXCEPT !.stack = Settled(i, result)]

\* Deltas applied, pending leaves honoured, busted seats freed.
SlotAfterHand(i, result) ==
    IF seats[i] = NoSeat \/ seats[i].leave_pending \/ Settled(i, result) = 0 THEN NoSeat
    ELSE [seats[i] EXCEPT !.stack = Settled(i, result)]

\* The hand is over (until then it touches nothing of this module) and
\* apply_hand_result.  The snapshot goes out of scope after it.  persist_hand and
\* the pause change nothing: a failed record_hand is only logged, after the stacks
\* were settled.
ApplyHandResult ==
    /\ actor = "hand"
    /\ actor' = "check"
    /\ hand_in_progress' = FALSE
    /\ snapshot' = [i \in SeatIndex |-> NoSeat]
    /\ dealer' = 0
    /\ \E result \in Results : seats' = [i \in SeatIndex |-> SlotAfterHand(i, result)]
    /\ button' = next_occupied_seat(seats', button)
    /\ UNCHANGED <<notify, sessions>>

-----------------------------------------------------------------------------
Handler(s) ==
    \/ FindSeat(s) \/ ReplaceLink(s)
    \/ Sit(s) \/ SitRefused(s) \/ RecordJoin(s)
    \/ Leave(s) \/ RecordLeave(s)
    \/ CloseRecord(s) \/ ForceLeave(s)

Client(s) == Login(s) \/ JoinTable(s) \/ LeaveTable(s) \/ CloseSession(s)

Actor ==
    CheckQuorum \/ Woken \/ TakeRunningSnapshot \/ QuorumLost \/ ApplyHandResult

Next == Actor \/ \E s \in Sessions : Handler(s) \/ Client(s)

Spec == Init /\ [][Next]_vars

\* tokio runs every task that is ready, so the actor goes on; a hand ends because
\* every prompt has a deadline.  Nothing is assumed of the sessions: the properties
\* do not wait for a handler that is halfway.
FairSpec == Spec /\ WF_vars(Actor)

-----------------------------------------------------------------------------
(* Properties *)

Places == {"offline", "lookup", "replace", "idle", "sit", "record_join", "leave",
           "record_leave", "close_record", "force_leave", "closed"}

TypeOK ==
    /\ seats \in [SeatIndex -> Seat \union {NoSeat}]
    /\ button \in SeatIndex
    /\ hand_in_progress \in BOOLEAN /\ notify \in BOOLEAN
    /\ actor \in {"check", "parked", "snapshot", "quorum_lost", "hand"}
    /\ snapshot \in [SeatIndex -> SeatView \union {NoSeat}]
    /\ dealer \in SeatIndex
    /\ player_table \subseteq Players
    /\ session \in [Sessions -> Places]
    /\ revoked \in [Sessions -> BOOLEAN]
    /\ found \in [Sessions -> Sessions]
    /\ overtaken \subseteq Players

\* From the snapshot to apply_hand_result, every seat of the hand stays with
\* the player and the chips that were dealt in, whoever joins, leaves or closes
\* meanwhile: the deltas, applied by seat index, reach the players who played.
HandSeatsHeld ==
    actor = "hand" =>
        \A i \in Playing :
            /\ seats[i] # NoSeat
            /\ seats[i].player = snapshot[i].player
            /\ seats[i].stack = snapshot[i].stack

\* A player holds at most one seat, although the check, the sit and the entry
\* in player_table are three separate steps, of any of the player's sessions.
OneSeatPerPlayer ==
    \A i, j \in Occupied : seats[i].player = seats[j].player => i = j

\* None of the player's sessions is in the middle of something.
Quiet(p) == \A s \in Sessions : Owner[s] = p => ~ Midway(s)

\* No ghost seat: the seat of a player whose sessions have settled, unless it is
\* being given up, is known to the manager (replay, takeover and cleanup all find
\* it through that entry).  Superseded sessions may close at any time; only a
\* login that overtakes a session in the middle of something is set apart.
NoGhostSeat ==
    \A i \in Occupied :
        (~ seats[i].leave_pending /\ Quiet(seats[i].player))
            => seats[i].player \in player_table \union overtaken

\* "a newer session has taken the seat over and the OLD session's cleanup must not
\* vacate it": nor take away its entry.
TakeoverKeepsEntry ==
    \A i \in Occupied :
        (~ seats[i].leave_pending /\ Quiet(seats[i].player))
            => seats[i].player \in player_table

\* Enough seats that can post lead to a hand: no wakeup is lost.
QuorumStartsHand ==
    (Cardinality(CanPost) >= MinSeats)
        ~> (actor = "hand" \/ Cardinality(CanPost) < MinSeats)

\* Leaves asked for while a hand is played are honoured, all of them.  (One asked
\* for while the actor goes round without playing waits for the next hand.)
LeaveHonoured ==
    (actor = "hand" /\ \E i \in Occupied : seats[i].leave_pending)
        ~> (\A i \in Occupied : ~ seats[i].leave_pending)

\* "Block until either we have quorum or the table is shut down": the actor is
\* not for ever busy without playing.
NoBusySpin == []<>(actor \in {"parked", "hand"})
=============================================================================
