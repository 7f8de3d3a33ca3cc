-------------------------- MODULE TableActorProofs --------------------------
(***************************************************************************)
(* The table's invariants, for any number of players and seats: the seats  *)
(* of a hand are held for it, a player has at most one seat, and no seat   *)
(* is left behind without an entry in player_table.                        *)
(***************************************************************************)
EXTENDS TableActor, WellFoundedInduction, TLAPS

-----------------------------------------------------------------------------
(* Least elements *)

\* A non-empty set of naturals has a least element (used for the scans that
\* stop at the first seat).
LEMMA LeastNatural ==
    ASSUME NEW T, T \subseteq Nat, T # {}
    PROVE  \E x \in T : \A y \in T : x <= y
<1>1. PICK x \in T : \A y \in T : ~ (<<y, x>> \in OpToRel(<, Nat))
    BY NatLessThanWellFounded, WFMin
<1>2. \A y \in T : ~ (y < x)
    BY <1>1 DEF OpToRel
<1> QED
    BY <1>2

\* Min picks an element below all others: the first free slot of Table::sit exists.
LEMMA MinType ==
    ASSUME NEW S, S \subseteq Nat, S # {}
    PROVE  Min(S) \in S /\ \A y \in S : Min(S) <= y
<1>1. \E x \in S : \A y \in S : x =< y
    BY LeastNatural
<1> QED
    BY <1>1 DEF Min

-----------------------------------------------------------------------------
(* The inductive invariant *)

\* hand_in_progress is set from the quorum check to apply_hand_result.
HandFlag == hand_in_progress <=> (actor \in {"snapshot", "quorum_lost", "hand"})

\* A later session of the same player has come.
Superseded(s) == \E t \in Sessions : s \in Before(t) /\ ~ At(t, "offline")

\* A superseded session can only close; unless it was overtaken it is not in the
\* middle of anything.
SessionOrder ==
    \A s \in Sessions :
        Superseded(s) =>
            /\ ~ At(s, "offline")
            /\ revoked[s] \/ At(s, "closed")
            /\ Owner[s] \notin overtaken => ~ Midway(s)

\* A seat its player keeps, of a player none of whose sessions was overtaken.
Kept(i) == ~ seats[i].leave_pending /\ seats[i].player \notin overtaken

\* Such a seat has an entry, or a session of the player is between the seat and
\* the entry; none is about to take the entry away.
SeatsRecorded ==
    \A i \in Occupied :
        Kept(i) =>
            /\ \/ seats[i].player \in player_table
               \/ \E s \in Sessions : /\ Owner[s] = seats[i].player
                                      /\ session[s] \in {"record_join", "force_leave"}
            /\ \A s \in Sessions : Owner[s] = seats[i].player => ~ At(s, "record_leave")

\* Such a seat is bound to the player's newest session, once it has taken over.
SeatsBound ==
    \A i \in Occupied, s \in Sessions :
        (Kept(i) /\ Owner[s] = seats[i].player /\ ~ Superseded(s)) =>
            /\ At(s, "replace") => found[s] = seats[i].link
            /\ session[s] \notin {"offline", "lookup", "replace", "closed"}
                => seats[i].bound = s

\* The inductive invariant of a table.
Inv ==
    /\ TypeOK /\ HandFlag /\ HandSeatsHeld /\ OneSeatPerPlayer
    /\ SessionOrder /\ SeatsRecorded /\ SeatsBound

-----------------------------------------------------------------------------
(* Lemmas *)

\* What a seat index of the table holds.
LEMMA OccupiedType ==
    ASSUME TypeOK
    PROVE  /\ Occupied \subseteq SeatIndex /\ SeatIndex \subseteq Nat
           /\ \A i \in Occupied : seats[i] \in Seat
           /\ \A p \in Players : SeatsOf(p) \subseteq Occupied
BY TableAssumption DEF TypeOK, Occupied, SeatsOf, SeatIndex

\* The scan of next_occupied_seat ends at a slot of the table.
LEMMA NextOccupiedType ==
    ASSUME NEW slots, NEW from \in SeatIndex
    PROVE  next_occupied_seat(slots, from) \in SeatIndex
<1> DEFINE occupied == {i \in SeatIndex : slots[i] # NoSeat}
           Steps(i) == IF i > from THEN i - from ELSE i - from + MaxSeats
           D == {Steps(i) : i \in occupied}
<1>1. CASE occupied = {}
    BY <1>1 DEF next_occupied_seat
<1>2. CASE occupied # {}
    <2>1. \A i \in SeatIndex : Steps(i) \in Nat
        BY TableAssumption DEF SeatIndex
    <2>2. D \subseteq Nat /\ D # {}
        BY <1>2, <2>1
    <2>3. PICK d \in D : \A e \in D : d <= e
        BY <2>2, LeastNatural
    <2>4. \E i \in occupied : \A j \in occupied : Steps(i) <= Steps(j)
        BY <2>3
    <2>5. (CHOOSE i \in occupied : \A j \in occupied : Steps(i) <= Steps(j)) \in occupied
        BY <2>4
    <2> QED
        BY <1>2, <2>5 DEF next_occupied_seat
<1> QED
    BY <1>1, <1>2

\* The dealer of a snapshot is a slot of the table.
LEMMA DealerType ==
    ASSUME TypeOK, NEW playing \in SUBSET SeatIndex
    PROVE  DealerFor(playing) \in SeatIndex
<1>1. 0 \in SeatIndex /\ SeatIndex \subseteq Nat
    BY TableAssumption DEF SeatIndex
<1>2. playing \subseteq Nat /\ {i \in playing : i >= button} \subseteq Nat
    BY <1>1
<1> QED
    BY <1>1, <1>2, MinType DEF DealerFor

\* The sessions before s are sessions of the same player.
LEMMA BeforeType ==
    ASSUME NEW s \in Sessions
    PROVE  /\ Before(s) \subseteq Sessions
           /\ \A t \in Sessions : t \in Before(s) <=> (Owner[t] = Owner[s] /\ t < s)
BY TableAssumption DEF Before, Sessions

\* A player none of whose sessions was overtaken has at most one session in the
\* middle of something, and it is the newest.
LEMMA OnlyMidway ==
    ASSUME TypeOK, SessionOrder, NEW s \in Sessions, NEW t \in Sessions,
           Owner[s] = Owner[t], Owner[s] \notin overtaken, Midway(s), t # s
    PROVE  ~ Superseded(s) /\ ~ Midway(t)
<1>1. ~ Superseded(s)
    BY DEF SessionOrder
<1>2. ~ At(s, "offline")
    BY DEF At, Midway
<1>3. s < t \/ t < s
    BY TableAssumption DEF Sessions
<1>4. CASE s < t
    <2>1. s \in Before(t)
        BY <1>4, BeforeType
    <2>2. At(t, "offline")
        BY <1>1, <2>1 DEF Superseded
    <2> QED
        BY <1>1, <2>2 DEF At, Midway
<1>5. CASE t < s
    <2>1. Superseded(t)
        BY <1>2, <1>5, BeforeType DEF Superseded
    <2> QED
        BY <1>1, <2>1 DEF SessionOrder
<1> QED
    BY <1>3, <1>4, <1>5

\* The initial table satisfies the invariant.
LEMMA InitInv == Init => Inv
<1> SUFFICES ASSUME Init PROVE Inv
    OBVIOUS
<1>1. 0 \in SeatIndex
    BY TableAssumption DEF SeatIndex
<1>2. Occupied = {}
    BY DEF Init, Occupied
<1>3. TypeOK
    BY <1>1 DEF Init, TypeOK, Places
<1>4. HandFlag /\ HandSeatsHeld
    BY DEF Init, HandFlag, HandSeatsHeld
<1>5. OneSeatPerPlayer /\ SeatsRecorded /\ SeatsBound
    BY <1>2 DEF OneSeatPerPlayer, SeatsRecorded, SeatsBound
<1>6. \A s \in Sessions : At(s, "offline")
    BY DEF Init, At
<1>7. SessionOrder
    BY <1>6 DEF SessionOrder, Superseded
<1> QED
    BY <1>3, <1>4, <1>5, <1>7 DEF Inv

\* Steps of sessions that leave the seats alone.
LEMMA SeatsUntouched ==
    ASSUME Inv, UNCHANGED <<table, run>>
    PROVE  HandFlag' /\ HandSeatsHeld' /\ OneSeatPerPlayer'
BY DEF Inv, table, run, HandFlag, HandSeatsHeld, OneSeatPerPlayer, Occupied, Playing

\* A session goes on to another place: the order of sessions stays, as long as one
\* that starts something new is not revoked.
LEMMA GoesOn ==
    ASSUME Inv, NEW s \in Sessions, NEW place \in Places, Goto(s, place),
           UNCHANGED <<revoked, overtaken>>,
           place # "offline", ~ At(s, "offline"), ~ At(s, "closed"),
           Midway(s) \/ ~ revoked[s] \/ place = "closed"
    PROVE  /\ SessionOrder'
           /\ session' \in [Sessions -> Places]
           /\ session'[s] = place
           /\ \A t \in Sessions \ {s} : session'[t] = session[t]
           /\ \A t \in Sessions : Superseded(t)' <=> Superseded(t)
<1>1. /\ session \in [Sessions -> Places] /\ session' = [session EXCEPT ![s] = place]
      /\ SessionOrder
    BY DEF Inv, TypeOK, Goto
<1>2. /\ session'[s] = place /\ session' \in [Sessions -> Places]
      /\ \A t \in Sessions \ {s} : session'[t] = session[t]
    BY <1>1
<1>3. \A t \in Sessions : At(t, "offline")' <=> At(t, "offline")
    BY <1>2 DEF At
<1>4. \A t \in Sessions : Superseded(t)' <=> Superseded(t)
    BY <1>3 DEF Superseded, Before
<1>5. SUFFICES ASSUME NEW t \in Sessions, Superseded(t)
               PROVE  /\ ~ At(t, "offline")'
                      /\ revoked'[t] \/ At(t, "closed")'
                      /\ Owner[t] \notin overtaken' => ~ Midway(t)'
    BY <1>2, <1>4 DEF SessionOrder
<1>6. /\ ~ At(t, "offline")
      /\ revoked[t] \/ At(t, "closed")
      /\ Owner[t] \notin overtaken => ~ Midway(t)
    BY <1>1, <1>5 DEF SessionOrder
<1>7. CASE t # s
    <2>1. session'[t] = session[t]
        BY <1>2, <1>7
    <2> QED
        BY <1>6, <2>1 DEF At, Midway
<1>8. CASE t = s
    <2>1. revoked[s] /\ revoked' = revoked /\ overtaken' = overtaken
        BY <1>6, <1>8
    <2>2. Owner[s] \notin overtaken => place = "closed"
        BY <1>6, <1>8, <2>1
    <2> QED
        BY <1>2, <1>8, <2>1, <2>2 DEF At, Midway
<1> QED
    BY <1>7, <1>8

\* The steps of a session that leave the seats and the actor alone.
SeatlessStep(s) ==
    \/ FindSeat(s) \/ JoinTable(s) \/ SitRefused(s) \/ RecordJoin(s) \/ LeaveTable(s)
    \/ RecordLeave(s) \/ CloseSession(s) \/ CloseRecord(s)

\* Where such a step takes its session from, and to.
LEMMA SeatlessPlaces ==
    ASSUME Inv, NEW s \in Sessions, SeatlessStep(s)
    PROVE  /\ SessionOrder' /\ session' \in [Sessions -> Places]
           /\ \A t \in Sessions \ {s} : session'[t] = session[t]
           /\ \A t \in Sessions : Superseded(t)' <=> Superseded(t)
           /\ \/ session[s] = "lookup" /\ session'[s] \in {"replace", "idle"}
              \/ session[s] = "idle" /\ ~ revoked[s]
                  /\ session'[s] \in {"sit", "leave", "close_record"}
              \/ session[s] \in {"sit", "record_join", "record_leave"} /\ session'[s] = "idle"
              \/ session[s] \in {"idle", "close_record"}
                  /\ session'[s] \in {"closed", "force_leave"}
<1>1. \E place \in Places :
        /\ Goto(s, place)
        /\ UNCHANGED <<revoked, overtaken>>
        /\ place # "offline" /\ ~ At(s, "offline") /\ ~ At(s, "closed")
        /\ Midway(s) \/ ~ revoked[s] \/ place = "closed"
        /\ \/ session[s] = "lookup" /\ place \in {"replace", "idle"}
           \/ session[s] = "idle" /\ ~ revoked[s] /\ place \in {"sit", "leave", "close_record"}
           \/ session[s] \in {"sit", "record_join", "record_leave"} /\ place = "idle"
           \/ session[s] \in {"idle", "close_record"} /\ place \in {"closed", "force_leave"}
    <2> USE DEF At, Midway, Places, flags
    <2>1. CASE FindSeat(s)
        BY <2>1 DEF FindSeat
    <2>2. CASE JoinTable(s)
        BY <2>2 DEF JoinTable
    <2>3. CASE SitRefused(s)
        BY <2>3 DEF SitRefused
    <2>4. CASE RecordJoin(s)
        BY <2>4 DEF RecordJoin
    <2>5. CASE LeaveTable(s)
        BY <2>5 DEF LeaveTable
    <2>6. CASE RecordLeave(s)
        BY <2>6 DEF RecordLeave
    <2>7. CASE CloseSession(s)
        BY <2>7 DEF CloseSession
    <2>8. CASE CloseRecord(s)
        BY <2>8 DEF CloseRecord
    <2> QED
        BY <2>1, <2>2, <2>3, <2>4, <2>5, <2>6, <2>7, <2>8 DEF SeatlessStep
<1> QED
    BY <1>1, GoesOn

\* Of two sessions of a player that are not offline, one is superseded.
LEMMA OnlyNewest ==
    ASSUME NEW s \in Sessions, NEW t \in Sessions, Owner[s] = Owner[t], t # s,
           ~ At(s, "offline"), ~ At(t, "offline")
    PROVE  Superseded(s) \/ Superseded(t)
<1>1. s < t \/ t < s
    BY TableAssumption DEF Sessions
<1> QED
    BY <1>1, BeforeType DEF Superseded

\* Seats and entries go together over the steps that leave the seats alone.
LEMMA SeatlessInv ==
    ASSUME Inv, NEW s \in Sessions, SeatlessStep(s)
    PROVE  Inv'
<1>1. UNCHANGED <<table, notify, run, revoked, overtaken>>
    BY DEF SeatlessStep, FindSeat, JoinTable, SitRefused, RecordJoin, LeaveTable,
           RecordLeave, CloseSession, CloseRecord, flags
<1>2. /\ SessionOrder' /\ session' \in [Sessions -> Places]
      /\ \A t \in Sessions \ {s} : session'[t] = session[t]
      /\ \A t \in Sessions : Superseded(t)' <=> Superseded(t)
      /\ \/ session[s] = "lookup" /\ session'[s] \in {"replace", "idle"}
         \/ session[s] = "idle" /\ ~ revoked[s]
             /\ session'[s] \in {"sit", "leave", "close_record"}
         \/ session[s] \in {"sit", "record_join", "record_leave"} /\ session'[s] = "idle"
         \/ session[s] \in {"idle", "close_record"}
             /\ session'[s] \in {"closed", "force_leave"}
    BY SeatlessPlaces
<1>3. Owner[s] \in Players
    BY TableAssumption
<1>4. \/ UNCHANGED player_table
      \/ RecordJoin(s) /\ player_table' = player_table \union {Owner[s]}
      \/ RecordLeave(s) /\ player_table' = player_table \ {Owner[s]}
      \/ CloseRecord(s) /\ player_table' = player_table \ {Owner[s]}
    BY DEF SeatlessStep, FindSeat, JoinTable, SitRefused, RecordJoin, LeaveTable,
           RecordLeave, CloseSession, CloseRecord, record_join, record_leave
<1>5. /\ found' \in [Sessions -> Sessions]
      /\ \A t \in Sessions \ {s} : found'[t] = found[t]
    <2>1. found \in [Sessions -> Sessions]
        BY DEF Inv, TypeOK
    <2>2. CASE UNCHANGED found
        BY <2>1, <2>2
    <2>3. CASE /\ FindSeat(s) /\ SeatsOf(Owner[s]) # {}
               /\ found' = [found EXCEPT ![s] = seats[Min(SeatsOf(Owner[s]))].link]
        <3>1. SeatsOf(Owner[s]) \subseteq Occupied /\ Occupied \subseteq Nat
            BY <1>3, OccupiedType DEF Inv
        <3>2. Min(SeatsOf(Owner[s])) \in Occupied
            BY <2>3, <3>1, MinType
        <3>3. seats[Min(SeatsOf(Owner[s]))].link \in Sessions
            BY <3>2, OccupiedType DEF Inv, Seat
        <3> QED
            BY <2>1, <2>3, <3>3
    <2> QED
        BY <2>2, <2>3 DEF SeatlessStep, FindSeat, JoinTable, SitRefused, RecordJoin,
           LeaveTable, RecordLeave, CloseSession, CloseRecord, flags
<1>6. TypeOK'
    <2>1. player_table' \subseteq Players
        BY <1>3, <1>4 DEF Inv, TypeOK
    <2> QED
        BY <1>1, <1>2, <1>5, <2>1 DEF Inv, TypeOK, table, run, Places
<1>7. HandFlag' /\ HandSeatsHeld' /\ OneSeatPerPlayer'
    BY <1>1, SeatsUntouched
<1>8. /\ Occupied' = Occupied /\ UNCHANGED seats
      /\ \A i : Kept(i)' <=> Kept(i)
    BY <1>1 DEF table, Occupied, Kept
<1>9. SeatsRecorded'
    <2>1. SUFFICES ASSUME NEW i \in Occupied, Kept(i)
                   PROVE  /\ \/ seats[i].player \in player_table'
                             \/ \E t \in Sessions :
                                    /\ Owner[t] = seats[i].player
                                    /\ session'[t] \in {"record_join", "force_leave"}
                          /\ \A t \in Sessions : Owner[t] = seats[i].player
                                => session'[t] # "record_leave"
        BY <1>8 DEF SeatsRecorded, At
    <2>2. /\ \/ seats[i].player \in player_table
             \/ \E t \in Sessions : /\ Owner[t] = seats[i].player
                                    /\ session[t] \in {"record_join", "force_leave"}
          /\ \A t \in Sessions : Owner[t] = seats[i].player => session[t] # "record_leave"
        BY <2>1 DEF Inv, SeatsRecorded, At
    <2>3. \A t \in Sessions : Owner[t] = seats[i].player => session'[t] # "record_leave"
        BY <1>2, <2>2
    <2>4. CASE seats[i].player \in player_table
        <3>1. CASE seats[i].player \in player_table'
            BY <2>3, <3>1
        <3>2. CASE seats[i].player \notin player_table'
            <4>1. Owner[s] = seats[i].player /\ CloseRecord(s)
                BY <1>4, <2>2, <2>4, <3>2 DEF RecordLeave, At
            <4>2. session' = [session EXCEPT ![s] = "force_leave"]
                BY <2>4, <4>1 DEF CloseRecord, AtTable, Goto
            <4>3. session'[s] = "force_leave"
                BY <4>2 DEF Inv, TypeOK
            <4> QED
                BY <2>3, <4>1, <4>3
        <3> QED
            BY <3>1, <3>2
    <2>5. CASE seats[i].player \notin player_table
        <3>1. PICK t \in Sessions : /\ Owner[t] = seats[i].player
                                    /\ session[t] \in {"record_join", "force_leave"}
            BY <2>2, <2>5
        <3>2. CASE t # s
            BY <1>2, <2>3, <3>1, <3>2
        <3>3. CASE t = s
            <4>1. RecordJoin(s)
                BY <3>1, <3>3 DEF SeatlessStep, FindSeat, JoinTable, SitRefused, LeaveTable,
                   RecordLeave, CloseSession, CloseRecord, At
            <4> QED
                BY <2>3, <3>1, <3>3, <4>1 DEF RecordJoin, record_join
        <3> QED
            BY <3>2, <3>3
    <2> QED
        BY <2>4, <2>5
<1>10. SeatsBound'
    <2>1. SUFFICES ASSUME NEW i \in Occupied, NEW t \in Sessions,
                          Kept(i), Owner[t] = seats[i].player, ~ Superseded(t)
                   PROVE  /\ session'[t] = "replace" => found'[t] = seats[i].link
                          /\ session'[t] \notin {"offline", "lookup", "replace", "closed"}
                                => seats[i].bound = t
        BY <1>2, <1>8 DEF SeatsBound, At
    <2>2. /\ session[t] = "replace" => found[t] = seats[i].link
          /\ session[t] \notin {"offline", "lookup", "replace", "closed"} => seats[i].bound = t
        BY <2>1 DEF Inv, SeatsBound, At
    <2>3. CASE t # s
        BY <1>2, <1>5, <2>2, <2>3
    <2>4. CASE t = s /\ ~ FindSeat(s)
        <3>1. session[s] \notin {"lookup", "replace", "offline", "closed"}
              /\ session'[s] # "replace"
            BY <1>2, <2>4 DEF SeatlessStep, JoinTable, SitRefused, RecordJoin,
               LeaveTable, RecordLeave, CloseSession, CloseRecord, At
        <3> QED
            BY <2>2, <2>4, <3>1
    <2>5. CASE t = s /\ FindSeat(s)
        <3>1. i \in SeatsOf(Owner[s])
            BY <2>1, <2>5 DEF SeatsOf
        <3>2. /\ session \in [Sessions -> Places] /\ found \in [Sessions -> Sessions]
              /\ session[s] = "lookup"
            BY <2>5 DEF Inv, TypeOK, FindSeat, At
        <3>3. AtTable(Owner[s])
            <4>1. SUFFICES ASSUME ~ AtTable(Owner[s]) PROVE FALSE
                OBVIOUS
            <4>2. PICK r \in Sessions : /\ Owner[r] = seats[i].player
                                        /\ session[r] \in {"record_join", "force_leave"}
                BY <2>1, <2>5, <4>1 DEF Inv, SeatsRecorded, AtTable
            <4>3. r # s /\ Midway(s) /\ Midway(r)
                BY <3>2, <4>2 DEF Midway
            <4>4. Owner[s] = Owner[r] /\ Owner[s] \notin overtaken
                BY <2>1, <2>5, <4>2 DEF Kept
            <4> QED
                BY <4>3, <4>4, OnlyMidway DEF Inv
        <3>4. Min(SeatsOf(Owner[s])) = i
            <4>1. SeatsOf(Owner[s]) \subseteq Occupied /\ Occupied \subseteq Nat
                BY <1>3, OccupiedType DEF Inv
            <4>2. Min(SeatsOf(Owner[s])) \in SeatsOf(Owner[s])
                BY <3>1, <4>1, MinType
            <4> QED
                BY <2>1, <2>5, <4>1, <4>2 DEF SeatsOf, Inv, OneSeatPerPlayer
        <3>5. /\ found' = [found EXCEPT ![s] = seats[i].link]
              /\ session' = [session EXCEPT ![s] = "replace"]
            BY <2>5, <3>1, <3>3, <3>4 DEF FindSeat, Goto
        <3> QED
            BY <2>5, <3>2, <3>5
    <2> QED
        BY <2>3, <2>4, <2>5
<1> QED
    BY <1>2, <1>6, <1>7, <1>9, <1>10 DEF Inv

\* A login revokes the sessions before it and leaves everything else.
LEMMA LoginInv ==
    ASSUME Inv, NEW s \in Sessions, Login(s)
    PROVE  Inv'
<1>1. /\ UNCHANGED <<table, notify, run, player_table, found>>
      /\ session[s] = "offline"
      /\ session' = [session EXCEPT ![s] = "lookup"]
      /\ session \in [Sessions -> Places]
    BY DEF Login, Goto, At, Inv, TypeOK
<1>2. /\ session'[s] = "lookup" /\ session' \in [Sessions -> Places]
      /\ \A t \in Sessions \ {s} : session'[t] = session[t]
    BY <1>1 DEF Places
<1>3. /\ overtaken \subseteq overtaken'
      /\ overtaken' \subseteq overtaken \union {Owner[s]}
      /\ Owner[s] \notin overtaken' => \A t \in Before(s) : ~ Midway(t)
    BY DEF Login
<1>4. /\ revoked' \in [Sessions -> BOOLEAN]
      /\ \A t \in Sessions : revoked[t] => revoked'[t]
      /\ \A t \in Before(s) : revoked'[t] \/ At(t, "closed")
      /\ \A t \in Before(s) : ~ At(t, "offline")
    <2>1. revoked \in [Sessions -> BOOLEAN]
        BY DEF Inv, TypeOK
    <2> QED
        BY <2>1, BeforeType DEF Login
<1>5. TypeOK'
    <2>1. overtaken' \subseteq Players
        BY <1>3, TableAssumption DEF Inv, TypeOK
    <2> QED
        BY <1>1, <1>2, <1>4, <2>1 DEF Inv, TypeOK, table, run
<1>6. HandFlag' /\ HandSeatsHeld' /\ OneSeatPerPlayer'
    BY <1>1, SeatsUntouched
<1>7. Occupied' = Occupied /\ UNCHANGED seats /\ \A i : Kept(i)' => Kept(i)
    BY <1>1, <1>3 DEF table, Occupied, Kept
<1>8. \A t \in Sessions : Superseded(t)' <=> (Superseded(t) \/ t \in Before(s))
    <2>1. \A t, r \in Sessions :
            (t \in Before(r) /\ session'[r] # "offline")
                <=> (t \in Before(r) /\ (session[r] # "offline" \/ r = s))
        BY <1>2
    <2> QED
        BY <2>1 DEF Superseded, At, Before
<1>9. SessionOrder'
    <2>1. SUFFICES ASSUME NEW t \in Sessions, Superseded(t) \/ t \in Before(s)
                   PROVE  /\ session'[t] # "offline"
                          /\ revoked'[t] \/ session'[t] = "closed"
                          /\ Owner[t] \notin overtaken' => ~ Midway(t)'
        BY <1>8 DEF SessionOrder, At
    <2>2. CASE t \in Before(s)
        <3>1. t # s /\ Owner[t] = Owner[s]
            BY <2>2, BeforeType, TableAssumption DEF Sessions
        <3>2. session'[t] = session[t]
            BY <1>2, <3>1
        <3> QED
            BY <1>3, <1>4, <2>2, <3>1, <3>2 DEF At, Midway
    <2>3. CASE Superseded(t)
        <3>1. /\ session[t] # "offline" /\ (revoked[t] \/ session[t] = "closed")
              /\ Owner[t] \notin overtaken => ~ Midway(t)
            BY <2>3 DEF Inv, SessionOrder, At
        <3>2. session'[t] = session[t]
            BY <1>1, <1>2, <3>1
        <3> QED
            BY <1>3, <1>4, <3>1, <3>2 DEF Midway
    <2> QED
        BY <2>1, <2>2, <2>3
<1>10. SeatsRecorded'
    <2>1. SUFFICES ASSUME NEW i \in Occupied, Kept(i)
                   PROVE  /\ \/ seats[i].player \in player_table
                             \/ \E t \in Sessions :
                                    /\ Owner[t] = seats[i].player
                                    /\ session'[t] \in {"record_join", "force_leave"}
                          /\ \A t \in Sessions : Owner[t] = seats[i].player
                                => session'[t] # "record_leave"
        BY <1>1, <1>7 DEF SeatsRecorded, At
    <2>2. /\ \/ seats[i].player \in player_table
             \/ \E t \in Sessions : /\ Owner[t] = seats[i].player
                                    /\ session[t] \in {"record_join", "force_leave"}
          /\ \A t \in Sessions : Owner[t] = seats[i].player => session[t] # "record_leave"
        BY <2>1 DEF Inv, SeatsRecorded, At
    <2> QED
        BY <1>1, <1>2, <2>2
<1>11. SeatsBound'
    <2>1. SUFFICES ASSUME NEW i \in Occupied, NEW t \in Sessions,
                          Kept(i), Owner[t] = seats[i].player, ~ Superseded(t)
                   PROVE  /\ session'[t] = "replace" => found[t] = seats[i].link
                          /\ session'[t] \notin {"offline", "lookup", "replace", "closed"}
                                => seats[i].bound = t
        BY <1>1, <1>7, <1>8 DEF SeatsBound, At
    <2>2. /\ session[t] = "replace" => found[t] = seats[i].link
          /\ session[t] \notin {"offline", "lookup", "replace", "closed"} => seats[i].bound = t
        BY <2>1 DEF Inv, SeatsBound, At
    <2> QED
        BY <1>2, <2>2
<1> QED
    BY <1>5, <1>6, <1>9, <1>10, <1>11 DEF Inv

\* The takeover binds the seat whose link was found to the session, and nothing else.
LEMMA ReplaceInv ==
    ASSUME Inv, NEW s \in Sessions, ReplaceLink(s)
    PROVE  Inv'
<1>1. /\ seats \in [SeatIndex -> Seat \union {NoSeat}]
      /\ session \in [Sessions -> Places] /\ found \in [Sessions -> Sessions]
      /\ session[s] = "replace"
    BY DEF Inv, TypeOK, ReplaceLink, At
<1>2. /\ SessionOrder' /\ session' \in [Sessions -> Places] /\ session'[s] = "idle"
      /\ \A t \in Sessions \ {s} : session'[t] = session[t]
      /\ \A t \in Sessions : Superseded(t)' <=> Superseded(t)
    <2>1. /\ Goto(s, "idle") /\ UNCHANGED <<revoked, overtaken>>
          /\ "idle" \in Places /\ Midway(s) /\ ~ At(s, "offline") /\ ~ At(s, "closed")
        BY <1>1 DEF ReplaceLink, Midway, At, Places
    <2> QED
        BY <2>1, GoesOn
<1>3. /\ UNCHANGED <<button, hand_in_progress, notify, run, player_table, revoked, overtaken>>
      /\ found' = [found EXCEPT ![s] = s]
    BY DEF ReplaceLink
<1>4. \A i \in SeatIndex :
        \/ seats'[i] = seats[i] /\ ~ (i \in SeatsOf(Owner[s]) /\ seats[i].link = found[s])
        \/ /\ i \in SeatsOf(Owner[s]) /\ seats[i].link = found[s]
           /\ seats'[i] = [seats[i] EXCEPT !.bound = s]
    BY DEF ReplaceLink
<1>5. \A i \in SeatIndex :
        /\ seats'[i] # NoSeat <=> seats[i] # NoSeat
        /\ seats'[i] \in Seat \union {NoSeat}
        /\ seats[i] # NoSeat =>
            /\ seats'[i].player = seats[i].player /\ seats'[i].stack = seats[i].stack
            /\ seats'[i].leave_pending = seats[i].leave_pending
            /\ seats'[i].link = seats[i].link
            /\ seats'[i].bound = IF seats[i].player = Owner[s] /\ seats[i].link = found[s]
                                 THEN s ELSE seats[i].bound
    <2>1. SUFFICES ASSUME NEW i \in SeatIndex, seats[i] # NoSeat
                   PROVE  /\ seats'[i] # NoSeat /\ seats'[i] \in Seat
                          /\ seats'[i].player = seats[i].player
                          /\ seats'[i].stack = seats[i].stack
                          /\ seats'[i].leave_pending = seats[i].leave_pending
                          /\ seats'[i].link = seats[i].link
                          /\ seats'[i].bound = IF seats[i].player = Owner[s]
                                                    /\ seats[i].link = found[s]
                                               THEN s ELSE seats[i].bound
        BY <1>1, <1>4 DEF SeatsOf, Occupied
    <2>2. seats[i] \in Seat
        BY <1>1, <2>1
    <2>3. i \in SeatsOf(Owner[s]) <=> seats[i].player = Owner[s]
        BY <2>1 DEF SeatsOf, Occupied
    <2>4. seats'[i] \in Seat
        BY <1>4, <2>2 DEF Seat
    <2> QED
        BY <1>4, <2>2, <2>3, <2>4, TableAssumption DEF Seat
<1>6. Occupied' = Occupied /\ \A i \in Occupied : Kept(i)' <=> Kept(i)
    BY <1>3, <1>5 DEF Occupied, Kept
<1>7. TypeOK'
    <2>1. seats' \in [SeatIndex -> Seat \union {NoSeat}]
        <3>1. seats' = [i \in SeatIndex |-> seats'[i]]
            BY DEF ReplaceLink
        <3> QED
            BY <1>5, <3>1
    <2> QED
        BY <1>1, <1>2, <1>3, <2>1 DEF Inv, TypeOK, run
<1>8. HandFlag'
    BY <1>3 DEF Inv, HandFlag, run
<1>9. HandSeatsHeld'
    <2>1. /\ UNCHANGED <<actor, snapshot>> /\ Playing' = Playing /\ Playing \subseteq SeatIndex
        BY <1>3 DEF run, Playing
    <2> QED
        BY <1>5, <2>1 DEF Inv, HandSeatsHeld
<1>10. OneSeatPerPlayer'
    BY <1>5, <1>6 DEF Inv, OneSeatPerPlayer, Occupied
<1>11. SeatsRecorded'
    <2>1. SUFFICES ASSUME NEW i \in Occupied, Kept(i)
                   PROVE  /\ \/ seats[i].player \in player_table
                             \/ \E t \in Sessions :
                                    /\ Owner[t] = seats[i].player
                                    /\ session'[t] \in {"record_join", "force_leave"}
                          /\ \A t \in Sessions : Owner[t] = seats[i].player
                                => session'[t] # "record_leave"
        BY <1>3, <1>5, <1>6 DEF SeatsRecorded, At, Occupied
    <2>2. /\ \/ seats[i].player \in player_table
             \/ \E t \in Sessions : /\ Owner[t] = seats[i].player
                                    /\ session[t] \in {"record_join", "force_leave"}
          /\ \A t \in Sessions : Owner[t] = seats[i].player => session[t] # "record_leave"
        BY <2>1 DEF Inv, SeatsRecorded, At
    <2> QED
        BY <1>1, <1>2, <2>2
<1>12. SeatsBound'
    <2>1. SUFFICES ASSUME NEW i \in Occupied, NEW t \in Sessions,
                          Kept(i), Owner[t] = seats[i].player, ~ Superseded(t)
                   PROVE  /\ session'[t] = "replace" => found'[t] = seats[i].link
                          /\ session'[t] \notin {"offline", "lookup", "replace", "closed"}
                                => seats'[i].bound = t
        BY <1>2, <1>5, <1>6 DEF SeatsBound, At, Occupied
    <2>2. /\ session[t] = "replace" => found[t] = seats[i].link
          /\ session[t] \notin {"offline", "lookup", "replace", "closed"} => seats[i].bound = t
        BY <2>1 DEF Inv, SeatsBound, At
    <2>3. i \in SeatIndex /\ seats[i] # NoSeat
        BY DEF Occupied
    <2>4. CASE t = s
        BY <1>1, <1>2, <1>5, <2>1, <2>2, <2>3, <2>4
    <2>5. CASE t # s
        <3>1. session'[t] = session[t] /\ found'[t] = found[t]
            BY <1>1, <1>2, <1>3, <2>5
        <3>2. CASE session[t] = "offline"
            BY <3>1, <3>2
        <3>3. CASE seats[i].player # Owner[s]
            BY <1>5, <2>2, <2>3, <3>1, <3>3
        <3>4. CASE session[t] # "offline" /\ seats[i].player = Owner[s]
            <4>1. Midway(s) /\ ~ At(s, "offline") /\ ~ At(t, "offline")
                BY <1>1, <3>4 DEF Midway, At
            <4>2. ~ Superseded(s)
                BY <2>1, <3>4, <4>1 DEF Inv, SessionOrder, Kept
            <4> QED
                BY <2>1, <2>5, <3>4, <4>1, <4>2, OnlyNewest
        <3> QED
            BY <3>2, <3>3, <3>4
    <2> QED
        BY <2>4, <2>5
<1> QED
    BY <1>2, <1>7, <1>8, <1>9, <1>10, <1>11, <1>12 DEF Inv

\* Table::sit.
LEMMA SitInv ==
    ASSUME Inv, NEW s \in Sessions, Sit(s)
    PROVE  Inv'
<1>1. PICK buy_in \in BuyIns : TakeSeat(s, Min(SeatIndex \ Occupied), buy_in)
    BY DEF Sit
<1> DEFINE k == Min(SeatIndex \ Occupied)
           new == NewSeat(s, buy_in)
<1>2. k \in SeatIndex /\ k \notin Occupied
    <2>1. SeatIndex \ Occupied \subseteq Nat /\ SeatIndex \ Occupied # {}
        BY OccupiedType DEF Sit, Inv
    <2> QED
        BY <2>1, MinType
<1> HIDE DEF k
<1>3. /\ seats' = [seats EXCEPT ![k] = new] /\ notify' = TRUE
      /\ UNCHANGED <<button, hand_in_progress, run, player_table, revoked, found, overtaken>>
    BY <1>1 DEF TakeSeat, Sit, k, flags
<1>4. /\ SessionOrder' /\ session' \in [Sessions -> Places] /\ session'[s] = "record_join"
      /\ \A t \in Sessions \ {s} : session'[t] = session[t]
      /\ \A t \in Sessions : Superseded(t)' <=> Superseded(t)
      /\ Midway(s) /\ ~ At(s, "offline")
    <2>1. /\ Goto(s, "record_join") /\ UNCHANGED <<revoked, overtaken>>
          /\ "record_join" \in Places /\ Midway(s) /\ ~ At(s, "offline") /\ ~ At(s, "closed")
        BY DEF Sit, Midway, At, Places, flags
    <2> QED
        BY <2>1, GoesOn
<1>5. /\ new \in Seat /\ new # NoSeat
      /\ new.player = Owner[s] /\ new.bound = s
    <2>1. buy_in \in Nat /\ Owner[s] \in Players
        BY TableAssumption
    <2>2. new \in Seat
        BY <2>1 DEF Seat, NewSeat
    <2> QED
        BY <2>2, TableAssumption DEF NewSeat
<1> HIDE DEF new
<1>6. /\ seats \in [SeatIndex -> Seat \union {NoSeat}] /\ session \in [Sessions -> Places]
    BY DEF Inv, TypeOK
<1>7. TypeOK'
    BY <1>2, <1>3, <1>4, <1>5, <1>6 DEF Inv, TypeOK, run
<1>8. Occupied' = Occupied \union {k} /\ \A i \in Occupied : seats'[i] = seats[i]
    BY <1>2, <1>3, <1>5, <1>6 DEF Occupied
<1>9. HandFlag'
    BY <1>3 DEF Inv, HandFlag, run
<1>10. HandSeatsHeld'
    BY <1>3, <1>8 DEF Inv, HandSeatsHeld, Playing, run, Occupied
<1>11. \A i \in Occupied : seats[i].player # Owner[s]
    BY DEF Sit, SeatsOf
<1>12. seats'[k] = new
    BY <1>2, <1>3, <1>6
<1>13. OneSeatPerPlayer'
    BY <1>5, <1>8, <1>11, <1>12 DEF Inv, OneSeatPerPlayer
<1>14. \A i \in Occupied : Kept(i)' <=> Kept(i)
    BY <1>3, <1>8 DEF Kept
<1>15. \A t \in Sessions :
        (t # s /\ Owner[t] = Owner[s] /\ Owner[s] \notin overtaken)
            => ~ Midway(t) /\ (Superseded(t) \/ At(t, "offline"))
    <2>1. Owner[s] \notin overtaken => ~ Superseded(s)
        BY <1>4 DEF Inv, SessionOrder
    <2>2. SUFFICES ASSUME NEW t \in Sessions, t # s, Owner[t] = Owner[s],
                          Owner[s] \notin overtaken
                   PROVE  ~ Midway(t) /\ (Superseded(t) \/ At(t, "offline"))
        OBVIOUS
    <2>3. ~ Midway(t)
        BY <1>4, <2>2, OnlyMidway DEF Inv
    <2> QED
        BY <1>4, <2>1, <2>2, <2>3, OnlyNewest
<1>16. SeatsRecorded'
    <2>1. SUFFICES ASSUME NEW i \in Occupied', Kept(i)'
                   PROVE  /\ \/ seats'[i].player \in player_table
                             \/ \E t \in Sessions :
                                    /\ Owner[t] = seats'[i].player
                                    /\ session'[t] \in {"record_join", "force_leave"}
                          /\ \A t \in Sessions : Owner[t] = seats'[i].player
                                => session'[t] # "record_leave"
        BY <1>3 DEF SeatsRecorded, At
    <2>2. CASE i = k
        <3>1. seats'[i].player = Owner[s] /\ Owner[s] \notin overtaken
            BY <1>3, <1>5, <1>12, <2>1, <2>2 DEF Kept
        <3>2. \A t \in Sessions :
                (t # s /\ Owner[t] = Owner[s]) => session'[t] # "record_leave"
            BY <1>4, <1>15, <3>1 DEF Midway
        <3> QED
            BY <1>4, <3>1, <3>2
    <2>3. CASE i \in Occupied
        <3>1. /\ \/ seats[i].player \in player_table
                 \/ \E t \in Sessions : /\ Owner[t] = seats[i].player
                                        /\ session[t] \in {"record_join", "force_leave"}
              /\ \A t \in Sessions : Owner[t] = seats[i].player => session[t] # "record_leave"
            BY <1>14, <2>1, <2>3 DEF Inv, SeatsRecorded, At
        <3> QED
            BY <1>4, <1>8, <1>11, <2>3, <3>1
    <2> QED
        BY <1>8, <2>2, <2>3
<1>17. SeatsBound'
    <2>1. SUFFICES ASSUME NEW i \in Occupied', NEW t \in Sessions,
                          Kept(i)', Owner[t] = seats'[i].player, ~ Superseded(t)
                   PROVE  /\ session'[t] = "replace" => found[t] = seats'[i].link
                          /\ session'[t] \notin {"offline", "lookup", "replace", "closed"}
                                => seats'[i].bound = t
        BY <1>3, <1>4 DEF SeatsBound, At
    <2>2. CASE i = k
        <3>1. CASE t = s
            BY <1>4, <1>5, <1>12, <2>2, <3>1
        <3>2. CASE t # s
            <4>1. Owner[t] = Owner[s] /\ Owner[s] \notin overtaken
                BY <1>3, <1>5, <1>12, <2>1, <2>2 DEF Kept
            <4>2. At(t, "offline")
                BY <1>15, <2>1, <3>2, <4>1
            <4> QED
                BY <1>4, <3>2, <4>2 DEF At
        <3> QED
            BY <3>1, <3>2
    <2>3. CASE i \in Occupied
        <3>1. t # s /\ session'[t] = session[t] /\ seats'[i] = seats[i]
            BY <1>4, <1>8, <1>11, <2>1, <2>3
        <3>2. /\ session[t] = "replace" => found[t] = seats[i].link
              /\ session[t] \notin {"offline", "lookup", "replace", "closed"}
                    => seats[i].bound = t
            BY <1>14, <2>1, <2>3, <3>1 DEF Inv, SeatsBound, At
        <3> QED
            BY <3>1, <3>2
    <2> QED
        BY <1>8, <2>2, <2>3
<1> QED
    BY <1>4, <1>7, <1>9, <1>10, <1>13, <1>16, <1>17 DEF Inv

\* leave and force_leave, on the player's own seat.
LEMMA VacateInv ==
    ASSUME Inv, NEW s \in Sessions, Leave(s) \/ ForceLeave(s)
    PROVE  Inv'
<1>1. /\ UNCHANGED <<button, hand_in_progress, run, player_table, revoked, found, overtaken>>
      /\ seats \in [SeatIndex -> Seat \union {NoSeat}]
    BY DEF Leave, ForceLeave, flags, Inv, TypeOK
<1>2. /\ SessionOrder' /\ session' \in [Sessions -> Places]
      /\ \A t \in Sessions \ {s} : session'[t] = session[t]
      /\ \A t \in Sessions : Superseded(t)' <=> Superseded(t)
      /\ \/ Leave(s) /\ session[s] = "leave" /\ session'[s] = "idle" /\ SeatsOf(Owner[s]) = {}
         \/ Leave(s) /\ session[s] = "leave" /\ session'[s] = "record_leave"
                     /\ SeatsOf(Owner[s]) # {}
         \/ ForceLeave(s) /\ session[s] = "force_leave" /\ session'[s] = "closed"
    <2>1. \E place \in Places :
            /\ Goto(s, place) /\ UNCHANGED <<revoked, overtaken>>
            /\ place # "offline" /\ Midway(s) /\ ~ At(s, "offline") /\ ~ At(s, "closed")
            /\ \/ Leave(s) /\ session[s] = "leave" /\ place = "idle" /\ SeatsOf(Owner[s]) = {}
               \/ Leave(s) /\ session[s] = "leave" /\ place = "record_leave"
                           /\ SeatsOf(Owner[s]) # {}
               \/ ForceLeave(s) /\ session[s] = "force_leave" /\ place = "closed"
        BY DEF Leave, ForceLeave, Midway, At, Places, flags
    <2> QED
        BY <2>1, GoesOn
\* The seat that is given up, or no seat.
<1>3. \/ UNCHANGED <<seats, notify>>
      \/ \E k \in Occupied : /\ seats' = [seats EXCEPT ![k] = Vacated(k)] /\ notify' = TRUE
                             /\ seats[k].player = Owner[s]
    <2>1. SUFFICES ASSUME SeatsOf(Owner[s]) # {}
                   PROVE  Min(SeatsOf(Owner[s])) \in Occupied
                          /\ seats[Min(SeatsOf(Owner[s]))].player = Owner[s]
        BY DEF Leave, ForceLeave, GiveUp
    <2>2. Owner[s] \in Players
        BY TableAssumption
    <2>3. SeatsOf(Owner[s]) \subseteq Nat
        BY <2>2, OccupiedType DEF Inv
    <2> QED
        BY <2>1, <2>3, MinType DEF SeatsOf
<1>4. hand_in_progress \in BOOLEAN /\ \A i \in Occupied : seats[i] \in Seat
    BY OccupiedType DEF Inv, TypeOK
\* What the step makes of a slot.
<1>5. \A i \in SeatIndex :
        \/ seats'[i] = seats[i]
        \/ /\ i \in Occupied /\ seats[i].player = Owner[s]
           /\ \/ ~ hand_in_progress /\ seats'[i] = NoSeat
              \/ hand_in_progress /\ seats'[i] = [seats[i] EXCEPT !.leave_pending = TRUE]
    BY <1>1, <1>3, <1>4 DEF Vacated
<1>6. \A i \in SeatIndex :
        /\ seats'[i] \in Seat \union {NoSeat}
        /\ seats'[i] # NoSeat =>
            /\ seats[i] # NoSeat
            /\ seats'[i].player = seats[i].player /\ seats'[i].stack = seats[i].stack
            /\ seats'[i].leave_pending \/ seats'[i] = seats[i]
        /\ (hand_in_progress /\ seats[i] # NoSeat) => seats'[i] # NoSeat
    <2>1. SUFFICES ASSUME NEW i \in SeatIndex
                   PROVE  /\ seats'[i] \in Seat \union {NoSeat}
                          /\ seats'[i] # NoSeat =>
                              /\ seats[i] # NoSeat
                              /\ seats'[i].player = seats[i].player
                              /\ seats'[i].stack = seats[i].stack
                              /\ seats'[i].leave_pending \/ seats'[i] = seats[i]
                          /\ (hand_in_progress /\ seats[i] # NoSeat) => seats'[i] # NoSeat
        OBVIOUS
    <2>2. CASE seats'[i] = seats[i]
        BY <1>1, <2>2
    <2>3. CASE i \in Occupied /\ ~ hand_in_progress /\ seats'[i] = NoSeat
        BY <2>3
    <2>4. CASE i \in Occupied /\ seats'[i] = [seats[i] EXCEPT !.leave_pending = TRUE]
        BY <1>4, <2>4, TableAssumption DEF Seat, Occupied
    <2> QED
        BY <1>5, <2>2, <2>3, <2>4
<1>7. TypeOK'
    <2>1. seats' \in [SeatIndex -> Seat \union {NoSeat}] /\ notify' \in BOOLEAN
        BY <1>1, <1>3, <1>6 DEF Inv, TypeOK
    <2> QED
        BY <1>1, <1>2, <2>1 DEF Inv, TypeOK, run
<1>8. HandFlag'
    BY <1>1 DEF Inv, HandFlag, run
<1>9. HandSeatsHeld'
    <2>1. actor = "hand" => hand_in_progress
        BY DEF Inv, HandFlag
    <2>2. UNCHANGED <<actor, snapshot>> /\ Playing' = Playing /\ Playing \subseteq SeatIndex
        BY <1>1 DEF run, Playing
    <2> QED
        BY <1>6, <2>1, <2>2 DEF Inv, HandSeatsHeld
<1>10. Occupied' \subseteq Occupied /\ \A i \in Occupied' : seats'[i].player = seats[i].player
    BY <1>6 DEF Occupied
<1>11. OneSeatPerPlayer'
    BY <1>10 DEF Inv, OneSeatPerPlayer
\* A seat that is still kept is untouched.  It is not the seat of the session.
<1>12. \A i \in Occupied' : Kept(i)' =>
        /\ i \in Occupied /\ seats'[i] = seats[i] /\ Kept(i) /\ seats[i].player # Owner[s]
    <2>1. SUFFICES ASSUME NEW i \in Occupied', Kept(i)'
                   PROVE  i \in Occupied /\ seats'[i] = seats[i] /\ Kept(i)
                          /\ seats[i].player # Owner[s]
        OBVIOUS
    <2>2. i \in SeatIndex /\ i \in Occupied /\ seats'[i] = seats[i] /\ Kept(i)
        BY <1>1, <1>6, <2>1 DEF Occupied, Kept
    <2>3. SUFFICES ASSUME seats[i].player = Owner[s] PROVE FALSE
        BY <2>2
    <2>4. SeatsOf(Owner[s]) # {} /\ Min(SeatsOf(Owner[s])) = i
        <3>1. i \in SeatsOf(Owner[s])
            BY <2>2, <2>3 DEF SeatsOf
        <3>2. Owner[s] \in Players
            BY TableAssumption
        <3>3. SeatsOf(Owner[s]) \subseteq Nat
            BY <3>2, OccupiedType DEF Inv
        <3>4. Min(SeatsOf(Owner[s])) \in SeatsOf(Owner[s])
            BY <3>1, <3>3, MinType
        <3> QED
            BY <2>2, <2>3, <3>1, <3>4 DEF SeatsOf, Inv, OneSeatPerPlayer
    <2>5. GiveUp(i)
        <3>1. CASE Leave(s)
            BY <2>4, <3>1 DEF Leave
        <3>2. CASE ForceLeave(s)
            <4>1. Owner[s] \notin overtaken /\ session[s] = "force_leave"
                BY <2>2, <2>3, <3>2 DEF Kept, ForceLeave, At
            <4>2. ~ Superseded(s)
                BY <4>1 DEF Inv, SessionOrder, Midway
            <4>3. seats[i].bound = s
                BY <2>2, <2>3, <4>1, <4>2 DEF Inv, SeatsBound
            <4> QED
                BY <2>4, <3>2, <4>3 DEF ForceLeave
        <3> QED
            BY <3>1, <3>2
    <2>6. seats'[i] = NoSeat \/ seats'[i].leave_pending
        BY <1>1, <1>4, <2>2, <2>5 DEF GiveUp, Vacated, Seat
    <2> QED
        BY <2>1, <2>6 DEF Occupied, Kept
<1>13. SeatsRecorded'
    <2>1. SUFFICES ASSUME NEW i \in Occupied', Kept(i)'
                   PROVE  /\ \/ seats'[i].player \in player_table
                             \/ \E t \in Sessions :
                                    /\ Owner[t] = seats'[i].player
                                    /\ session'[t] \in {"record_join", "force_leave"}
                          /\ \A t \in Sessions : Owner[t] = seats'[i].player
                                => session'[t] # "record_leave"
        BY <1>1 DEF SeatsRecorded, At
    <2>2. i \in Occupied /\ seats'[i] = seats[i] /\ Kept(i) /\ seats[i].player # Owner[s]
        BY <1>12, <2>1
    <2>3. /\ \/ seats[i].player \in player_table
             \/ \E t \in Sessions : /\ Owner[t] = seats[i].player
                                    /\ session[t] \in {"record_join", "force_leave"}
          /\ \A t \in Sessions : Owner[t] = seats[i].player => session[t] # "record_leave"
        BY <2>2 DEF Inv, SeatsRecorded, At
    <2> QED
        BY <1>2, <2>2, <2>3
<1>14. SeatsBound'
    <2>1. SUFFICES ASSUME NEW i \in Occupied', NEW t \in Sessions,
                          Kept(i)', Owner[t] = seats'[i].player, ~ Superseded(t)
                   PROVE  /\ session'[t] = "replace" => found[t] = seats'[i].link
                          /\ session'[t] \notin {"offline", "lookup", "replace", "closed"}
                                => seats'[i].bound = t
        BY <1>1, <1>2 DEF SeatsBound, At
    <2>2. i \in Occupied /\ seats'[i] = seats[i] /\ Kept(i) /\ seats[i].player # Owner[s]
        BY <1>12, <2>1
    <2>3. t # s /\ session'[t] = session[t]
        BY <1>2, <2>1, <2>2
    <2>4. /\ session[t] = "replace" => found[t] = seats[i].link
          /\ session[t] \notin {"offline", "lookup", "replace", "closed"} => seats[i].bound = t
        BY <2>1, <2>2 DEF Inv, SeatsBound, At
    <2> QED
        BY <2>2, <2>3, <2>4
<1> QED
    BY <1>2, <1>7, <1>8, <1>9, <1>11, <1>13, <1>14 DEF Inv

\* The steps of run_table that do not change the seats.
LEMMA ActorInv ==
    ASSUME Inv, CheckQuorum \/ Woken \/ TakeRunningSnapshot \/ QuorumLost
    PROVE  Inv'
<1>1. UNCHANGED <<seats, button, sessions>>
    BY DEF CheckQuorum, Woken, TakeRunningSnapshot, QuorumLost, table
<1>2. /\ OneSeatPerPlayer' /\ SessionOrder' /\ SeatsRecorded' /\ SeatsBound'
    BY <1>1 DEF Inv, OneSeatPerPlayer, SessionOrder, SeatsRecorded, SeatsBound, Superseded,
                Kept, At, Midway, Before, Occupied, sessions, flags
<1>3. HandFlag'
    <2>1. HandFlag
        BY DEF Inv
    <2>2. CASE CheckQuorum
        <3>1. ~ hand_in_progress
            BY <2>1, <2>2 DEF HandFlag, CheckQuorum
        <3> QED
            BY <2>2, <3>1 DEF HandFlag, CheckQuorum
    <2>3. CASE QuorumLost
        BY <2>3 DEF HandFlag, QuorumLost
    <2>4. CASE Woken
        BY <2>1, <2>4 DEF HandFlag, Woken, table
    <2>5. CASE TakeRunningSnapshot
        BY <2>1, <2>5 DEF HandFlag, TakeRunningSnapshot, table
    <2> QED
        BY <2>2, <2>3, <2>4, <2>5
<1>4. snapshot' \in [SeatIndex -> SeatView \union {NoSeat}] /\ dealer' \in SeatIndex
      /\ HandSeatsHeld'
    <2>1. 0 \in SeatIndex
        BY TableAssumption DEF SeatIndex
    <2>2. CASE TakeRunningSnapshot
        <3>1. CanPost \in SUBSET SeatIndex /\ \A i \in CanPost : seats[i] \in Seat
            BY OccupiedType DEF CanPost, Occupied, Inv
        <3>2. DealerFor(CanPost) \in SeatIndex
            BY <3>1, DealerType DEF Inv
        <3> DEFINE view(i) == [player |-> seats[i].player, stack |-> seats[i].stack]
        <3>3. \A i \in CanPost : view(i) \in SeatView
            BY <3>1 DEF Seat, SeatView
        <3>4. snapshot' = [i \in SeatIndex |-> IF i \in CanPost THEN view(i) ELSE NoSeat]
            BY <2>2 DEF TakeRunningSnapshot
        <3>5. snapshot' \in [SeatIndex -> SeatView \union {NoSeat}]
            BY <3>3, <3>4
        <3>6. Playing' \subseteq CanPost /\ \A i \in CanPost : snapshot'[i] = view(i)
            BY <3>1, <3>4 DEF Playing
        <3>7. HandSeatsHeld'
            <4>1. SUFFICES ASSUME NEW i \in CanPost
                           PROVE  /\ seats[i] # NoSeat
                                  /\ seats[i].player = view(i).player
                                  /\ seats[i].stack = view(i).stack
                BY <1>1, <3>6 DEF HandSeatsHeld
            <4> QED
                BY DEF CanPost, Occupied
        <3> QED
            BY <2>2, <3>2, <3>5, <3>7 DEF TakeRunningSnapshot
    <2>3. CASE CheckQuorum \/ Woken \/ QuorumLost
        BY <2>1, <2>3 DEF CheckQuorum, Woken, QuorumLost, HandSeatsHeld, Inv, TypeOK
    <2> QED
        BY <2>2, <2>3
<1>5. TypeOK'
    <2>1. /\ hand_in_progress' \in BOOLEAN /\ notify' \in BOOLEAN
          /\ actor' \in {"check", "parked", "snapshot", "quorum_lost", "hand"}
        BY DEF CheckQuorum, Woken, TakeRunningSnapshot, QuorumLost, table, Inv, TypeOK
    <2> QED
        BY <1>1, <1>4, <2>1 DEF Inv, TypeOK, sessions, flags
<1> QED
    BY <1>2, <1>3, <1>4, <1>5 DEF Inv

\* A hand changes every stack by an integer.
LEMMA ResultsType ==
    ASSUME TypeOK, NEW result \in Results
    PROVE  result \in [SeatIndex -> Int]
<1>1. CASE result = [i \in SeatIndex |-> 0]
    BY <1>1
<1>2. CASE result # [i \in SeatIndex |-> 0]
    <2>1. PICK final \in [Playing -> 0 .. SnapshotChips] :
            result = [i \in SeatIndex |-> IF i \in Playing THEN final[i] - snapshot[i].stack ELSE 0]
        BY <1>2 DEF Results
    <2>2. \A i \in Playing : snapshot[i].stack \in Int /\ final[i] \in Int
        BY DEF Playing, TypeOK, SeatView
    <2> QED
        BY <2>1, <2>2
<1> QED
    BY <1>1, <1>2

\* apply_hand_result: slots are freed or keep their player.
LEMMA ApplyInv ==
    ASSUME Inv, ApplyHandResult
    PROVE  Inv'
<1>1. PICK result \in Results : seats' = [i \in SeatIndex |-> SlotAfterHand(i, result)]
    BY DEF ApplyHandResult
<1>2. /\ seats \in [SeatIndex -> Seat \union {NoSeat}] /\ result \in [SeatIndex -> Int]
      /\ button \in SeatIndex
    BY <1>1, ResultsType DEF Inv, TypeOK
<1>3. \A i \in SeatIndex :
        \/ seats'[i] = NoSeat
        \/ /\ i \in Occupied /\ ~ seats[i].leave_pending /\ Settled(i, result) \in Nat
           /\ seats'[i] = [seats[i] EXCEPT !.stack = Settled(i, result)]
    BY <1>1, <1>2 DEF SlotAfterHand, Settled, Occupied, Seat
<1>4. \A i \in SeatIndex :
        \/ seats'[i] = NoSeat
        \/ /\ i \in Occupied /\ ~ seats[i].leave_pending
           /\ seats'[i] \in Seat /\ ~ seats'[i].leave_pending
           /\ seats'[i].player = seats[i].player
           /\ seats'[i].link = seats[i].link /\ seats'[i].bound = seats[i].bound
    <2>1. SUFFICES ASSUME NEW i \in Occupied, ~ seats[i].leave_pending,
                          NEW stack \in Nat,
                          seats'[i] = [seats[i] EXCEPT !.stack = stack]
                   PROVE  /\ seats'[i] \in Seat /\ ~ seats'[i].leave_pending
                          /\ seats'[i].player = seats[i].player
                          /\ seats'[i].link = seats[i].link
                          /\ seats'[i].bound = seats[i].bound
        BY <1>3
    <2>2. seats[i] \in Seat
        BY OccupiedType DEF Inv
    <2> QED
        BY <2>1, <2>2 DEF Seat
<1>5. seats' \in [SeatIndex -> Seat \union {NoSeat}]
    BY <1>1, <1>4
<1>6. button' \in SeatIndex
    BY <1>2, NextOccupiedType DEF ApplyHandResult
<1>7. TypeOK'
    <2>1. 0 \in SeatIndex
        BY TableAssumption DEF SeatIndex
    <2>2. snapshot' \in [SeatIndex -> SeatView \union {NoSeat}] /\ dealer' \in SeatIndex
        BY <2>1 DEF ApplyHandResult
    <2> QED
        BY <1>5, <1>6, <2>2 DEF ApplyHandResult, sessions, flags, Inv, TypeOK
<1>8. /\ UNCHANGED sessions
      /\ \A i \in Occupied' : /\ i \in Occupied /\ ~ seats[i].leave_pending
                              /\ seats'[i].player = seats[i].player
                              /\ seats'[i].link = seats[i].link
                              /\ seats'[i].bound = seats[i].bound
    BY <1>4 DEF Occupied, ApplyHandResult
<1>9. HandFlag' /\ HandSeatsHeld'
    BY DEF ApplyHandResult, HandFlag, HandSeatsHeld
<1>10. OneSeatPerPlayer'
    BY <1>8 DEF Inv, OneSeatPerPlayer
<1>11. SessionOrder'
    BY <1>8 DEF sessions, flags, Inv, SessionOrder, Superseded, At, Midway, Before
<1>12. \A i \in Occupied' : Kept(i)' => Kept(i)
    BY <1>8 DEF Kept, sessions, flags
<1>13. SeatsRecorded'
    BY <1>8, <1>12 DEF sessions, flags, Inv, SeatsRecorded, At
<1>14. SeatsBound'
    BY <1>8, <1>12 DEF sessions, flags, Inv, SeatsBound, Superseded, At, Before
<1> QED
    BY <1>7, <1>9, <1>10, <1>11, <1>13, <1>14 DEF Inv

\* A stuttering step keeps the invariant.
LEMMA StutterInv == ASSUME Inv, UNCHANGED vars PROVE Inv'
BY DEF vars, table, run, sessions, flags, Inv, TypeOK, HandFlag, HandSeatsHeld,
       OneSeatPerPlayer, SessionOrder, SeatsRecorded, SeatsBound, Superseded, Kept, At,
       Midway, Before, Occupied, Playing

\* The invariant holds of every reachable state of a table.
THEOREM Invariance == Spec => []Inv
<1>1. Inv /\ [Next]_vars => Inv'
    BY SeatlessInv, LoginInv, ReplaceInv, SitInv, VacateInv, ActorInv, ApplyInv, StutterInv
       DEF Next, Actor, Handler, Client, SeatlessStep
<1> QED
    BY InitInv, <1>1, PTL DEF Spec

\* The state of a table stays in its type.
THEOREM TypeCorrect == Spec => []TypeOK
<1>1. Inv => TypeOK
    BY DEF Inv
<1> QED
    BY Invariance, <1>1, PTL

\* From take_running_snapshot to apply_hand_result the seats of the hand stay
\* with their players and chips, whatever sit, leave and force_leave do.
THEOREM SeatsHeldForTheHand == Spec => []HandSeatsHeld
<1>1. Inv => HandSeatsHeld
    BY DEF Inv
<1> QED
    BY Invariance, <1>1, PTL

\* No interleaving of handle_join, handle_leave and session cleanup seats a
\* player twice.
THEOREM NobodySeatedTwice == Spec => []OneSeatPerPlayer
<1>1. Inv => OneSeatPerPlayer
    BY DEF Inv
<1> QED
    BY Invariance, <1>1, PTL

\* A player whose sessions have settled, and none of whose sessions was overtaken
\* in the middle of something, has an entry in player_table for the seat they hold:
\* the cleanup of superseded sessions, whenever it comes, takes neither away.
THEOREM NoSeatIsLeftBehind == Spec => []NoGhostSeat
<1>1. Inv => NoGhostSeat
    <2>1. SUFFICES ASSUME Inv, NEW i \in Occupied,
                          ~ seats[i].leave_pending, Quiet(seats[i].player),
                          seats[i].player \notin overtaken
                   PROVE  seats[i].player \in player_table
        BY DEF NoGhostSeat
    <2> QED
        BY <2>1 DEF Inv, SeatsRecorded, Kept, Quiet, Midway
<1> QED
    BY Invariance, <1>1, PTL
=============================================================================
