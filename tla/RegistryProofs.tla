--------------------------- MODULE RegistryProofs ---------------------------
(***************************************************************************)
(* Proofs about Registry, for any set of users and any number of           *)
(* connections.  The inductive invariant says what write_tx protects: the  *)
(* connection between its commit and its install is alone there, so the    *)
(* row it is about to install is still the live one.                       *)
(***************************************************************************)
EXTENDS Registry, TLAPS

\* The table has the lock while it writes the record of the next hand.
RecorderHolds == recording # NoRecord => write_tx = Recorder /\ recording.hand = hands + 1

\* A connection inside a transaction, or between commit and install, has the lock.
LockHeld == \A c \in Conns : place[c] \in {"tx", "committed"} => write_tx = c

\* A session id is a row of the connection's user; only a resumed or an issued
\* session has one.
SessionIsOwn ==
    \A c \in Conns :
        /\ sid[c] # 0 => owner[sid[c]] = user[c]
        /\ (place[c] \in {"unopened", "asked", "tx"} /\ mode[c] # "session") => sid[c] = 0
        /\ place[c] = "unopened" => mode[c] = "none"
        /\ place[c] \in {"committed", "reading", "closing"} => sid[c] # 0

\* The row that is about to be installed is live.
CommittedIsLive == \A c \in Conns : place[c] = "committed" => sid[c] \in live

\* Only a connection that has been online is ever revoked.
RevokedWasOnline ==
    \A c \in Conns : place[c] \in {"unopened", "asked", "tx", "committed"} => ~ revoked[c]

\* An entry is that of a session of its user that has not ended or been revoked.
EntryIsSession ==
    \A u \in Users :
        \/ online[u] = Offline
        \/ \E c \in Conns :
            /\ online[u] = [session |-> sid[c], conn |-> c]
            /\ user[c] = u
            /\ place[c] \in {"reading", "closing"}
            /\ ~ revoked[c]

Inv ==
    /\ TypeOK
    /\ LiveSessionIsNewest
    /\ LockHeld
    /\ SessionIsOwn
    /\ CommittedIsLive
    /\ RevokedWasOnline
    /\ EntryIsSession
    /\ DriverIsOnline
    /\ RecorderHolds
    /\ HandsWhole

-----------------------------------------------------------------------------
\* The rows once another one has been inserted.
LEMMA AppendRow ==
    ASSUME NEW o \in Seq(Users), NEW u \in Users
    PROVE  /\ Append(o, u) \in Seq(Users)
           /\ Len(o) \in Nat
           /\ DOMAIN Append(o, u) = (DOMAIN o) \union {Len(o) + 1}
           /\ \A s \in DOMAIN o : s \in Nat /\ 0 < s /\ s <= Len(o) /\ Append(o, u)[s] = o[s]
           /\ Append(o, u)[Len(o) + 1] = u
  OBVIOUS

\* An empty database and no connection satisfy the invariant.
LEMMA InitInv == Init => Inv
  <1>1. ASSUME Init PROVE TypeOK
    BY <1>1, RegistryAssumption DEF Init, TypeOK, Rows, Offline, Places, NoRecord
  <1>2. ASSUME Init
        PROVE LiveSessionIsNewest /\ LockHeld /\ SessionIsOwn /\ CommittedIsLive
                /\ RevokedWasOnline /\ EntryIsSession /\ DriverIsOnline
    BY <1>2 DEF Init, LiveSessionIsNewest, LockHeld, SessionIsOwn, CommittedIsLive,
                RevokedWasOnline, EntryIsSession, DriverIsOnline, Drives, At, RowsOf, Rows
  <1>3. ASSUME Init PROVE RecorderHolds /\ HandsWhole
    BY <1>3 DEF Init, RecorderHolds, HandsWhole, fetch_hand
  <1> QED BY <1>1, <1>2, <1>3 DEF Inv

\* A step of a connection leaves the records of hands alone, and takes or
\* releases the lock only when the table does not have it.
LEMMA RecordsKept ==
    ASSUME Inv, UNCHANGED records, write_tx' = write_tx \/ write_tx # Recorder
    PROVE  RecorderHolds' /\ HandsWhole'
  BY DEF Inv, records, RecorderHolds, HandsWhole, fetch_hand

-----------------------------------------------------------------------------
(* Steps that change neither the rows nor the map of who is online *)

\* The handshake up to its commit or its end, and the end of the reader loop,
\* keep the invariant: flags, rows and entries are not touched.
LEMMA QuietStep ==
    ASSUME Inv, NEW c \in Conns,
           Hello(c) \/ HelloWithKey(c) \/ HelloRejected(c) \/ Begin(c) \/ Refuse(c)
             \/ Resume(c) \/ HandshakeFails(c) \/ ReaderEnds(c)
    PROVE  Inv'
  <1> USE DEF Inv, At, Goto, Finish, Conns, records
  <1>1. TypeOK'
    <2>1. CASE Hello(c)         BY <2>1 DEF TypeOK, Hello, db, Rows, Places
    <2>2. CASE HelloWithKey(c)  BY <2>2 DEF TypeOK, HelloWithKey, db, Rows, Places
    <2>3. CASE HelloRejected(c) BY <2>3 DEF TypeOK, HelloRejected, db, Rows, Places
    <2>4. CASE Begin(c)         BY <2>4 DEF TypeOK, Begin, db, Rows, Places
    <2>5. CASE Refuse(c)        BY <2>5 DEF TypeOK, Refuse, db, Rows, Places
    <2>6. CASE Resume(c)        BY <2>6 DEF TypeOK, Resume, db, Rows, Places
    <2>7. CASE HandshakeFails(c) BY <2>7 DEF TypeOK, HandshakeFails, db, Rows, Places
    <2>8. CASE ReaderEnds(c)    BY <2>8 DEF TypeOK, ReaderEnds, db, Rows, Places
    <2> QED BY <2>1, <2>2, <2>3, <2>4, <2>5, <2>6, <2>7, <2>8
  <1>2. UNCHANGED <<owner, live, online, user, revoked>>
    BY DEF Hello, HelloWithKey, HelloRejected, Begin, Refuse, Resume, HandshakeFails, ReaderEnds, db
  <1>3. LiveSessionIsNewest'
    BY <1>2 DEF LiveSessionIsNewest, RowsOf, Rows
  <1>4. LockHeld'
    <2>1. CASE Hello(c) \/ HelloWithKey(c) \/ HelloRejected(c) \/ ReaderEnds(c) \/ Resume(c)
      BY <2>1 DEF LockHeld, TypeOK, Hello, HelloWithKey, HelloRejected, ReaderEnds, Resume
    <2>2. CASE Begin(c)          BY <2>2 DEF LockHeld, TypeOK, Begin
    <2>3. CASE Refuse(c)         BY <2>3 DEF LockHeld, TypeOK, Refuse
    <2>4. CASE HandshakeFails(c) BY <2>4 DEF LockHeld, TypeOK, HandshakeFails
    <2> QED BY <2>1, <2>2, <2>3, <2>4
  <1>5. SessionIsOwn'
    <2>1. CASE Hello(c)         BY <1>2, <2>1 DEF SessionIsOwn, TypeOK, Hello
    <2>2. CASE HelloWithKey(c)  BY <1>2, <2>2 DEF SessionIsOwn, TypeOK, HelloWithKey
    <2>3. CASE HelloRejected(c) BY <1>2, <2>3 DEF SessionIsOwn, TypeOK, HelloRejected
    <2>4. CASE Begin(c)         BY <1>2, <2>4 DEF SessionIsOwn, TypeOK, Begin
    <2>5. CASE Refuse(c)        BY <1>2, <2>5 DEF SessionIsOwn, TypeOK, Refuse
    <2>6. CASE Resume(c)
      <3>1. sid[c] # 0
        BY <2>6, AppendRow DEF Resume, Accepted, TypeOK, Rows
      <3> QED BY <1>2, <2>6, <3>1 DEF SessionIsOwn, TypeOK, Resume
    <2>7. CASE HandshakeFails(c) BY <1>2, <2>7 DEF SessionIsOwn, TypeOK, HandshakeFails
    <2>8. CASE ReaderEnds(c)    BY <1>2, <2>8 DEF SessionIsOwn, TypeOK, ReaderEnds
    <2> QED BY <2>1, <2>2, <2>3, <2>4, <2>5, <2>6, <2>7, <2>8
  <1>6. CommittedIsLive'
    BY <1>2 DEF CommittedIsLive, TypeOK, Hello, HelloWithKey, HelloRejected, Begin, Refuse,
                Resume, Accepted, HandshakeFails, ReaderEnds
  \* The session id of a connection changes only before it has one.
  <1>7. \A d \in Conns : sid[d] # 0 => sid'[d] = sid[d]
    BY DEF SessionIsOwn, TypeOK, Hello, HelloWithKey, HelloRejected, Begin, Refuse,
           Resume, HandshakeFails, ReaderEnds
  <1>8. \A d \in Conns : place'[d] # place[d] => place[d] # "closing"
                            /\ (place[d] = "reading" => place'[d] = "closing")
                            /\ place'[d] # "reading"
    BY DEF TypeOK, Hello, HelloWithKey, HelloRejected, Begin, Refuse,
           Resume, HandshakeFails, ReaderEnds
  <1>9. EntryIsSession'
    <2> SUFFICES ASSUME NEW u \in Users, online[u] # Offline
                 PROVE  \E d \in Conns : /\ online[u] = [session |-> sid'[d], conn |-> d]
                                         /\ user[d] = u
                                         /\ place'[d] \in {"reading", "closing"}
                                         /\ ~ revoked[d]
      BY <1>2 DEF EntryIsSession
    <2>1. PICK d \in Conns : /\ online[u] = [session |-> sid[d], conn |-> d]
                             /\ user[d] = u
                             /\ place[d] \in {"reading", "closing"}
                             /\ ~ revoked[d]
      BY DEF EntryIsSession
    <2>2. sid'[d] = sid[d] /\ place'[d] \in {"reading", "closing"}
      BY <1>7, <1>8, <2>1 DEF SessionIsOwn
    <2> QED BY <2>1, <2>2
  <1>10. DriverIsOnline'
    BY <1>2, <1>7, <1>8 DEF DriverIsOnline, Drives, SessionIsOwn
  <1>11. RevokedWasOnline'
    BY <1>2 DEF RevokedWasOnline, TypeOK, Hello, HelloWithKey, HelloRejected, Begin, Refuse,
                Resume, HandshakeFails, ReaderEnds
  <1>12. write_tx' = write_tx \/ write_tx # Recorder
    BY RegistryAssumption DEF Hello, HelloWithKey, HelloRejected, Begin, Refuse, Resume,
       HandshakeFails, ReaderEnds, LockHeld, Recorder
  <1>13. UNCHANGED records
    BY DEF Hello, HelloWithKey, HelloRejected, Begin, Refuse, Resume, HandshakeFails, ReaderEnds
  <1>14. RecorderHolds' /\ HandsWhole'
    BY <1>12, <1>13, RecordsKept
  <1> QED BY <1>1, <1>3, <1>4, <1>5, <1>6, <1>9, <1>10, <1>11, <1>14

-----------------------------------------------------------------------------
(* A new row *)

\* register and authenticate_password keep it: the new row is the only live row
\* of its user and larger than every other.
LEMMA IssueStep ==
    ASSUME Inv, NEW c \in Conns, Issue(c)
    PROVE  Inv'
  <1> DEFINE new == Len(owner) + 1
  <1> USE DEF Inv, At, Goto, records
  <1>0. /\ owner \in Seq(Users) /\ live \in SUBSET (DOMAIN owner) /\ user[c] \in Users
        /\ owner' = Append(owner, user[c])
        /\ live' = (live \ RowsOf(user[c])) \union {new}
        /\ UNCHANGED <<write_tx, online, user, revoked, mode, keys>>
        /\ place[c] = "tx" /\ mode[c] # "session" /\ sid[c] = 0
        /\ sid' = [sid EXCEPT ![c] = new]
        /\ place' = [place EXCEPT ![c] = "committed"]
    BY DEF Issue, issue_session_in_tx, TypeOK, Rows, SessionIsOwn
  <1>1. /\ owner' \in Seq(Users) /\ Len(owner) \in Nat
        /\ DOMAIN owner' = (DOMAIN owner) \union {new}
        /\ \A s \in DOMAIN owner : s \in Nat /\ 0 < s /\ s <= Len(owner) /\ owner'[s] = owner[s]
        /\ owner'[new] = user[c]
    BY <1>0, AppendRow
  <1> HIDE DEF new
  <1>2. new \in Nat /\ new # 0 /\ \A s \in DOMAIN owner : s < new
    BY <1>1 DEF new
  <1>3. TypeOK'
    BY <1>0, <1>1 DEF TypeOK, Rows, Places, Issue
  <1>4. LiveSessionIsNewest'
    <2> SUFFICES ASSUME NEW s \in live', NEW t \in (RowsOf(owner[s]))'
                 PROVE  t <= s
      BY DEF LiveSessionIsNewest
    <2>1. CASE s = new
      BY <1>1, <1>2, <2>1 DEF RowsOf, Rows
    <2>2. CASE s # new
      <3>1. s \in live /\ s \in DOMAIN owner /\ owner[s] # user[c] /\ owner'[s] = owner[s]
        BY <1>0, <1>1, <2>2 DEF RowsOf, Rows
      <3>2. t # new /\ t \in DOMAIN owner /\ owner[t] = owner[s]
        BY <1>1, <3>1 DEF RowsOf, Rows
      <3> QED BY <3>1, <3>2 DEF LiveSessionIsNewest, RowsOf, Rows
    <2> QED BY <2>1, <2>2
  <1>5. LockHeld'
    BY <1>0 DEF LockHeld, TypeOK
  <1>6. SessionIsOwn'
    BY <1>0, <1>1, <1>2 DEF SessionIsOwn, TypeOK, Rows
  <1>7. CommittedIsLive'
    BY <1>0, <1>2 DEF CommittedIsLive, LockHeld, TypeOK, Conns
  <1>8. EntryIsSession'
    BY <1>0, <1>2 DEF EntryIsSession, SessionIsOwn, TypeOK
  <1>9. DriverIsOnline'
    BY <1>0, <1>2 DEF DriverIsOnline, Drives, SessionIsOwn, TypeOK
  <1>10. RevokedWasOnline'
    BY <1>0 DEF RevokedWasOnline, TypeOK
  <1>11. RecorderHolds' /\ HandsWhole'
    BY RecordsKept DEF Issue
  <1> QED BY <1>3, <1>4, <1>5, <1>6, <1>7, <1>8, <1>9, <1>10, <1>11

-----------------------------------------------------------------------------
(* The map of who is online *)

\* install_online keeps it, and installs a session at least as new as the one
\* it replaces: its row is live, hence the newest.
LEMMA InstallStep ==
    ASSUME Inv, NEW c \in Conns, Install(c)
    PROVE  Inv' /\ online'[user[c]].session >= online[user[c]].session
  <1> USE DEF Inv, At, Goto, Finish, Conns, records
  <1>0. /\ place[c] = "committed" /\ place' = [place EXCEPT ![c] = "reading"]
        /\ user[c] \in Users /\ sid[c] \in live /\ owner[sid[c]] = user[c] /\ write_tx = c
        /\ online' = [online EXCEPT ![user[c]] = [session |-> sid[c], conn |-> c]]
        /\ revoked' = [d \in Conns |-> revoked[d] \/ d = online[user[c]].conn]
        /\ write_tx' = 0
        /\ mode' = [mode EXCEPT ![c] = "none"]
        /\ UNCHANGED <<account, owner, live, user, sid, hands, hand_seats, recording>>
    BY DEF Install, Superseded, TypeOK, CommittedIsLive, LockHeld, SessionIsOwn, db
  <1>1. online[user[c]].conn # c
    <2>1. CASE online[user[c]] = Offline
      BY <2>1, RegistryAssumption DEF Offline
    <2>2. ASSUME NEW d \in Conns, place[d] \in {"reading", "closing"},
                 online[user[c]] = [session |-> sid[d], conn |-> d]
          PROVE  online[user[c]].conn # c
      BY <1>0, <2>2
    <2> QED BY <1>0, <2>1, <2>2 DEF EntryIsSession
  <1>2. TypeOK'
    BY <1>0 DEF TypeOK, Rows, Places, Install
  <1>3. LiveSessionIsNewest'
    BY <1>0 DEF LiveSessionIsNewest, RowsOf, Rows
  <1>4. LockHeld'
    BY <1>0 DEF LockHeld, TypeOK
  <1>5. SessionIsOwn'
    BY <1>0 DEF SessionIsOwn, TypeOK
  <1>6. CommittedIsLive'
    BY <1>0 DEF CommittedIsLive, TypeOK
  <1>7. EntryIsSession'
    <2> SUFFICES ASSUME NEW u \in Users, online'[u] # Offline
                 PROVE  \E d \in Conns : /\ online'[u] = [session |-> sid[d], conn |-> d]
                                         /\ user[d] = u
                                         /\ place'[d] \in {"reading", "closing"}
                                         /\ ~ revoked'[d]
      BY <1>0 DEF EntryIsSession
    <2>1. CASE u = user[c]
      <3>1. ~ revoked[c]
        BY <1>0 DEF RevokedWasOnline
      <3> QED BY <1>0, <1>1, <2>1, <3>1 DEF TypeOK
    <2>2. CASE u # user[c]
      <3>1. PICK d \in Conns : /\ online[u] = [session |-> sid[d], conn |-> d]
                               /\ user[d] = u
                               /\ place[d] \in {"reading", "closing"}
                               /\ ~ revoked[d]
        BY <1>0, <2>2 DEF EntryIsSession, TypeOK
      \* The entry that is replaced is that of a connection of another user.
      <3>2. online[user[c]].conn # d
        <4>1. CASE online[user[c]] = Offline
          BY <4>1, RegistryAssumption DEF Offline
        <4>2. ASSUME NEW e \in Conns, user[e] = user[c],
                     online[user[c]] = [session |-> sid[e], conn |-> e]
              PROVE  online[user[c]].conn # d
          BY <2>2, <3>1, <4>2
        <4> QED BY <1>0, <4>1, <4>2 DEF EntryIsSession
      <3>3. online'[u] = online[u] /\ place'[d] = place[d] /\ ~ revoked'[d]
        <4>1. d # c
          BY <1>0, <3>1
        <4>2. revoked'[d] = (revoked[d] \/ d = online[user[c]].conn)
          BY <1>0
        <4>3. online'[u] = online[u] /\ place'[d] = place[d]
          BY <1>0, <2>2, <4>1 DEF TypeOK
        <4> QED BY <3>1, <3>2, <4>2, <4>3
      <3> QED BY <3>1, <3>3
    <2> QED BY <2>1, <2>2
  <1>8. DriverIsOnline'
    BY <1>0 DEF DriverIsOnline, Drives, TypeOK
  <1>9. online'[user[c]].session >= online[user[c]].session
    BY <1>0 DEF EntryIsSession, LiveSessionIsNewest, RowsOf, Rows, TypeOK, Offline, SessionIsOwn
  <1>10. RevokedWasOnline'
    BY <1>0 DEF RevokedWasOnline, EntryIsSession, TypeOK, Offline
  <1>11. RecorderHolds' /\ HandsWhole'
    <2>1. write_tx # Recorder
      BY <1>0, RegistryAssumption DEF Recorder
    <2> QED BY <1>0, <2>1, RecordsKept
  <1> QED BY <1>2, <1>3, <1>4, <1>5, <1>6, <1>7, <1>8, <1>9, <1>10, <1>11

\* logout keeps it.
LEMMA LogoutStep ==
    ASSUME Inv, NEW c \in Conns, Logout(c)
    PROVE  Inv'
  <1> USE DEF Inv, At, Goto, Finish, Conns, records
  <1>0. /\ place[c] = "closing" /\ place' = [place EXCEPT ![c] = "closed"]
        /\ user[c] \in Users /\ sid[c] # 0
        /\ online' = IF online[user[c]].session = sid[c]
                     THEN [online EXCEPT ![user[c]] = Offline] ELSE online
        /\ UNCHANGED <<account, owner, live, write_tx, mode, user, sid, revoked, keys>>
        /\ UNCHANGED <<hands, hand_seats, recording>>
    BY DEF Logout, OnlineAfterLogout, TypeOK, SessionIsOwn, db
  <1>1. TypeOK'
    BY <1>0 DEF TypeOK, Rows, Places, Offline
  <1>2. LiveSessionIsNewest' /\ LockHeld' /\ SessionIsOwn' /\ CommittedIsLive' /\ RevokedWasOnline'
    BY <1>0 DEF LiveSessionIsNewest, RowsOf, Rows, LockHeld, SessionIsOwn, CommittedIsLive,
           RevokedWasOnline, TypeOK
  <1>3. EntryIsSession'
    BY <1>0 DEF EntryIsSession, TypeOK, Offline
  \* An entry of another connection that is removed had the same session id.
  <1>4. DriverIsOnline'
    <2> SUFFICES ASSUME NEW d \in Conns, Drives(d)'
                 PROVE  (online[user[d]].conn = d)' \/ \E e \in Conns \ {d} : sid[e] = sid[d]
      BY <1>0 DEF DriverIsOnline
    <2>1. Drives(d) /\ d # c
      BY <1>0 DEF Drives, TypeOK
    <2>2. CASE online[user[d]].conn = d
      <3>1. online[user[d]].session = sid[d]
        BY <2>1, <2>2 DEF EntryIsSession, Offline, TypeOK
      <3> QED BY <1>0, <2>1, <2>2, <3>1 DEF TypeOK
    <2> QED BY <2>1, <2>2 DEF DriverIsOnline
  <1>5. RecorderHolds' /\ HandsWhole'
    BY <1>0, RecordsKept
  <1> QED BY <1>1, <1>2, <1>3, <1>4, <1>5

\* A restart keeps it: no connection and no entry is left, no row is lost.
LEMMA RestartStep ==
    ASSUME Inv, Restart
    PROVE  Inv'
  <1> USE DEF Inv, At, Conns, records
  <1>1. TypeOK'
    BY RegistryAssumption DEF TypeOK, Restart, Rows, Places, Offline, db, NoRecord
  <1>2. LiveSessionIsNewest' /\ LockHeld' /\ SessionIsOwn' /\ CommittedIsLive' /\ RevokedWasOnline'
    BY DEF Restart, db, LiveSessionIsNewest, RowsOf, Rows, LockHeld, SessionIsOwn, CommittedIsLive,
           RevokedWasOnline, TypeOK
  <1>3. EntryIsSession' /\ DriverIsOnline'
    BY DEF Restart, EntryIsSession, DriverIsOnline, Drives, TypeOK
  <1>4. RecorderHolds' /\ HandsWhole'
    BY DEF Restart, RecorderHolds, HandsWhole, fetch_hand
  <1> QED BY <1>1, <1>2, <1>3, <1>4

-----------------------------------------------------------------------------
(* The record of a hand *)

\* record_hand keeps it: the rows are seen together or not at all.
LEMMA RecordStep ==
    ASSUME Inv, Record
    PROVE  Inv'
  <1> USE DEF Inv, conns, db
  <1>0. UNCHANGED <<account, owner, live, online, place, mode, user, sid, revoked, keys>>
    BY DEF Record, RecordHand, RecordSeat, RecordCommit, RecordFails
  <1>1. \/ write_tx = 0 /\ write_tx' = Recorder
        \/ write_tx = Recorder /\ write_tx' \in {0, Recorder}
    BY DEF Record, RecordHand, RecordSeat, RecordCommit, RecordFails, RecorderHolds
  <1>2. hands \in Nat /\ hand_seats \in SUBSET (Nat \X (1 .. HandSeats))
        /\ recording \in [hand : Nat, rows : 0 .. HandSeats] /\ HandSeats \in Nat
    BY RegistryAssumption DEF TypeOK
  <1>3. hands' \in Nat /\ hand_seats' \in SUBSET (Nat \X (1 .. HandSeats))
        /\ recording' \in [hand : Nat, rows : 0 .. HandSeats]
    <2>1. CASE RecordHand    BY <1>2, <2>1 DEF RecordHand
    <2>2. CASE RecordSeat    BY <1>2, <2>2 DEF RecordSeat
    <2>3. CASE RecordCommit  BY <1>2, <2>3 DEF RecordCommit, NoRecord
    <2>4. CASE RecordFails   BY <1>2, <2>4 DEF RecordFails, NoRecord
    <2> QED BY <2>1, <2>2, <2>3, <2>4 DEF Record
  <1>4. TypeOK'
    BY <1>0, <1>1, <1>3 DEF TypeOK, Rows
  <1>5. LockHeld'
    BY <1>0, <1>1, RegistryAssumption DEF LockHeld, Recorder, Conns
  <1>6. LiveSessionIsNewest' /\ SessionIsOwn' /\ CommittedIsLive' /\ RevokedWasOnline'
          /\ EntryIsSession' /\ DriverIsOnline'
    BY <1>0 DEF LiveSessionIsNewest, RowsOf, Rows, SessionIsOwn, CommittedIsLive,
                RevokedWasOnline, EntryIsSession, DriverIsOnline, Drives, At
  <1>7. RecorderHolds'
    <2>1. CASE RecordHand    BY <2>1 DEF RecordHand, RecorderHolds
    <2>2. CASE RecordSeat    BY <1>2, <2>2 DEF RecordSeat, RecorderHolds
    <2>3. CASE RecordCommit  BY <2>3 DEF RecordCommit, RecorderHolds
    <2>4. CASE RecordFails   BY <2>4 DEF RecordFails, RecorderHolds
    <2> QED BY <2>1, <2>2, <2>3, <2>4 DEF Record
  <1>8. HandsWhole'
    <2>1. CASE RecordCommit
      <3>1. hands' = hands + 1
            /\ hand_seats' = hand_seats \union ({hands + 1} \X (1 .. HandSeats))
        BY <2>1 DEF RecordCommit, RecorderHolds
      <3>2. ASSUME NEW h \in 1 .. hands' PROVE fetch_hand(h)' = 1 .. HandSeats
        <4>1. CASE h = hands + 1  BY <1>2, <3>1, <4>1 DEF fetch_hand
        <4>2. CASE h # hands + 1
          <5>1. h \in 1 .. hands  BY <1>2, <3>1, <4>2
          <5> QED BY <3>1, <5>1 DEF HandsWhole, fetch_hand
        <4> QED BY <4>1, <4>2
      <3>3. ASSUME NEW row \in hand_seats' PROVE row[1] \in 1 .. hands'
        BY <1>2, <3>1 DEF HandsWhole
      <3> QED BY <3>2, <3>3 DEF HandsWhole
    <2>2. CASE UNCHANGED <<hands, hand_seats>>
      BY <2>2 DEF HandsWhole, fetch_hand
    <2> QED BY <2>1, <2>2 DEF Record, RecordHand, RecordSeat, RecordFails
  <1> QED BY <1>4, <1>5, <1>6, <1>7, <1>8

-----------------------------------------------------------------------------
\* Every step keeps the invariant.
LEMMA NextInv == Inv /\ [Next]_vars => Inv'
  <1> SUFFICES ASSUME Inv, [Next]_vars PROVE Inv'
    OBVIOUS
  <1>1. CASE Restart
    BY <1>1, RestartStep
  <1>2. ASSUME NEW c \in Conns, Task(c) \/ Client(c) PROVE Inv'
    BY <1>2, QuietStep, IssueStep, InstallStep, LogoutStep DEF Task, Client
  <1>4. CASE Record
    BY <1>4, RecordStep
  <1>3. CASE UNCHANGED vars
    BY <1>3 DEF vars, db, conns, records, RecorderHolds, HandsWhole, fetch_hand, Inv, TypeOK, Rows, LiveSessionIsNewest, RowsOf, LockHeld,
                SessionIsOwn, CommittedIsLive, RevokedWasOnline, EntryIsSession, DriverIsOnline,
                Drives, At
  <1> QED BY <1>1, <1>2, <1>3, <1>4 DEF Next

\* The invariant holds in every reachable state.
LEMMA Invariance == Spec => []Inv
  BY InitInv, NextInv, PTL DEF Spec

\* Every reachable state of the registry and its connections is well typed.
THEOREM TypeCorrect == Spec => []TypeOK
  <1>1. Inv => TypeOK BY DEF Inv
  <1> QED BY Invariance, <1>1, PTL

\* The live row of a user is the newest one it was issued: a login revokes the
\* rows before it in one transaction, across dropped handshakes and restarts.
THEOREM OnlyTheNewestIsLive == Spec => []LiveSessionIsNewest
  <1>1. Inv => LiveSessionIsNewest BY DEF Inv
  <1> QED BY Invariance, <1>1, PTL

\* A connection that drives its user is the one the next login revokes, unless
\* another connection has used the same session row.
THEOREM DriverCanBeRevoked == Spec => []DriverIsOnline
  <1>1. Inv => DriverIsOnline BY DEF Inv
  <1> QED BY Invariance, <1>1, PTL

\* Nobody is shown online whose connection is gone.
THEOREM PresenceIsReal == Spec => []NoGhostPresence
  <1>1. Inv => NoGhostPresence
    <2> SUFFICES ASSUME Inv, NEW u \in Users, online[u].conn # 0
                 PROVE  place[online[u].conn] # "closed"
      BY DEF NoGhostPresence, At
    <2>1. online[u] # Offline
      BY DEF Offline
    <2>2. PICK c \in Conns : /\ online[u] = [session |-> sid[c], conn |-> c]
                             /\ place[c] \in {"reading", "closing"}
      BY <2>1 DEF Inv, EntryIsSession
    <2> QED BY <2>2
  <1> QED BY Invariance, <1>1, PTL

\* A hand is recorded with all its seats or not at all.
THEOREM RecordsAreWhole == Spec => []HandsWhole
  <1>1. Inv => HandsWhole BY DEF Inv
  <1> QED BY Invariance, <1>1, PTL

\* Entries are installed in the order in which their rows were issued.
THEOREM InstallsInOrder == Spec => EntryNeverGoesBack
  <1>1. ASSUME Inv, [Next]_vars
        PROVE  [\A u \in Users : online'[u] # Offline => online'[u].session >= online[u].session]_vars
    <2> SUFFICES ASSUME NEW u \in Users, online'[u] # Offline
                 PROVE  online'[u].session >= online[u].session
      OBVIOUS
    <2>1. online[u].session \in Nat
      BY <1>1, AppendRow DEF Inv, TypeOK, Rows
    <2>2. CASE UNCHANGED online
      BY <2>1, <2>2
    <2>3. CASE Restart
      BY <2>3 DEF Restart
    <2>4. ASSUME NEW c \in Conns, Logout(c) PROVE online'[u].session >= online[u].session
      BY <1>1, <2>1, <2>4 DEF Logout, OnlineAfterLogout, Inv, TypeOK
    <2>5. ASSUME NEW c \in Conns, Install(c) PROVE online'[u].session >= online[u].session
      <3>1. CASE u = user[c]  BY <1>1, <2>5, <3>1, InstallStep
      <3>2. CASE u # user[c]  BY <1>1, <2>1, <2>5, <3>2 DEF Install, Inv, TypeOK
      <3> QED BY <3>1, <3>2
    <2>6. UNCHANGED online \/ Restart \/ \E c \in Conns : Logout(c) \/ Install(c)
      BY <1>1 DEF Next, Task, Client, Hello, HelloWithKey, HelloRejected, Begin, Refuse, Issue,
                  Resume, HandshakeFails, ReaderEnds, Record, RecordHand, RecordSeat,
                  RecordCommit, RecordFails, vars
    <2> QED BY <2>2, <2>3, <2>4, <2>5, <2>6
  <1> QED BY Invariance, <1>1, PTL DEF Spec, EntryNeverGoesBack
=============================================================================
