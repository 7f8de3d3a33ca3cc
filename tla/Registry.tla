------------------------------ MODULE Registry ------------------------------
(***************************************************************************)
(* Logging in: the registry's accounts and session rows, which survive a   *)
(* restart, its map of who is online, which does not, and the handshake    *)
(* and the end of every connection's task; and the record of a hand that a *)
(* table writes under the same lock                                        *)
(* (crates/poker-server/src/registry.rs, session.rs).                      *)
(*                                                                         *)
(* The tasks run on a multi-threaded runtime; a step lies between two      *)
(* awaits.  write_tx is held from before the transaction until the entry   *)
(* has been installed, but a handshake that runs out of time is dropped at *)
(* any await, also between its commit and its install.  A session row is   *)
(* its position in `owner', the row id; its key is known to a client once  *)
(* the row's Welcome was sent.  Names, e-mail addresses, passwords and the *)
(* rows of statistics are abstracted to the user they belong to.           *)
(***************************************************************************)
EXTENDS Integers, Sequences, FiniteSets

CONSTANTS
    Users,          \* the user names that clients try
    MaxConns,       \* bound: connections ever opened
    HandSeats,      \* seats of a hand
    MaxHands        \* bound: hands recorded

ASSUME RegistryAssumption == MaxConns \in Nat \ {0} /\ HandSeats \in Nat \ {0} /\ MaxHands \in Nat

Conns == 1 .. MaxConns
Recorder == MaxConns + 1        \* the table, as a holder of the lock
Offline == [session |-> 0, conn |-> 0]
NoRecord == [hand |-> 0, rows |-> 0]

VARIABLES
    \* the database
    account,        \* the users that have a row
    owner,          \* the user of every session row, in the order of their ids
    live,           \* the session rows whose revoked_at is NULL
    hands,          \* the rows of hands: their ids are 1 .. hands
    hand_seats,     \* the rows of hand_seats, by hand and seat
    \* memory
    write_tx,       \* who holds the lock, or 0
    recording,      \* the rows in record_hand's open transaction
    online,         \* the entry of each user; its flag is the connection's
    \* the connections
    place,          \* where the task of each connection is
    mode,           \* the request of its handshake
    user,           \* the user it is for
    sid,            \* its session id
    revoked,        \* its revoked flag
    keys            \* the sessions whose key some client has received

db == <<account, owner, live>>
conns == <<place, mode, user, sid, revoked, keys>>
records == <<hands, hand_seats, recording>>
vars == <<db, write_tx, online, conns, records>>

Rows == DOMAIN owner
RowsOf(u) == {s \in Rows : owner[s] = u}

-----------------------------------------------------------------------------
Init ==
    /\ account = {}
    /\ owner = << >>
    /\ live = {}
    /\ write_tx = 0
    /\ online = [u \in Users |-> Offline]
    /\ place = [c \in Conns |-> "unopened"]
    /\ mode = [c \in Conns |-> "none"]
    /\ user \in [Conns -> Users]
    /\ sid = [c \in Conns |-> 0]
    /\ revoked = [c \in Conns |-> FALSE]
    /\ keys = {}
    /\ hands = 0 /\ hand_seats = {} /\ recording = NoRecord

At(c, p) == place[c] = p
Goto(c, p) == place' = [place EXCEPT ![c] = p]

\* The handshake is over, and its request forgotten.
Finish(c, p) == Goto(c, p) /\ mode' = [mode EXCEPT ![c] = "none"]

-----------------------------------------------------------------------------
(* The handshake *)

\* The first message asks for a user: with a name that is to be registered,
\* with its password or a wrong one, or with a session key, known or not.
Hello(c) ==
    /\ At(c, "unopened")
    /\ \E m \in {"register", "password", "wrong_password"} :
        mode' = [mode EXCEPT ![c] = m] /\ UNCHANGED sid
    /\ Goto(c, "asked")
    /\ UNCHANGED <<db, write_tx, online, user, revoked, keys, records>>

HelloWithKey(c) ==
    /\ At(c, "unopened")
    /\ mode' = [mode EXCEPT ![c] = "session"]
    /\ \E s \in {t \in keys : owner[t] = user[c]} \union {0} :
        sid' = [sid EXCEPT ![c] = s]
    /\ Goto(c, "asked")
    /\ UNCHANGED <<db, write_tx, online, user, revoked, keys, records>>

\* No message in time, another version or message, a malformed name: nothing
\* is touched.
HelloRejected(c) ==
    /\ At(c, "unopened")
    /\ Goto(c, "closed")
    /\ UNCHANGED <<db, write_tx, online, mode, user, sid, revoked, keys, records>>

\* The write lock is taken and the transaction begun.
Begin(c) ==
    /\ At(c, "asked")
    /\ write_tx = 0
    /\ write_tx' = c
    /\ Goto(c, "tx")
    /\ UNCHANGED <<db, online, mode, user, sid, revoked, keys, records>>

\* What the rows say to the request.
Accepted(c) ==
    \/ mode[c] = "register" /\ user[c] \notin account
    \/ mode[c] = "password" /\ user[c] \in account
    \/ mode[c] = "session" /\ sid[c] \in live

\* The name is in use, the password or the key is wrong, the row is revoked.
Refuse(c) ==
    /\ At(c, "tx")
    /\ ~ Accepted(c)
    /\ write_tx' = 0
    /\ Finish(c, "closed")
    /\ UNCHANGED <<db, online, user, sid, revoked, keys, records>>

\* Mutated issue_session_in_tx: the older rows are not revoked.
issue_session_in_tx_KeepsOld(u) ==
    /\ live' = live \union {Len(owner) + 1}
    /\ owner' = Append(owner, u)

\* Mutated issue_session_in_tx: the row is not inserted.
issue_session_in_tx_NotInserted(u) ==
    /\ live' = (live \ RowsOf(u)) \union {Len(owner) + 1}
    /\ owner' = owner

\* The user's live rows are revoked and a new one is inserted.
issue_session_in_tx(u) ==
    /\ live' = (live \ RowsOf(u)) \union {Len(owner) + 1}
    /\ owner' = Append(owner, u)

\* Mutated Issue: the lock is released before the entry is installed.
Issue_Unlocked(c) ==
    /\ At(c, "tx")
    /\ mode[c] \in {"register", "password"}
    /\ Accepted(c)
    /\ account' = account \union {user[c]}
    /\ issue_session_in_tx(user[c])
    /\ sid' = [sid EXCEPT ![c] = Len(owner) + 1]
    /\ write_tx' = 0
    /\ Goto(c, "committed")
    /\ UNCHANGED <<online, mode, user, revoked, keys, records>>

\* register and authenticate_password, up to the commit.
Issue(c) ==
    /\ At(c, "tx")
    /\ mode[c] \in {"register", "password"}
    /\ Accepted(c)
    /\ account' = account \union {user[c]}
    /\ issue_session_in_tx(user[c])
    /\ sid' = [sid EXCEPT ![c] = Len(owner) + 1]
    /\ Goto(c, "committed")
    /\ UNCHANGED <<write_tx, online, mode, user, revoked, keys, records>>

\* authenticate_session, up to the commit: the row and its key stay.
Resume(c) ==
    /\ At(c, "tx")
    /\ mode[c] = "session"
    /\ Accepted(c)
    /\ Goto(c, "committed")
    /\ UNCHANGED <<db, write_tx, online, mode, user, sid, revoked, keys, records>>

\* Mutated Superseded: the flag of the entry that is replaced is not set.
Superseded_Kept(e) == revoked

\* The flags once entry e has been replaced.
Superseded(e) == [d \in Conns |-> revoked[d] \/ d = e.conn]

\* install_online; the guard of the lock is dropped and Welcome has the key.
Install(c) ==
    /\ At(c, "committed")
    /\ online' = [online EXCEPT ![user[c]] = [session |-> sid[c], conn |-> c]]
    /\ revoked' = Superseded(online[user[c]])
    /\ write_tx' = IF write_tx = c THEN 0 ELSE write_tx
    /\ keys' = keys \union {sid[c]}
    /\ Finish(c, "reading")
    /\ UNCHANGED <<db, user, sid, records>>

\* The handshake runs out of time, or a query fails: the future is dropped
\* where it is.  A transaction is rolled back, a commit stays.
HandshakeFails(c) ==
    /\ place[c] \in {"asked", "tx", "committed"}
    /\ write_tx' = IF write_tx = c THEN 0 ELSE write_tx
    /\ Finish(c, "closed")
    /\ UNCHANGED <<db, online, user, sid, revoked, keys, records>>

-----------------------------------------------------------------------------
(* The end of a session *)

\* The reader loop ends: the flag was seen, the socket closed, or no message
\* came in time.
ReaderEnds(c) ==
    /\ At(c, "reading")
    /\ Goto(c, "closing")
    /\ UNCHANGED <<db, write_tx, online, mode, user, sid, revoked, keys, records>>

\* Mutated OnlineAfterLogout: an entry goes only if a newer session has replaced it.
OnlineAfterLogout_Newer(c) ==
    IF online[user[c]].session > sid[c] THEN [online EXCEPT ![user[c]] = Offline] ELSE online

\* The map after logout: the entry goes if it has this session's id.
OnlineAfterLogout(c) ==
    IF online[user[c]].session = sid[c] THEN [online EXCEPT ![user[c]] = Offline] ELSE online

Logout(c) ==
    /\ At(c, "closing")
    /\ online' = OnlineAfterLogout(c)
    /\ Goto(c, "closed")
    /\ UNCHANGED <<db, write_tx, mode, user, sid, revoked, keys, records>>

\* The server stops at any point and starts again on the same database.
Restart ==
    /\ recording # NoRecord \/ \E c \in Conns : place[c] \notin {"unopened", "closed"}
    /\ recording' = NoRecord
    /\ online' = [u \in Users |-> Offline]
    /\ write_tx' = 0
    /\ place' = [c \in Conns |-> IF At(c, "unopened") THEN "unopened" ELSE "closed"]
    /\ mode' = [c \in Conns |-> "none"]
    /\ UNCHANGED <<db, hands, hand_seats, user, sid, revoked, keys>>

-----------------------------------------------------------------------------
(* record_hand, called by the table's task when a hand has ended *)

\* Mutated RecordHand: the first row is not part of the transaction.
RecordHand_Autocommit ==
    /\ write_tx = 0 /\ hands < MaxHands
    /\ write_tx' = Recorder
    /\ recording' = [hand |-> hands + 1, rows |-> 0]
    /\ hands' = hands + 1
    /\ UNCHANGED <<db, hand_seats, online, conns>>

\* The lock is taken, a transaction begun, and the row of the hand inserted.
RecordHand ==
    /\ write_tx = 0 /\ hands < MaxHands
    /\ write_tx' = Recorder
    /\ recording' = [hand |-> hands + 1, rows |-> 0]
    /\ UNCHANGED <<db, hands, hand_seats, online, conns>>

\* One row for each seat, ...
RecordSeat ==
    /\ recording # NoRecord /\ recording.rows < HandSeats
    /\ recording' = [recording EXCEPT !.rows = @ + 1]
    /\ UNCHANGED <<db, hands, hand_seats, write_tx, online, conns>>

\* ... and the commit.
RecordCommit ==
    /\ recording # NoRecord /\ recording.rows = HandSeats
    /\ hands' = recording.hand
    /\ hand_seats' = hand_seats \union ({recording.hand} \X (1 .. recording.rows))
    /\ recording' = NoRecord /\ write_tx' = 0
    /\ UNCHANGED <<db, online, conns>>

\* A query fails: the transaction is rolled back, and persist_hand only warns.
RecordFails ==
    /\ recording # NoRecord
    /\ recording' = NoRecord /\ write_tx' = 0
    /\ UNCHANGED <<db, hands, hand_seats, online, conns>>

\* The seats of a hand that fetch_hand returns.
fetch_hand(h) == {s \in 1 .. HandSeats : <<h, s>> \in hand_seats}

-----------------------------------------------------------------------------
Task(c) ==
    \/ Begin(c) \/ Refuse(c) \/ Issue(c) \/ Resume(c) \/ Install(c)
    \/ HandshakeFails(c) \/ ReaderEnds(c) \/ Logout(c)

Client(c) == Hello(c) \/ HelloWithKey(c) \/ HelloRejected(c)

Record == RecordHand \/ RecordSeat \/ RecordCommit \/ RecordFails

Next == Restart \/ Record \/ \E c \in Conns : Task(c) \/ Client(c)

Spec == Init /\ [][Next]_vars

-----------------------------------------------------------------------------
(* Properties *)

Places == {"unopened", "asked", "tx", "committed", "reading", "closing", "closed"}

TypeOK ==
    /\ account \in SUBSET Users
    /\ owner \in Seq(Users)
    /\ live \in SUBSET Rows
    /\ write_tx \in Conns \union {0, Recorder}
    /\ online \in [Users -> [session : Rows \union {0}, conn : Conns \union {0}]]
    /\ place \in [Conns -> Places]
    /\ mode \in [Conns -> {"none", "register", "password", "wrong_password", "session"}]
    /\ user \in [Conns -> Users]
    /\ sid \in [Conns -> Rows \union {0}]
    /\ revoked \in [Conns -> BOOLEAN]
    /\ keys \in SUBSET Rows
    /\ hands \in Nat /\ hand_seats \in SUBSET (Nat \X (1 .. HandSeats))
    /\ recording \in [hand : Nat, rows : 0 .. HandSeats]

\* "Only one live session per user", in the database: the live row of a user
\* is the newest it was ever issued, whatever handshakes were dropped and
\* whenever the server was restarted.
LiveSessionIsNewest == \A s \in live : \A t \in RowsOf(owner[s]) : t <= s

\* A session drives its user as long as its flag is not set.
Drives(c) == At(c, "reading") /\ ~ revoked[c]

\* A connection that drives its user is the one the registry would revoke at
\* the next login, unless another connection has used the same session row.
DriverIsOnline ==
    \A c \in Conns : Drives(c) =>
        \/ online[user[c]].conn = c
        \/ \E d \in Conns \ {c} : sid[d] = sid[c]

\* Nobody is shown online whose connection is gone: an entry is removed by
\* the task that installed it, or was replaced before.
NoGhostPresence ==
    \A u \in Users : online[u].conn # 0 => ~ At(online[u].conn, "closed")

\* An older login never replaces a newer one: entries are installed in the
\* order in which their rows were issued, which the scope of write_tx is for.
EntryNeverGoesBack ==
    [][\A u \in Users : online'[u] # Offline => online'[u].session >= online[u].session]_vars

\* "Either every row lands or none do" (record_hand): whoever fetches a hand at
\* whatever time gets all of its seats, and no seat is left of a hand that was
\* not recorded; record_hand may fail at any row, and the server may stop.
HandsWhole ==
    /\ \A h \in 1 .. hands : fetch_hand(h) = 1 .. HandSeats
    /\ \A row \in hand_seats : row[1] \in 1 .. hands

\* "Only one live session per user.  A second successful Authenticate (in any
\* mode) revokes the prior session."
OneDriver ==
    \A c, d \in Conns : (Drives(c) /\ Drives(d) /\ user[c] = user[d]) => c = d
=============================================================================
