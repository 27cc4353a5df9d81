---------------------------- MODULE SessionMessages ----------------------------
(***************************************************************************)
(* Persisting the messages of one session, and replaying them by cursor.   *)
(*                                                                         *)
(* sources/app/session/sessionMessageCreate.ts stores a message in one     *)
(* SERIALIZABLE transaction of storage/inTx.ts, which is tried again when  *)
(* it collides with another; the message handler of sessionUpdateHandler   *)
(* answers the producer; sessionMessageList.ts is the cursor.  Producers   *)
(* retry with the same local ID, over the same socket or another one, when *)
(* an acknowledgement is lost.                                             *)
(*                                                                         *)
(* A transaction reads one snapshot, taken before it waits for the         *)
(* session's advisory lock.  Locking the Session row fails if the row has  *)
(* changed since then, and so does incrementing the account sequence.      *)
(* Hence: Begin takes the snapshot, and the actions after it apply the     *)
(* result or find the conflict.                                            *)
(*                                                                         *)
(* The lease itself is the subject of RuntimeLease.  Here it is a mode,    *)
(* the number of the generation (0 before the first claim) and the time    *)
(* until which it is in force.  Time passing changes no row: whether the   *)
(* lease is in force is judged against CURRENT_TIMESTAMP, the time at which*)
(* the transaction began, however long it then waits.                      *)
(*                                                                         *)
(* Definitions whose name ends in Mut are deliberate defects of the        *)
(* definition that follows them: each one breaks a property below.         *)
(***************************************************************************)
EXTENDS Naturals, FiniteSets

CONSTANTS
    Client,         \* sockets that send messages
    LocalId,        \* local IDs
    NoId,           \* no local ID: the producer cannot retry
    Cipher,         \* ciphertexts
    PageSize,       \* limit of a cursor page
    Input,          \* bound: the messages each client sends
    Scope,          \* bound: the kinds of connection considered
    Reading,        \* bound: the clients that replay by cursor
    MaxSeq,         \* bound: messages
    MaxGen,         \* bound: generations
    MaxOther,       \* bound: account sequence numbers taken by other updates
    MaxTime,        \* bound: the clock of the database
    LeaseDuration,  \* of a lease, and the grace of a legacy row
    TxTimeout,      \* the time limit of a transaction of inTx
    MaxRetries      \* the three retries of inTx

ASSUME MessagesAssumption ==
    /\ NoId \notin LocalId
    /\ Input \in [Client -> SUBSET [localId : LocalId \union {NoId}, cipher : Cipher]]
    /\ Reading \subseteq Client
    /\ PageSize \in Nat \ {0}
    /\ MaxSeq \in Nat /\ MaxGen \in Nat /\ MaxOther \in Nat /\ MaxRetries \in Nat
    /\ MaxTime \in Nat /\ LeaseDuration \in Nat \ {0} /\ TxTimeout \in Nat \ {0}
    /\ Scope \subseteq {"user", "lease", "legacy", "replay"}

VARIABLES
    row,            \* what the Session row says: seq and runtime
    account,        \* Account.seq
    messages,       \* SessionMessage rows, each with its outbox row
    client,         \* the connection of each client
    tx,             \* the transaction in flight for each client, if any
    reader,         \* what each client has replayed
    acked,          \* success acknowledgements sent to producers
    other,          \* account sequence numbers taken by other updates
    now             \* CURRENT_TIMESTAMP of a transaction that begins

vars == <<row, account, messages, client, tx, reader, acked, other, now>>

Gen == 0 .. MaxGen

(***************************************************************************)
(* legacy: a row that no lease has touched, upgraded: the same with an     *)
(* incarnation; leased; replaying; ended: retired, swept or given up by the*)
(* socket that held it.  until: runtimeConnectionLeaseExpiresAt, or        *)
(* lastActiveAt and the grace where there is no lease.                     *)
(***************************************************************************)
Runtime ==
    [mode : {"legacy", "upgraded", "leased", "replaying", "ended"}, gen : Gen,
     until : 0 .. MaxTime + LeaseDuration]

SessionRow == [seq : 0 .. MaxSeq, runtime : Runtime]

\* by, target: the generation that wrote, or is told; none for a user client.
\* late: its transaction began when the lease was no longer in force.
Message ==
    [seq : 1 .. MaxSeq, updateSeq : 1 .. MaxSeq + MaxOther,
     localId : LocalId \union {NoId}, cipher : Cipher,
     by : SUBSET Gen, target : SUBSET Gen, late : BOOLEAN]

Connection == [scope : {"none", "user", "lease", "legacy", "replay"}, gen : Gen]

\* from: the connection the message came in on, which may be closed by now
\* at: when the transaction began
Transaction ==
    [from : Connection, localId : LocalId \union {NoId}, cipher : Cipher,
     seen : SessionRow, account : 0 .. MaxSeq + MaxOther, at : 0 .. MaxTime,
     counter : 0 .. MaxRetries]

Reader == [cursor : 0 .. MaxSeq, caughtUp : BOOLEAN, got : SUBSET Message]

TypeOK ==
    /\ row \in SessionRow
    /\ account \in 0 .. MaxSeq + MaxOther
    /\ messages \subseteq Message
    /\ client \in [Client -> Connection]
    /\ tx \in [Client -> SUBSET Transaction]
    /\ reader \in [Client -> Reader]
    /\ acked \subseteq [localId : LocalId, cipher : Cipher, message : Message]
    /\ other \subseteq 1 .. MaxSeq + MaxOther
    /\ now \in 0 .. MaxTime

Init ==
    /\ \E m \in {"legacy", "upgraded"} :
         row = [seq |-> 0, runtime |-> [mode |-> m, gen |-> 0, until |-> LeaseDuration]]
    /\ account = 0
    /\ messages = {}
    /\ client = [c \in Client |-> [scope |-> "none", gen |-> 0]]
    /\ tx = [c \in Client |-> {}]
    /\ reader = [c \in Client |-> [cursor |-> 0, caughtUp |-> FALSE, got |-> {}]]
    /\ acked = {}
    /\ other = {}
    /\ now = 0
-----------------------------------------------------------------------------
(* Connections and the lease, as RuntimeLease describes them.              *)

Attach(c, connection) ==
    /\ client[c].scope = "none"
    /\ connection.scope \in Scope
    /\ client' = [client EXCEPT ![c] = connection]
    /\ reader' = [reader EXCEPT ![c].caughtUp = FALSE]
    /\ UNCHANGED <<account, messages, tx, acked, other, now>>

\* User clients, legacy clients and a replay transport that claims nothing.
Connect(c) ==
    /\ \E s \in {"user", "legacy", "replay"} : Attach(c, [scope |-> s, gen |-> 0])
    /\ UNCHANGED row

ClaimLease(c, s, m) ==
    /\ row.runtime.gen < MaxGen
    /\ row' = [row EXCEPT !.runtime = [mode |-> m, gen |-> row.runtime.gen + 1,
                                        until |-> now + LeaseDuration]]
    /\ Attach(c, [scope |-> s, gen |-> row.runtime.gen + 1])

Claim(c) == ClaimLease(c, "lease", "leased") \/ ClaimLease(c, "replay", "replaying")

\* Of the holder, or of a legacy client: also when the lease is no longer in force.
Heartbeat ==
    /\ row.runtime.mode \in {"leased", "legacy"}
    /\ row.runtime.until < now + LeaseDuration
    /\ row' = [row EXCEPT !.runtime = [row.runtime EXCEPT !.until = now + LeaseDuration]]
    /\ UNCHANGED <<account, messages, client, tx, reader, acked, other, now>>

\* The incarnation ends, or the lease is given up.
EndLease ==
    /\ row.runtime.mode # "ended"
    /\ row' = [row EXCEPT !.runtime = [mode |-> "ended", gen |-> row.runtime.gen, until |-> now]]
    /\ UNCHANGED <<account, messages, client, tx, reader, acked, other, now>>

\* Time passes, for transactions that wait too.
Tick ==
    /\ now < MaxTime
    /\ now' = now + 1
    /\ UNCHANGED <<row, account, messages, client, tx, reader, acked, other>>

Disconnect(c) ==
    /\ client[c].scope # "none"
    /\ client' = [client EXCEPT ![c] = [scope |-> "none", gen |-> 0]]
    /\ UNCHANGED <<row, account, messages, tx, reader, acked, other, now>>

\* allocateUserSeq on behalf of any other update of the account
OtherUpdate ==
    /\ Cardinality(other) < MaxOther
    /\ account' = account + 1
    /\ other' = other \union {account + 1}
    /\ UNCHANGED <<row, messages, client, tx, reader, acked, now>>
-----------------------------------------------------------------------------
(* The transaction.                                                        *)

\* The handler takes a message: one at a time per socket (receiveMessageLock).
Begin(c) ==
    /\ client[c].scope # "none"
    /\ tx[c] = {}
    /\ \E i \in Input[c] :
         tx' = [tx EXCEPT ![c] = {[from |-> client[c],
                                   localId |-> i.localId, cipher |-> i.cipher,
                                   seen |-> row, account |-> account, at |-> now,
                                   counter |-> 0]}]
    /\ UNCHANGED <<row, account, messages, client, reader, acked, other, now>>

\* The messages of a snapshot.
Visible(s) == {m \in messages : m.seq <= s.seq}

ExistingMut(t) ==
    {m \in Visible(t.seen) :
        t.localId # NoId /\ m.localId = t.localId /\ m.cipher = t.cipher}

Existing(t) ==
    {m \in Visible(t.seen) : t.localId # NoId /\ m.localId = t.localId}

\* hasCiphertext
SameCiphertext(m, t) == m.cipher = t.cipher

\* The row's lease or grace was still in force when a transaction began.
InForce(r, at) == r.until > at

AuthorizedMut(k, r, at) ==
    \/ k.scope \in {"user", "replay"}
    \/ k.scope = "lease" /\ r.mode = "leased" /\ r.gen = k.gen
    \/ k.scope = "legacy" /\ r.mode = "legacy"

Authorized(k, r, at) ==
    \/ k.scope = "user"
    \/ /\ InForce(r, at)
       /\ \/ k.scope = "lease" /\ r.mode = "leased" /\ r.gen = k.gen
          \/ k.scope = "legacy" /\ r.mode = "legacy"
          \/ k.scope = "replay" /\ r.mode = "replaying" /\ r.gen = k.gen

\* The duplicate that may be returned: a replay producer needs no lease for it.
Duplicate(t) ==
    {m \in Existing(t) :
        /\ SameCiphertext(m, t)
        /\ Authorized(t.from, t.seen.runtime, t.at) \/ t.from.scope = "replay"}

Creates(t) == Authorized(t.from, t.seen.runtime, t.at) /\ Existing(t) = {}

\* Within the time limit of the transaction.
InTime(t) == now < t.at + TxTimeout

RowConflictMut(t) == t.seen.seq # row.seq

\* SELECT ... FOR UPDATE of a row that was written since the snapshot; a lease
\* that is no longer in force was not
RowConflict(t) == t.seen # row

AccountConflictMut(t) == FALSE

\* UPDATE of an account row that changed since the snapshot
AccountConflict(t) == t.account # account

\* Legacy connections are of generation 0, which is the row's before any lease.
Target(r, at) ==
    {g \in {r.gen} : r.mode \in {"leased", "legacy", "upgraded"} /\ InForce(r, at)}

NewMessage(t) ==
    [seq |-> t.seen.seq + 1, updateSeq |-> t.account + 1,
     localId |-> t.localId, cipher |-> t.cipher,
     by |-> IF t.from.scope = "user" THEN {} ELSE {t.from.gen},
     target |-> Target(t.seen.runtime, t.at),
     late |-> ~InForce(t.seen.runtime, t.at)]

\* Message m is acknowledged.  Producers may retry whether or not it reaches
\* them, or is sent: when the answer to COMMIT is lost it is not.
Acknowledge(t, m) ==
    acked' = IF t.localId = NoId THEN acked
             ELSE acked \union
               {[localId |-> t.localId, cipher |-> t.cipher, message |-> m]}

Finish(c) == tx' = [tx EXCEPT ![c] = {}]

Persist(c, t) ==
    LET m == NewMessage(t)
    IN  /\ InTime(t)
        /\ ~RowConflict(t)
        /\ ~AccountConflict(t)
        /\ Creates(t)
        /\ row.seq < MaxSeq
        /\ row' = [row EXCEPT !.seq = t.seen.seq + 1]
        /\ messages' = messages \union {m}
        /\ account' = t.account + 1
        /\ Finish(c)
        /\ Acknowledge(t, m)
        /\ UNCHANGED <<client, reader, other, now>>

ReturnDuplicate(c, t) ==
    /\ InTime(t)
    /\ ~RowConflict(t)
    /\ \E m \in Duplicate(t) : Acknowledge(t, m)
    /\ Finish(c)
    /\ UNCHANGED <<row, account, messages, client, reader, other, now>>

\* runtime_connection_stale closes the socket; idempotency_conflict does not.
Refuse(c, t) ==
    /\ InTime(t)
    /\ ~RowConflict(t)
    /\ ~Creates(t)
    /\ Duplicate(t) = {}
    /\ Finish(c)
    /\ client' = IF Authorized(t.from, t.seen.runtime, t.at) \/ client[c] # t.from
                 THEN client
                 ELSE [client EXCEPT ![c] = [scope |-> "none", gen |-> 0]]
    /\ UNCHANGED <<row, account, messages, reader, acked, other, now>>

\* A serialization failure: a new snapshot, or internal_error after the retries.
Retry(c, t) ==
    /\ InTime(t)
    /\ \/ RowConflict(t)
       \/ Creates(t) /\ AccountConflict(t)
    /\ tx' = [tx EXCEPT ![c] =
         IF t.counter < MaxRetries
         THEN {[t EXCEPT !.seen = row, !.account = account, !.at = now,
                         !.counter = t.counter + 1]}
         ELSE {}]
    /\ UNCHANGED <<row, account, messages, client, reader, acked, other, now>>

\* Any other error, the time limit among them: internal_error.
Fail(c, t) ==
    /\ Finish(c)
    /\ UNCHANGED <<row, account, messages, client, reader, acked, other, now>>
-----------------------------------------------------------------------------
(* The cursor.                                                             *)

\* The first PageSize messages after a sequence number.
Page(after) ==
    {m \in messages : /\ m.seq > after
                      /\ Cardinality({n \in messages : n.seq > after /\ n.seq < m.seq})
                           < PageSize}

ReadPage(c) ==
    LET page == Page(reader[c].cursor)
        last == {m \in page : \A n \in page : n.seq <= m.seq}
    IN  /\ c \in Reading
        /\ client[c].scope # "none"
        /\ ~reader[c].caughtUp
        /\ \E next \in IF page = {} THEN {reader[c].cursor} ELSE {m.seq : m \in last} :
             reader' = [reader EXCEPT ![c] =
               [cursor |-> next,
                caughtUp |-> \A m \in messages : m.seq > reader[c].cursor => m \in page,
                got |-> reader[c].got \union page]]
        /\ UNCHANGED <<row, account, messages, client, tx, acked, other, now>>
-----------------------------------------------------------------------------
Next ==
    \/ \E c \in Client :
         \/ Connect(c) \/ Claim(c) \/ Disconnect(c) \/ ReadPage(c)
         \/ Begin(c)
         \/ \E t \in tx[c] :
              \/ Persist(c, t) \/ ReturnDuplicate(c, t) \/ Refuse(c, t)
              \/ Retry(c, t) \/ Fail(c, t)
    \/ Heartbeat
    \/ EndLease
    \/ OtherUpdate
    \/ Tick

Spec == Init /\ [][Next]_vars
-----------------------------------------------------------------------------
(***************************************************************************)
(* Idempotence.  Whatever is retried, over whichever sockets and however   *)
(* the attempts overlap, a local ID is stored once, and every success      *)
(* acknowledgement for it names that row and the ciphertext it acknowledges*)
(* (persistSessionMessageInTx, idempotency_conflict, inTx).                *)
(***************************************************************************)
StoredOnce ==
    /\ TypeOK
    /\ \A m, n \in messages : m.localId # NoId /\ m.localId = n.localId => m = n
    /\ \A a \in acked :
         /\ a.message \in messages
         /\ a.message.localId = a.localId /\ a.message.cipher = a.cipher

\* A client that has read up to a sequence number has every message with a
\* smaller one, although others commit while it pages.
CursorLossless ==
    \A c \in Client : \A m \in messages :
        m.seq <= reader[c].cursor => m \in reader[c].got

(***************************************************************************)
(* The output of a runtime is fenced.  A message of a leased, replaying or *)
(* legacy connection is committed only while the row still names its       *)
(* generation, even if claims and ends come while the transaction waits    *)
(* (persistSessionMessageInTx).  The clock is no fence: a lease that was in*)
(* force when the transaction began may be over when it commits, by less   *)
(* than the time limit of the transaction (inTx).                          *)
(***************************************************************************)
OutputFenced ==
    [][\A m \in messages' \ messages : m.by # {} =>
         /\ m.by = {row.runtime.gen}
         /\ row.runtime.mode \in {"leased", "replaying", "legacy"}
         /\ now < row.runtime.until + TxTimeout]_vars

\* Once a runtime has caught up and as long as it holds the lease, a later
\* message is announced to it, never to an older generation, unless its
\* transaction began when the lease was no longer in force.  Such a message is
\* announced to no runtime, and a late heartbeat does not make up for that.
FeedFollowsCursor ==
    \A c \in Client : \A m \in messages :
        /\ client[c].scope = "lease"
        /\ client[c].gen = row.runtime.gen /\ row.runtime.mode = "leased"
        /\ reader[c].caughtUp
        /\ m.seq > reader[c].cursor
        => m.target = {client[c].gen} \/ m.late

(***************************************************************************)
(* Where the cursor stops the live feed goes on: the cursor leaves nothing *)
(* out (listSessionMessagesAfterSeq), and what is committed after a runtime*)
(* has caught up is announced to its generation (the captured target of    *)
(* sessionMessageCreate), with the one gap that FeedFollowsCursor names: a *)
(* message whose transaction began after the lease ran out.  The runtime   *)
(* learns of that one from its next replay only.                           *)
(***************************************************************************)
CursorMeetsFeed == CursorLossless /\ FeedFollowsCursor

(***************************************************************************)
(* UpdatePayload.seq: no two updates of the account share a number, and of *)
(* two messages of the session the later one has the larger number         *)
(* (account.update inside the transaction).                                *)
(***************************************************************************)
UpdateSeqOrders ==
    /\ \A m, n \in messages : m.seq < n.seq => m.updateSeq < n.updateSeq
    /\ \A m \in messages : m.updateSeq \notin other
=============================================================================
