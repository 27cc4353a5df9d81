------------------------- MODULE SessionMessagesProofs -------------------------
(***************************************************************************)
(* Proofs about SessionMessages, for any clients, local IDs, ciphertexts   *)
(* and inputs, any page size, and any number of messages, generations and  *)
(* retries.                                                                *)
(***************************************************************************)
EXTENDS SessionMessages, FiniteSetTheorems, TLAPS

-----------------------------------------------------------------------------
(* The inductive invariant, in the parts the theorems need.                *)

\* Account.seq counts the messages and the other updates, and nothing else.
Numbers ==
    /\ IsFiniteSet(other)
    /\ Cardinality(other) <= MaxOther
    /\ account = row.seq + Cardinality(other)
    /\ \A n \in other : n <= account

\* The messages are those numbered so far: a snapshot that is still current
\* sees them all.
Stored ==
    /\ IsFiniteSet(messages)
    /\ \A m \in messages : m.seq <= row.seq /\ m.updateSeq <= account

\* A local ID is stored once, and acknowledged by what is stored.
Idempotent ==
    /\ \A m, n \in messages : m.localId # NoId /\ m.localId = n.localId => m = n
    /\ \A a \in acked :
         /\ a.message \in messages
         /\ a.message.localId = a.localId /\ a.message.cipher = a.cipher

\* Generations are numbered in the order of their claims; clients without a
\* lease are of generation 0.
Generations ==
    /\ row.runtime.mode \in {"legacy", "upgraded"} => row.runtime.gen = 0
    /\ \A c \in Client :
         /\ client[c].gen <= row.runtime.gen
         /\ client[c].scope = "lease" => client[c].gen # 0
         /\ client[c].scope = "legacy" => client[c].gen = 0
         /\ \A t \in tx[c] : t.from.scope = "legacy" => t.from.gen = 0

\* No cursor is ahead of the session.
Cursors == \A c \in Client : reader[c].cursor <= row.seq

IInv ==
    /\ TypeOK
    /\ Numbers
    /\ Stored
    /\ Idempotent
    /\ UpdateSeqOrders
    /\ Generations
    /\ Cursors
    /\ CursorLossless
    /\ FeedFollowsCursor
-----------------------------------------------------------------------------
\* Initially the invariant holds: nothing is stored, sent or read.
LEMMA InitInv == Init => IInv
<1> SUFFICES ASSUME Init PROVE IInv
  OBVIOUS
<1>1. TypeOK
  BY MessagesAssumption DEF Init, TypeOK, SessionRow, Runtime, Gen, Connection, Reader
<1>2. Numbers
  BY FS_EmptySet, MessagesAssumption DEF Init, Numbers
<1>3. Stored
  BY FS_EmptySet DEF Init, Stored
<1>4. Idempotent /\ UpdateSeqOrders
  BY DEF Init, Idempotent, UpdateSeqOrders
<1>5. Generations
  BY DEF Init, Generations
<1>6. Cursors /\ CursorLossless /\ FeedFollowsCursor
  BY DEF Init, Cursors, CursorLossless, FeedFollowsCursor
<1> QED
  BY <1>1, <1>2, <1>3, <1>4, <1>5, <1>6 DEF IInv

\* What the invariant says of the row and of one client.
LEMMA RowType ==
    ASSUME TypeOK
    PROVE  /\ row.seq \in Nat /\ row.seq <= MaxSeq
           /\ row.runtime \in Runtime /\ row.runtime.gen \in Nat
           /\ row.runtime.gen <= MaxGen
           /\ row = [seq |-> row.seq, runtime |-> row.runtime]
           /\ row.runtime = [mode |-> row.runtime.mode, gen |-> row.runtime.gen,
                             until |-> row.runtime.until]
           /\ row.runtime.until \in Nat /\ now \in Nat /\ now <= MaxTime
           /\ account \in Nat
           /\ \A c \in Client : /\ client[c] \in Connection
                                /\ client[c].gen \in Nat
                                /\ reader[c] \in Reader
                                /\ reader[c].cursor \in Nat
           /\ \A m \in messages : m.seq \in Nat /\ m.updateSeq \in Nat
BY MessagesAssumption
   DEF TypeOK, SessionRow, Runtime, Gen, Connection, Reader, Message

\* Attaching resets what a reader has caught up with, and nothing else.
LEMMA ReaderType ==
    ASSUME NEW r \in Reader
    PROVE  [r EXCEPT !.caughtUp = FALSE] \in Reader
BY DEF Reader
-----------------------------------------------------------------------------
(* Connections and the lease.                                              *)

\* A connection that is attached keeps the invariant.
LEMMA AttachInv ==
    ASSUME IInv, NEW c \in Client, NEW k \in Connection, Attach(c, k),
           \/ row' = row /\ k.gen = 0 /\ k.scope # "lease"
           \/ \E m \in {"leased", "replaying"} :
                /\ row.runtime.gen < MaxGen
                /\ row' = [row EXCEPT !.runtime = [mode |-> m, gen |-> row.runtime.gen + 1,
                                                   until |-> now + LeaseDuration]]
                /\ k.gen = row.runtime.gen + 1
                /\ k.scope \in {"lease", "replay"}
    PROVE  IInv'
<1> USE RowType, MessagesAssumption
<1>0. TypeOK
  BY DEF IInv
<1>1. row' \in SessionRow /\ row'.seq = row.seq
  BY <1>0 DEF TypeOK, SessionRow, Runtime, Gen
<1>2. /\ client' = [client EXCEPT ![c] = k]
      /\ reader' = [reader EXCEPT ![c] = [reader[c] EXCEPT !.caughtUp = FALSE]]
      /\ UNCHANGED <<account, messages, tx, acked, other, now>>
  BY <1>0 DEF Attach, TypeOK
<1>3. TypeOK'
  <2>1. [reader[c] EXCEPT !.caughtUp = FALSE] \in Reader
    BY <1>0, ReaderType
  <2> QED
    BY <1>0, <1>1, <1>2, <2>1 DEF TypeOK
<1>4. Numbers' /\ Stored' /\ Idempotent' /\ UpdateSeqOrders'
  BY <1>1, <1>2 DEF IInv, Numbers, Stored, Idempotent, UpdateSeqOrders
<1>5. Generations'
  <2>1. row'.runtime.gen >= row.runtime.gen /\ row'.runtime.gen \in Nat
    BY <1>0 DEF SessionRow, Runtime
  <2>2. row'.runtime.mode \in {"legacy", "upgraded"} => row'.runtime.gen = 0
    BY <1>0 DEF IInv, Generations, SessionRow, Runtime
  <2>3. /\ k.gen <= row'.runtime.gen
        /\ k.scope = "lease" => k.gen # 0
        /\ k.scope = "legacy" => k.gen = 0
    BY <1>0 DEF SessionRow, Runtime
  <2>4. ASSUME NEW d \in Client
        PROVE  /\ client'[d].gen <= row'.runtime.gen
               /\ client'[d].scope = "lease" => client'[d].gen # 0
               /\ client'[d].scope = "legacy" => client'[d].gen = 0
               /\ \A t \in tx'[d] : t.from.scope = "legacy" => t.from.gen = 0
    BY <1>0, <1>2, <2>1, <2>3 DEF IInv, Generations, TypeOK
  <2> QED
    BY <2>2, <2>4 DEF Generations
<1>6. Cursors' /\ CursorLossless'
  BY <1>0, <1>1, <1>2 DEF IInv, Cursors, CursorLossless, TypeOK, Reader
<1>7. FeedFollowsCursor'
  <2> SUFFICES ASSUME NEW d \in Client, NEW m \in messages,
                      client'[d].scope = "lease",
                      client'[d].gen = row'.runtime.gen, row'.runtime.mode = "leased",
                      reader'[d].caughtUp, m.seq > reader'[d].cursor
               PROVE  m.target = {client'[d].gen} \/ m.late
    BY <1>2 DEF FeedFollowsCursor
  <2>1. d # c /\ client'[d] = client[d] /\ reader'[d] = reader[d]
    BY <1>0, <1>2 DEF TypeOK, Reader
  <2>2. row'.runtime = row.runtime
    BY <1>0, <2>1 DEF IInv, Generations
  <2> QED
    BY <2>1, <2>2 DEF IInv, FeedFollowsCursor
<1> QED
  BY <1>3, <1>4, <1>5, <1>6, <1>7 DEF IInv

\* A step that leaves the tables, the cursors and every connection in place,
\* except that connections may close, keeps the invariant.
LEMMA ClosingInv ==
    ASSUME IInv, UNCHANGED <<account, messages, reader, acked, other>>,
           row'.seq = row.seq, row' \in SessionRow,
           row'.runtime.gen = row.runtime.gen,
           row'.runtime.mode \in {"legacy", "upgraded"}
             => row.runtime.mode \in {"legacy", "upgraded"},
           row'.runtime.mode = "leased" => row.runtime.mode = "leased",
           now' \in 0 .. MaxTime,
           client' \in [Client -> Connection],
           \A c \in Client :
              client'[c] = client[c] \/ client'[c] = [scope |-> "none", gen |-> 0],
           tx' \in [Client -> SUBSET Transaction],
           \A c \in Client : \A t \in tx'[c] :
              t.from.scope = "legacy" => t.from.gen = 0
    PROVE  IInv'
<1>0. TypeOK
  BY DEF IInv
<1>1. TypeOK'
  BY <1>0 DEF TypeOK
<1>2. Numbers' /\ Stored' /\ Idempotent' /\ UpdateSeqOrders' /\ Cursors' /\ CursorLossless'
  BY DEF IInv, Numbers, Stored, Idempotent, UpdateSeqOrders, Cursors, CursorLossless
<1>3. Generations'
  BY <1>0, RowType DEF IInv, Generations
<1>4. FeedFollowsCursor'
  BY DEF IInv, FeedFollowsCursor
<1> QED
  BY <1>1, <1>2, <1>3, <1>4 DEF IInv

\* A number taken by another update of the account is new to the session.
LEMMA OtherUpdateInv ==
    ASSUME IInv, OtherUpdate
    PROVE  IInv'
<1> USE RowType, MessagesAssumption
<1>0. TypeOK /\ Numbers
  BY DEF IInv
<1>1. /\ Cardinality(other) < MaxOther
      /\ account' = account + 1 /\ other' = other \union {account + 1}
      /\ UNCHANGED <<row, messages, client, tx, reader, acked, now>>
  BY DEF OtherUpdate
<1>2. Cardinality(other) \in Nat
  BY <1>0, FS_CardinalityType DEF Numbers
<1>3. account + 1 \notin other
  BY <1>0 DEF Numbers
<1>4. IsFiniteSet(other') /\ Cardinality(other') = Cardinality(other) + 1
  BY <1>0, <1>1, <1>3, FS_AddElement DEF Numbers
<1>5. TypeOK'
  BY <1>0, <1>1, <1>2 DEF TypeOK, Numbers
<1>6. Numbers'
  <2>1. \A n \in other' : n <= account'
    BY <1>0, <1>1 DEF TypeOK, Numbers
  <2> QED
    BY <1>0, <1>1, <1>2, <1>4, <2>1 DEF Numbers
<1>7. Stored' /\ Idempotent' /\ UpdateSeqOrders'
  <2>1. \A m \in messages : m.updateSeq <= account'
    BY <1>0, <1>1 DEF IInv, Stored
  <2>2. \A m \in messages : m.updateSeq \notin other'
    BY <1>0, <1>1 DEF IInv, Stored, UpdateSeqOrders
  <2> QED
    BY <1>1, <2>1, <2>2 DEF IInv, Stored, Idempotent, UpdateSeqOrders
<1>8. Generations' /\ Cursors' /\ CursorLossless' /\ FeedFollowsCursor'
  BY <1>1 DEF IInv, Generations, Cursors, CursorLossless, FeedFollowsCursor
<1> QED
  BY <1>5, <1>6, <1>7, <1>8 DEF IInv
-----------------------------------------------------------------------------
(* The transaction.                                                        *)

\* A transaction in flight is well typed.
LEMMA TxType ==
    ASSUME TypeOK, NEW c \in Client, NEW t \in tx[c]
    PROVE  /\ t \in Transaction
           /\ t.from \in Connection /\ t.seen \in SessionRow
           /\ t.localId \in LocalId \union {NoId} /\ t.cipher \in Cipher
           /\ t.counter \in Nat
BY MessagesAssumption DEF TypeOK, Transaction

\* A new snapshot leaves the rest of a transaction as it was.
LEMMA SnapshotType ==
    ASSUME NEW t \in Transaction, NEW r \in SessionRow, NEW a \in 0 .. MaxSeq + MaxOther,
           NEW w \in 0 .. MaxTime, NEW n \in 0 .. MaxRetries
    PROVE  [t EXCEPT !.seen = r, !.account = a, !.at = w, !.counter = n] \in Transaction
BY DEF Transaction

\* Begin takes a snapshot of what is there.
LEMMA BeginInv ==
    ASSUME IInv, NEW c \in Client, Begin(c)
    PROVE  IInv'
<1> USE RowType, MessagesAssumption
<1>0. TypeOK
  BY DEF IInv
<1>1. PICK i \in Input[c] :
        tx' = [tx EXCEPT ![c] = {[from |-> client[c],
                                  localId |-> i.localId, cipher |-> i.cipher,
                                  seen |-> row, account |-> account, at |-> now,
                                  counter |-> 0]}]
  BY DEF Begin
<1>2. UNCHANGED <<row, account, messages, client, reader, acked, other, now>>
  BY DEF Begin
<1>3. [from |-> client[c], localId |-> i.localId, cipher |-> i.cipher,
       seen |-> row, account |-> account, at |-> now, counter |-> 0] \in Transaction
  BY <1>0 DEF Transaction, TypeOK
<1>4. tx' \in [Client -> SUBSET Transaction]
  BY <1>0, <1>1, <1>3 DEF TypeOK
<1>5. \A d \in Client : \A t \in tx'[d] : t.from.scope = "legacy" => t.from.gen = 0
  BY <1>0, <1>1 DEF IInv, Generations, TypeOK
<1> QED
  BY <1>0, <1>2, <1>4, <1>5, ClosingInv DEF TypeOK

\* A retry takes a new snapshot, or gives up.
LEMMA RetryInv ==
    ASSUME IInv, NEW c \in Client, NEW t \in tx[c], Retry(c, t)
    PROVE  IInv'
<1> USE RowType, MessagesAssumption
<1>0. TypeOK
  BY DEF IInv
<1>1. UNCHANGED <<row, account, messages, client, reader, acked, other, now>>
  BY DEF Retry
<1> DEFINE u == [t EXCEPT !.seen = row, !.account = account, !.at = now,
                           !.counter = t.counter + 1]
<1>2. tx' = [tx EXCEPT ![c] = IF t.counter < MaxRetries THEN {u} ELSE {}]
  BY DEF Retry
<1>3. t \in Transaction /\ t.counter \in Nat
  BY <1>0, TxType
<1>4. t.counter < MaxRetries => u \in Transaction
  <2>1. t.counter < MaxRetries => t.counter + 1 \in 0 .. MaxRetries
    BY <1>3
  <2>2. row \in SessionRow /\ account \in 0 .. MaxSeq + MaxOther /\ now \in 0 .. MaxTime
    BY <1>0 DEF TypeOK
  <2> QED
    BY <1>3, <2>1, <2>2, SnapshotType, Zenon
<1>5. u.from = t.from
  BY <1>3 DEF Transaction
<1>6. t.from.scope = "legacy" => t.from.gen = 0
  BY DEF IInv, Generations
<1> HIDE DEF u
<1>7. tx' \in [Client -> SUBSET Transaction]
  BY <1>0, <1>2, <1>4 DEF TypeOK
<1>8. ASSUME NEW d \in Client, NEW v \in tx'[d]
      PROVE  v.from.scope = "legacy" => v.from.gen = 0
  <2>1. v \in tx[d] \/ v = u
    BY <1>0, <1>2 DEF TypeOK
  <2> QED
    BY <1>5, <1>6, <2>1 DEF IInv, Generations
<1> QED
  BY <1>0, <1>1, <1>7, <1>8, ClosingInv DEF TypeOK

\* Finishing a transaction leaves the others as they are.
LEMMA FinishType ==
    ASSUME IInv, NEW c \in Client, Finish(c)
    PROVE  /\ tx' \in [Client -> SUBSET Transaction]
           /\ \A d \in Client : tx'[d] \subseteq tx[d]
           /\ \A d \in Client : \A t \in tx'[d] :
                t.from.scope = "legacy" => t.from.gen = 0
BY DEF IInv, TypeOK, Finish, Generations

\* A refusal may close the socket.
LEMMA RefuseInv ==
    ASSUME IInv, NEW c \in Client, NEW t \in tx[c], Refuse(c, t)
    PROVE  IInv'
<1> USE RowType, MessagesAssumption
<1>0. TypeOK
  BY DEF IInv
<1>1. /\ UNCHANGED <<row, account, messages, reader, acked, other, now>>
      /\ Finish(c)
      /\ client' = client \/ client' = [client EXCEPT ![c] = [scope |-> "none", gen |-> 0]]
  BY DEF Refuse
<1>2. [scope |-> "none", gen |-> 0] \in Connection
  BY DEF Connection, Gen
<1>3. /\ client' \in [Client -> Connection]
      /\ \A d \in Client :
           client'[d] = client[d] \/ client'[d] = [scope |-> "none", gen |-> 0]
  BY <1>0, <1>1, <1>2 DEF TypeOK
<1> QED
  BY <1>0, <1>1, <1>3, FinishType, ClosingInv DEF TypeOK

\* A duplicate is acknowledged by the row that is stored.
LEMMA ReturnDuplicateInv ==
    ASSUME IInv, NEW c \in Client, NEW t \in tx[c], ReturnDuplicate(c, t)
    PROVE  IInv'
<1> USE RowType, MessagesAssumption
<1>0. TypeOK
  BY DEF IInv
<1>1. PICK m \in Duplicate(t) : Acknowledge(t, m)
  BY DEF ReturnDuplicate
<1>2. UNCHANGED <<row, account, messages, client, reader, other, now>> /\ Finish(c)
  BY DEF ReturnDuplicate
<1>3. m \in messages /\ m.localId = t.localId /\ m.cipher = t.cipher /\ t.localId # NoId
  BY DEF Duplicate, Existing, Visible, SameCiphertext
<1>4. acked' = acked \union {[localId |-> t.localId, cipher |-> t.cipher, message |-> m]}
  BY <1>1, <1>3 DEF Acknowledge
<1>5. TypeOK'
  <2>1. t.localId \in LocalId /\ t.cipher \in Cipher /\ m \in Message
    BY <1>0, <1>3, TxType DEF TypeOK
  <2>2. acked' \subseteq [localId : LocalId, cipher : Cipher, message : Message]
    BY <1>0, <1>4, <2>1 DEF TypeOK
  <2> QED
    BY <1>0, <1>2, <2>2, FinishType DEF TypeOK
<1>6. Idempotent'
  BY <1>2, <1>3, <1>4 DEF IInv, Idempotent
<1>7. Generations'
  BY <1>2, FinishType DEF IInv, Generations
<1>8. Numbers' /\ Stored' /\ UpdateSeqOrders' /\ Cursors' /\ CursorLossless' /\ FeedFollowsCursor'
  BY <1>2 DEF IInv, Numbers, Stored, UpdateSeqOrders, Cursors, CursorLossless, FeedFollowsCursor
<1> QED
  BY <1>5, <1>6, <1>7, <1>8 DEF IInv

\* The new message of a transaction that meets no conflict.
LEMMA PersistInv ==
    ASSUME IInv, NEW c \in Client, NEW t \in tx[c], Persist(c, t)
    PROVE  IInv'
<1> USE RowType, MessagesAssumption
<1>0. TypeOK /\ Numbers /\ Stored /\ Generations
  BY DEF IInv
<1> DEFINE m == NewMessage(t)
<1>1. /\ t.seen = row /\ t.account = account /\ Creates(t) /\ row.seq < MaxSeq
      /\ row' = [row EXCEPT !.seq = row.seq + 1]
      /\ messages' = messages \union {m}
      /\ account' = account + 1
      /\ Finish(c)
      /\ Acknowledge(t, m)
      /\ UNCHANGED <<client, reader, other, now>>
  BY DEF Persist, RowConflict, AccountConflict
<1>2. /\ row'.seq = row.seq + 1 /\ row'.runtime = row.runtime /\ row' \in SessionRow
  BY <1>0, <1>1 DEF SessionRow
<1>3. Cardinality(other) \in Nat
  BY <1>0, FS_CardinalityType DEF Numbers
<1>4. m = [seq |-> row.seq + 1, updateSeq |-> account + 1,
           localId |-> t.localId, cipher |-> t.cipher,
           by |-> IF t.from.scope = "user" THEN {} ELSE {t.from.gen},
           target |-> Target(row.runtime, t.at),
           late |-> ~InForce(row.runtime, t.at)]
  BY <1>1 DEF NewMessage
<1>5. m \in Message
  <2>1. Target(row.runtime, t.at) \in SUBSET Gen
    BY <1>0 DEF Target, Runtime, Gen
  <2>5. (~InForce(row.runtime, t.at)) \in BOOLEAN
    OBVIOUS
  <2>2. t.from \in Connection /\ t.localId \in LocalId \union {NoId} /\ t.cipher \in Cipher
    BY <1>0, TxType
  <2>3. (IF t.from.scope = "user" THEN {} ELSE {t.from.gen}) \in SUBSET Gen
    BY <2>2 DEF Connection
  <2>4. row.seq + 1 \in 1 .. MaxSeq /\ account + 1 \in 1 .. MaxSeq + MaxOther
    BY <1>0, <1>1, <1>3 DEF Numbers
  <2> QED
    BY <1>4, <2>1, <2>2, <2>3, <2>4, <2>5 DEF Message
<1>6. \A n \in messages : t.localId # NoId => n.localId # t.localId
  BY <1>0, <1>1 DEF Creates, Existing, Visible, Stored
<1>7. /\ m.seq = row.seq + 1 /\ m.updateSeq = account + 1
      /\ m.localId = t.localId /\ m.cipher = t.cipher
      /\ m.target = Target(row.runtime, t.at)
      /\ m.late = ~InForce(row.runtime, t.at)
  BY <1>4
<1> HIDE DEF m
<1>8. acked' = acked \/ /\ t.localId # NoId
                        /\ acked' = acked \union
                             {[localId |-> t.localId, cipher |-> t.cipher, message |-> m]}
  BY <1>1 DEF Acknowledge
<1>9. TypeOK'
  <2>1. acked' \subseteq [localId : LocalId, cipher : Cipher, message : Message]
    BY <1>0, <1>5, <1>8, TxType DEF TypeOK
  <2>2. account' \in 0 .. MaxSeq + MaxOther
    BY <1>0, <1>1, <1>3 DEF Numbers
  <2> QED
    BY <1>0, <1>1, <1>2, <1>5, <2>1, <2>2, FinishType DEF TypeOK
<1>10. Numbers'
  <2>1. \A n \in other : n <= account + 1
    BY <1>0 DEF Numbers, TypeOK
  <2> QED
    BY <1>0, <1>1, <1>2, <1>3, <2>1 DEF Numbers
<1>11. Stored'
  <2>1. IsFiniteSet(messages')
    BY <1>0, <1>1, FS_AddElement DEF Stored
  <2>2. \A n \in messages' : n.seq <= row'.seq /\ n.updateSeq <= account'
    BY <1>0, <1>1, <1>2, <1>7 DEF Stored
  <2> QED
    BY <2>1, <2>2 DEF Stored
<1>12. Idempotent'
  <2>1. \A n, o \in messages' : n.localId # NoId /\ n.localId = o.localId => n = o
    BY <1>1, <1>6, <1>7 DEF IInv, Idempotent
  <2>2. \A a \in acked' : /\ a.message \in messages'
                          /\ a.message.localId = a.localId /\ a.message.cipher = a.cipher
    BY <1>1, <1>7, <1>8 DEF IInv, Idempotent
  <2> QED
    BY <2>1, <2>2 DEF Idempotent
<1>13. UpdateSeqOrders'
  <2>1. \A n, o \in messages' : n.seq < o.seq => n.updateSeq < o.updateSeq
    BY <1>0, <1>1, <1>7 DEF IInv, UpdateSeqOrders, Stored
  <2>2. account + 1 \notin other
    BY <1>0 DEF Numbers
  <2>3. \A n \in messages' : n.updateSeq \notin other'
    BY <1>1, <1>7, <2>2 DEF IInv, UpdateSeqOrders
  <2> QED
    BY <2>1, <2>3 DEF UpdateSeqOrders
<1>14. Generations'
  BY <1>0, <1>1, <1>2, FinishType DEF Generations
<1>15. Cursors' /\ CursorLossless'
  <2>1. \A d \in Client : reader[d].cursor <= row.seq
    BY DEF IInv, Cursors
  <2>2. Cursors'
    BY <1>0, <1>1, <1>2, <2>1 DEF Cursors
  <2>3. CursorLossless'
    BY <1>0, <1>1, <1>7, <2>1 DEF IInv, CursorLossless
  <2> QED
    BY <2>2, <2>3
<1>16. FeedFollowsCursor'
  <2> SUFFICES ASSUME NEW d \in Client, NEW n \in messages',
                      client[d].scope = "lease",
                      client[d].gen = row.runtime.gen, row.runtime.mode = "leased",
                      reader[d].caughtUp, n.seq > reader[d].cursor
               PROVE  n.target = {client[d].gen} \/ n.late
    BY <1>1, <1>2 DEF FeedFollowsCursor
  <2>1. CASE n \in messages
    BY <2>1 DEF IInv, FeedFollowsCursor
  <2>2. CASE n = m
    BY <1>7, <2>2 DEF Target
  <2> QED
    BY <1>1, <2>1, <2>2
<1> QED
  BY <1>9, <1>10, <1>11, <1>12, <1>13, <1>14, <1>15, <1>16 DEF IInv
-----------------------------------------------------------------------------
(* The cursor.                                                             *)

\* A page leaves no gap: with a message it holds every one between the
\* cursor and that message.
LEMMA PageClosed ==
    ASSUME TypeOK, Stored, NEW after \in Nat, NEW last \in Page(after),
           NEW m \in messages, m.seq > after, m.seq <= last.seq
    PROVE  m \in Page(after)
<1> DEFINE Before(n) == {o \in messages : o.seq > after /\ o.seq < n.seq}
<1>1. Before(m) \subseteq Before(last)
  BY RowType DEF Page
<1>2. IsFiniteSet(Before(last)) /\ IsFiniteSet(Before(m))
  BY FS_Subset DEF Stored
<1>3. Cardinality(Before(m)) <= Cardinality(Before(last))
  BY <1>1, <1>2, FS_Subset
<1>4. Cardinality(Before(m)) \in Nat /\ Cardinality(Before(last)) \in Nat
  BY <1>2, FS_CardinalityType
<1>5. Cardinality(Before(last)) < PageSize
  BY DEF Page
<1>6. Cardinality(Before(m)) < PageSize
  BY <1>3, <1>4, <1>5, MessagesAssumption
<1> QED
  BY <1>6 DEF Page

\* Reading a page keeps the invariant: nothing is skipped, and who has caught
\* up has every message there is.
LEMMA ReadPageInv ==
    ASSUME IInv, NEW c \in Client, ReadPage(c)
    PROVE  IInv'
<1> USE RowType, MessagesAssumption
<1>0. TypeOK /\ Stored /\ Cursors
  BY DEF IInv
<1> DEFINE from == reader[c].cursor
           page == Page(from)
           last == {m \in page : \A n \in page : n.seq <= m.seq}
           full == \A m \in messages : m.seq > from => m \in page
<1>1. PICK next \in IF page = {} THEN {from} ELSE {m.seq : m \in last} :
        reader' = [reader EXCEPT ![c] =
          [cursor |-> next, caughtUp |-> full, got |-> reader[c].got \union page]]
  BY DEF ReadPage
<1>2. UNCHANGED <<row, account, messages, client, tx, acked, other, now>>
  BY DEF ReadPage
<1>3. page \subseteq messages /\ \A m \in page : m.seq > from
  BY DEF Page
<1>4. \/ page = {} /\ next = from
      \/ \E l \in page : next = l.seq /\ \A n \in page : n.seq <= l.seq
  BY <1>1
<1>5. next \in Nat /\ from <= next /\ next <= row.seq
  BY <1>0, <1>3, <1>4 DEF Cursors, Stored
<1>6. \A m \in messages : m.seq > from /\ m.seq <= next => m \in page
  <2> SUFFICES ASSUME NEW m \in messages, m.seq > from, m.seq <= next
               PROVE  m \in page
    OBVIOUS
  <2>1. PICK l \in page : next = l.seq
    BY <1>0, <1>4
  <2> QED
    BY <1>0, <2>1, PageClosed
<1>7. full => \A m \in messages : m.seq <= next
  BY <1>0, <1>4, <1>5
<1>8. full \in BOOLEAN
  OBVIOUS
<1> HIDE DEF page, full, from
<1> DEFINE new == [cursor |-> next, caughtUp |-> full, got |-> reader[c].got \union page]
<1>9. new \in Reader
  BY <1>0, <1>3, <1>5, <1>8 DEF Reader, TypeOK
<1>10. /\ new.cursor = next /\ new.caughtUp = full /\ new.got = reader[c].got \union page
  OBVIOUS
<1> HIDE DEF new
<1>11. \A d \in Client : reader'[d] = IF d = c THEN new ELSE reader[d]
  BY <1>0, <1>1 DEF TypeOK, new
<1>12. TypeOK'
  BY <1>0, <1>1, <1>2, <1>9 DEF TypeOK, new
<1>13. Numbers' /\ Stored' /\ Idempotent' /\ UpdateSeqOrders' /\ Generations'
  BY <1>2 DEF IInv, Numbers, Stored, Idempotent, UpdateSeqOrders, Generations
<1>14. Cursors'
  BY <1>0, <1>2, <1>5, <1>10, <1>11 DEF Cursors
<1>15. CursorLossless'
  <2> SUFFICES ASSUME NEW d \in Client, NEW m \in messages, m.seq <= reader'[d].cursor
               PROVE  m \in reader'[d].got
    BY <1>2 DEF CursorLossless
  <2>1. CASE d # c
    BY <1>11, <2>1 DEF IInv, CursorLossless
  <2>2. CASE d = c
    <3>1. CASE m.seq <= from
      BY <1>10, <1>11, <2>2, <3>1 DEF IInv, CursorLossless, from
    <3>2. CASE m.seq > from
      BY <1>6, <1>10, <1>11, <2>2, <3>2
    <3> QED
      BY <1>0, <3>1, <3>2 DEF from
  <2> QED
    BY <2>1, <2>2
<1>16. FeedFollowsCursor'
  <2> SUFFICES ASSUME NEW d \in Client, NEW m \in messages,
                      client[d].scope = "lease",
                      client[d].gen = row.runtime.gen, row.runtime.mode = "leased",
                      reader'[d].caughtUp, m.seq > reader'[d].cursor
               PROVE  m.target = {client[d].gen} \/ m.late
    BY <1>2 DEF FeedFollowsCursor
  <2>1. CASE d # c
    BY <1>11, <2>1 DEF IInv, FeedFollowsCursor
  <2>2. CASE d = c
    <3>1. m.seq <= next /\ m.seq > next
      BY <1>7, <1>10, <1>11, <2>2
    <3> QED
      BY <1>0, <1>5, <3>1
  <2> QED
    BY <2>1, <2>2
<1> QED
  BY <1>12, <1>13, <1>14, <1>15, <1>16 DEF IInv
-----------------------------------------------------------------------------
\* Every step keeps the invariant.
LEMMA NextInv == IInv /\ [Next]_vars => IInv'
<1> SUFFICES ASSUME IInv, [Next]_vars PROVE IInv'
  OBVIOUS
<1> USE RowType, MessagesAssumption
<1>0. TypeOK
  BY DEF IInv
<1>1. ASSUME NEW c \in Client, Connect(c) PROVE IInv'
  <2>1. PICK s \in {"user", "legacy", "replay"} : Attach(c, [scope |-> s, gen |-> 0])
    BY <1>1 DEF Connect
  <2>2. [scope |-> s, gen |-> 0] \in Connection
    BY DEF Connection, Gen
  <2> QED
    BY <1>1, <2>1, <2>2, AttachInv DEF Connect
<1>2. ASSUME NEW c \in Client, Claim(c) PROVE IInv'
  <2>1. PICK s \in {"lease", "replay"}, m \in {"leased", "replaying"} : ClaimLease(c, s, m)
    BY <1>2 DEF Claim
  <2> DEFINE k == [scope |-> s, gen |-> row.runtime.gen + 1]
  <2>2. k \in Connection
    BY <1>0, <2>1 DEF ClaimLease, Connection, Gen
  <2>3. k.scope \in {"lease", "replay"} /\ k.gen = row.runtime.gen + 1
    OBVIOUS
  <2>4. /\ Attach(c, k)
        /\ row.runtime.gen < MaxGen
        /\ row' = [row EXCEPT !.runtime = [mode |-> m, gen |-> row.runtime.gen + 1,
                                           until |-> now + LeaseDuration]]
    BY <2>1 DEF ClaimLease
  <2> HIDE DEF k
  <2> QED
    BY <2>2, <2>3, <2>4, AttachInv
<1>3. ASSUME NEW c \in Client, Disconnect(c) PROVE IInv'
  <2>1. UNCHANGED <<row, account, messages, tx, reader, acked, other, now>>
    BY <1>3 DEF Disconnect
  <2>2. [scope |-> "none", gen |-> 0] \in Connection
    BY DEF Connection, Gen
  <2>3. /\ client' \in [Client -> Connection]
        /\ \A d \in Client :
             client'[d] = client[d] \/ client'[d] = [scope |-> "none", gen |-> 0]
    BY <1>0, <1>3, <2>2 DEF Disconnect, TypeOK
  <2>4. \A d \in Client : \A t \in tx'[d] : t.from.scope = "legacy" => t.from.gen = 0
    BY <2>1 DEF IInv, Generations
  <2> QED
    BY <1>0, <2>1, <2>3, <2>4, ClosingInv DEF TypeOK
<1>4. ASSUME Heartbeat \/ EndLease PROVE IInv'
  <2>1. PICK m \in {"legacy", "leased", "ended"}, u \in 0 .. MaxTime + LeaseDuration :
          /\ row' = [row EXCEPT !.runtime = [mode |-> m, gen |-> row.runtime.gen, until |-> u]]
          /\ m = "ended" \/ m = row.runtime.mode
    <3>1. CASE Heartbeat
      <4> DEFINE m == row.runtime.mode
                 u == now + LeaseDuration
      <4>1. m \in {"legacy", "leased"} /\ u \in 0 .. MaxTime + LeaseDuration
        BY <1>0, <3>1 DEF Heartbeat
      <4>2. [row.runtime EXCEPT !.until = u] = [mode |-> m, gen |-> row.runtime.gen, until |-> u]
        BY <1>0 DEF Runtime
      <4>3. row' = [row EXCEPT !.runtime = [mode |-> m, gen |-> row.runtime.gen, until |-> u]]
        BY <3>1, <4>2 DEF Heartbeat
      <4> QED
        BY <4>1, <4>3
    <3>2. CASE EndLease
      <4>1. now \in 0 .. MaxTime + LeaseDuration
        BY <1>0
      <4> QED
        BY <3>2, <4>1 DEF EndLease
    <3> QED
      BY <1>4, <3>1, <3>2
  <2>2. UNCHANGED <<account, messages, client, tx, reader, acked, other, now>>
    BY <1>4 DEF Heartbeat, EndLease
  <2>4. /\ row' \in SessionRow /\ row'.seq = row.seq
        /\ row'.runtime.gen = row.runtime.gen /\ row'.runtime.mode = m
    BY <1>0, <2>1 DEF TypeOK, SessionRow, Runtime, Gen
  <2>5. \A d \in Client : \A t \in tx'[d] : t.from.scope = "legacy" => t.from.gen = 0
    BY <2>2 DEF IInv, Generations
  <2> QED
    BY <1>0, <2>1, <2>2, <2>4, <2>5, ClosingInv DEF TypeOK
<1>6. ASSUME Tick PROVE IInv'
  <2>1. /\ now' \in 0 .. MaxTime
        /\ UNCHANGED <<row, account, messages, client, tx, reader, acked, other>>
    BY <1>0, <1>6 DEF Tick
  <2>2. \A d \in Client : \A t \in tx'[d] : t.from.scope = "legacy" => t.from.gen = 0
    BY <2>1 DEF IInv, Generations
  <2> QED
    BY <1>0, <2>1, <2>2, ClosingInv DEF TypeOK
<1>7. ASSUME NEW c \in Client, NEW t \in tx[c], Fail(c, t) PROVE IInv'
  <2>1. /\ Finish(c)
        /\ UNCHANGED <<row, account, messages, client, reader, acked, other, now>>
    BY <1>7 DEF Fail
  <2> QED
    BY <1>0, <2>1, FinishType, ClosingInv DEF TypeOK
<1>5. CASE UNCHANGED vars
  <2>1. UNCHANGED <<row, account, messages, client, tx, reader, acked, other, now>>
    BY <1>5 DEF vars
  <2>2. \A d \in Client : \A t \in tx'[d] : t.from.scope = "legacy" => t.from.gen = 0
    BY <2>1 DEF IInv, Generations
  <2> QED
    BY <1>0, <2>1, <2>2, ClosingInv DEF TypeOK
<1> QED
  BY <1>1, <1>2, <1>3, <1>4, <1>5, <1>6, <1>7, OtherUpdateInv, BeginInv, PersistInv,
     ReturnDuplicateInv, RefuseInv, RetryInv, ReadPageInv DEF Next

\* The inductive invariant holds in every reachable state.
THEOREM Invariance == Spec => []IInv
BY InitInv, NextInv, PTL DEF Spec
-----------------------------------------------------------------------------
(***************************************************************************)
(* Idempotence for every number of producers, sockets, retries and texts:  *)
(* a local ID is stored once, and acknowledged only with the row and the   *)
(* ciphertext that are stored (persistSessionMessageInTx).                 *)
(***************************************************************************)
THEOREM StoredOnceHolds == Spec => []StoredOnce
<1>1. IInv => StoredOnce
  BY DEF IInv, Idempotent, StoredOnce
<1> QED
  BY <1>1, Invariance, PTL

(***************************************************************************)
(* The cursor of listSessionMessagesAfterSeq loses nothing for any page    *)
(* size, and what is committed after a runtime has caught up is announced  *)
(* to its generation, except for a message whose transaction began after   *)
(* the lease ran out.                                                      *)
(***************************************************************************)
THEOREM CursorMeetsFeedHolds == Spec => []CursorMeetsFeed
<1>1. IInv => CursorMeetsFeed
  BY DEF IInv, CursorMeetsFeed
<1> QED
  BY <1>1, Invariance, PTL

(***************************************************************************)
(* UpdatePayload.seq orders the messages of a session and is shared with   *)
(* no other update of the account.                                         *)
(***************************************************************************)
THEOREM UpdateSeqHolds == Spec => []UpdateSeqOrders
<1>1. IInv => UpdateSeqOrders
  BY DEF IInv
<1> QED
  BY <1>1, Invariance, PTL

(***************************************************************************)
(* The fence of the transaction: a runtime's output is committed only      *)
(* while the row names its generation, and less than a transaction's time  *)
(* limit after its lease ran out, for every duration of the two.           *)
(***************************************************************************)
THEOREM OutputFencedHolds == Spec => OutputFenced
<1> DEFINE Fenced ==
      \A m \in messages' \ messages : m.by # {} =>
         /\ m.by = {row.runtime.gen}
         /\ row.runtime.mode \in {"leased", "replaying", "legacy"}
         /\ now < row.runtime.until + TxTimeout
<1>1. IInv /\ [Next]_vars => [Fenced]_vars
  <2> SUFFICES ASSUME IInv, Next, NEW m \in messages' \ messages, m.by # {}
               PROVE  /\ m.by = {row.runtime.gen}
                      /\ row.runtime.mode \in {"leased", "replaying", "legacy"}
                      /\ now < row.runtime.until + TxTimeout
    OBVIOUS
  <2>0. PICK c \in Client : \E t \in tx[c] : Persist(c, t)
    <3>1. messages' # messages
      OBVIOUS
    <3>2. \A c \in Client : \A t \in tx[c] :
            ~ReturnDuplicate(c, t) /\ ~Refuse(c, t) /\ ~Retry(c, t) /\ ~Fail(c, t)
      BY <3>1 DEF ReturnDuplicate, Refuse, Retry, Fail
    <3>3. \A c \in Client :
            ~Connect(c) /\ ~Claim(c) /\ ~Disconnect(c) /\ ~ReadPage(c) /\ ~Begin(c)
      BY <3>1 DEF Connect, Claim, ClaimLease, Attach, Disconnect, ReadPage, Begin
    <3>4. ~Heartbeat /\ ~EndLease /\ ~OtherUpdate /\ ~Tick
      BY <3>1 DEF Heartbeat, EndLease, OtherUpdate, Tick
    <3> QED
      BY <3>2, <3>3, <3>4 DEF Next
  <2>1. PICK t \in tx[c] : Persist(c, t)
    BY <2>0
  <2>2. t.seen = row /\ Creates(t) /\ InTime(t) /\ m = NewMessage(t)
    BY <2>1 DEF Persist, RowConflict
  <2>3. t.from.scope # "user" /\ m.by = {t.from.gen}
    BY <2>2 DEF NewMessage
  <2>4. Authorized(t.from, row.runtime, t.at)
    BY <2>2 DEF Creates
  <2>5. m.by = {row.runtime.gen} /\ row.runtime.mode \in {"leased", "replaying", "legacy"}
    BY <2>3, <2>4 DEF IInv, Generations, Authorized
  <2>6. row.runtime.until > t.at
    BY <2>3, <2>4 DEF Authorized, InForce
  <2>7. now < t.at + TxTimeout
    BY <2>2 DEF InTime
  <2>8. t.at \in Nat /\ now \in Nat /\ row.runtime.until \in Nat /\ TxTimeout \in Nat
    BY MessagesAssumption, RowType, TxType DEF IInv, Transaction
  <2> QED
    BY <2>5, <2>6, <2>7, <2>8
<1> QED
  BY <1>1, Invariance, PTL DEF Spec, OutputFenced
=============================================================================
