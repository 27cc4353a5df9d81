--------------------------- MODULE AccountsProofs ---------------------------
(***************************************************************************)
(* Proofs about Accounts, for any accounts, keys, values, requests and     *)
(* retries: transactions take effect one after the other, the rows of a    *)
(* pair agree, nobody is told twice in 24 hours, devices reconcile with    *)
(* the store, and paging through the feed misses nothing.                  *)
(***************************************************************************)
EXTENDS Accounts, SequenceTheorems, FiniteSetTheorems, WellFoundedInduction, TLAPS

-----------------------------------------------------------------------------
(* The inductive invariant, in parts.                                      *)

\* What TypeOK says of everything but the reader, which is typed in Pages.
Types ==
    /\ db \in Rows
    /\ request \in [Request -> {Idle} \union Attempt]
    /\ owed \subseteq Owed
    /\ device \in [on : BOOLEAN, view : [Key -> Entry]]
    /\ unheard \subseteq Key
    /\ noticed \in [User -> [User -> Nat]]
    /\ budget \in Bounds

\* A friend request has two sides.  A snapshot is of the past, and as long as the
\* counter of a feed is the same, so is the feed.
Snapshots ==
    \A r \in Request : request[r] # Idle =>
        /\ request[r].op.op # "mutate" => request[r].op.from # request[r].op.to
        /\ \A u \in User :
             /\ request[r].seen.feedSeq[u] <= db.feedSeq[u]
             /\ request[r].seen.feedSeq[u] = db.feedSeq[u] =>
                  request[r].seen.feed[u] = db.feed[u]

\* Feeds are finite and numbered by their counter.
Feeds ==
    \A u \in User :
        IsFiniteSet(db.feed[u]) /\ \A i \in db.feed[u] : i.counter <= db.feedSeq[u]

\* Only a row that was never written has version -1, and no row holds the empty string.
Versions ==
    \A k \in Key :
        /\ db.kv[k].version >= -1 /\ (db.kv[k].version = -1 => db.kv[k] = NoEntry)
        /\ db.kv[k].value # Empty

Pairs ==
    \A u, v \in User :
        u # v => {db.rel[u][v].status, db.rel[v][u].status} \in AgreeingPairs

\* Only a recent notification was counted.
Cooldown ==
    \A u, v \in User :
        noticed[u][v] <= IF db.rel[u][v].notified = "recent" THEN 1 ELSE 0

\* The last change of k.
IsLast(changes, k, i) ==
    /\ i \in DOMAIN changes /\ changes[i].key = k
    /\ \A j \in DOMAIN changes : changes[j].key = k => j <= i

\* An entry that the store has or had.
Happened(k, e) ==
    /\ e.version <= db.kv[k].version
    /\ e.version = db.kv[k].version => Shows(e, db.kv[k])

\* A batch names one version per key, and its last change of a key happened.
TrueChanges(changes) ==
    /\ \A i, j \in DOMAIN changes :
         changes[i].key = changes[j].key => changes[i].entry.version = changes[j].entry.version
    /\ \A k \in Key : \A i \in DOMAIN changes :
         IsLast(changes, k, i) => Happened(k, changes[i].entry)

\* A feed item stays, or a newer one takes its place.
TrueItem(u, item) ==
    \E i \in db.feed[u] : i.key = item.key /\ i.counter >= item.counter

Announced ==
    \A o \in owed :
        /\ "changes" \in DOMAIN o.call => TrueChanges(o.call.changes)
        /\ "item" \in DOMAIN o.call => TrueItem(o.call.user, o.call.item)

\* A notification is owed that will bring k up to date.
Brings(o, k) ==
    /\ "changes" \in DOMAIN o.call
    /\ \E i \in DOMAIN o.call.changes :
         IsLast(o.call.changes, k, i) /\ Shows(o.call.changes[i].entry, db.kv[k])

Follows ==
    \A k \in Key :
        /\ Happened(k, device.view[k])
        /\ device.on /\ k \notin unheard =>
             Shows(device.view[k], db.kv[k]) \/ \E o \in owed : Brings(o, k)

\* What lies between the cursor and the top of the first page has been seen.
Pages ==
    /\ reader \in [at : {"new", "paging", "end"}, top : Nat, cursor : Nat, got : SUBSET Item]
    /\ reader.at # "new" => reader.top <= db.feedSeq[Owner] + 1
    /\ reader.at = "paging" =>
         \A i \in db.feed[Owner] :
             i.counter < reader.top /\ i.counter >= reader.cursor => i \in reader.got
    /\ reader.at = "end" =>
         \A i \in db.feed[Owner] : i.counter < reader.top => i \in reader.got

IInv ==
    /\ Types /\ Snapshots /\ Feeds /\ Versions /\ Pairs /\ Cooldown /\ Announced
    /\ Follows /\ Pages

-----------------------------------------------------------------------------
(* Minima and maxima.                                                      *)

\* Every nonempty set of numbers has a least one.
LEMMA MinExists ==
    ASSUME NEW S \in SUBSET Nat, S # {}
    PROVE  \E x \in S : \A y \in S : x <= y
<1>1. PICK T : T = {0 .. n : n \in S}
  OBVIOUS
<1>2. ASSUME NEW n \in S
      PROVE  0 .. n \in FiniteSubsetsOf(Nat)
  <2>1. IsFiniteSet(0 .. n)
    BY FS_Interval
  <2>2. 0 .. n \in SUBSET Nat
    OBVIOUS
  <2>. QED
    BY <2>1, <2>2, Zenon DEF FiniteSubsetsOf
<1>3. T \subseteq FiniteSubsetsOf(Nat) /\ T # {}
  BY <1>1, <1>2
<1>4. PICK m \in T : \A o \in T : <<o, m>> \notin StrictSubsetOrdering(Nat)
  BY <1>3, FS_StrictSubsetOrderingWellFounded, WFMin
<1>5. PICK x \in S : m = 0 .. x
  BY <1>1
<1>6. ASSUME NEW y \in S, y < x
      PROVE  FALSE
  <2>1. 0 .. y \in T /\ 0 .. y \in SUBSET Nat /\ m \in SUBSET Nat
    BY <1>1, <1>5
  <2>2. 0 .. y \subseteq m /\ 0 .. y # m
    <3>1. x \in m /\ x \notin 0 .. y
      BY <1>5, <1>6
    <3>. QED
      BY <3>1, <1>5, <1>6
  <2>3. <<0 .. y, m>> \in StrictSubsetOrdering(Nat)
    BY <2>1, <2>2 DEF StrictSubsetOrdering
  <2>. QED
    BY <1>4, <2>1, <2>3
<1>. QED
  BY <1>6

\* ... and, if it is bounded, a greatest one.
LEMMA MaxExists ==
    ASSUME NEW S \in SUBSET Nat, S # {}, NEW n \in Nat, \A x \in S : x <= n
    PROVE  \E x \in S : \A y \in S : y <= x
<1>1. PICK R : R = {n - x : x \in S}
  OBVIOUS
<1>2. \A x \in S : n - x \in Nat
  OBVIOUS
<1>3. R \in SUBSET Nat /\ R # {}
  BY <1>1, <1>2
<1>4. PICK z \in R : \A y \in R : z <= y
  BY <1>3, MinExists
<1>5. PICK x \in S : z = n - x
  BY <1>1
<1>6. \A y \in S : n - x <= n - y
  BY <1>1, <1>4, <1>5
<1>. QED
  BY <1>6

-----------------------------------------------------------------------------
(* The key-value store: what a batch of mutations does.                    *)

\* The last mutation or change of a key.
LEMMA LastExists ==
    ASSUME NEW T, NEW s \in Seq(T), NEW P \in SUBSET DOMAIN s, P # {}
    PROVE  \E i \in P : \A j \in P : j <= i
<1>1. DOMAIN s = 1 .. Len(s) /\ Len(s) \in Nat
  BY LenProperties
<1>2. P \in SUBSET Nat /\ \A j \in P : j <= Len(s)
  BY <1>1
<1>. QED
  BY <1>1, <1>2, MaxExists

\* A mutation leaves an entry one version further.
LEMMA AfterFields ==
    ASSUME NEW m \in Mutation
    PROVE  /\ m.key \in Key /\ m.version \in Int
           /\ After(m) \in Entry /\ After(m).version = m.version + 1
           /\ After(m).value # Empty
BY KvAssumption DEF Mutation, After, Stored, Entry

\* ... and what is announced of it shows that entry.
LEMMA NewsFields ==
    ASSUME NEW m \in Mutation
    PROVE  /\ News(m) \in Entry /\ News(m).version = m.version + 1
           /\ Shows(News(m), After(m))
BY DEF Mutation, News, After, Shows, Entry

\* Mutate sets a key to what its last mutation says, and leaves the others alone.
LEMMA MutateEffect ==
    ASSUME NEW store \in [Key -> Entry], NEW batch \in Seq(Mutation), NEW k \in Key,
           NEW after, after = Mutate(store, batch)
    PROVE  /\ (\A i \in DOMAIN batch : batch[i].key # k) => after[k] = store[k]
           /\ \A i \in DOMAIN batch :
                /\ batch[i].key = k
                /\ \A j \in DOMAIN batch : batch[j].key = k => j <= i
                => after[k] = After(batch[i])
           /\ (\E i \in DOMAIN batch : batch[i].key = k) =>
                \E i \in DOMAIN batch :
                    /\ batch[i].key = k
                    /\ \A j \in DOMAIN batch : batch[j].key = k => j <= i
                    /\ after[k] = After(batch[i])
<1>1. PICK own : own = {i \in DOMAIN batch : batch[i].key = k}
  OBVIOUS
<1>2. after[k] = IF own = {} THEN store[k]
                 ELSE After(batch[CHOOSE i \in own : \A j \in own : j <= i])
  BY <1>1 DEF Mutate
<1>3. own = {} <=> \A i \in DOMAIN batch : batch[i].key # k
  BY <1>1
<1>4. CASE own = {}
  BY <1>2, <1>3, <1>4
<1>5. CASE own # {}
  <2>1. PICK i \in own : i = CHOOSE x \in own : \A j \in own : j <= x
    <3>1. \E x \in own : \A j \in own : j <= x
      BY <1>1, <1>5, LastExists
    <3>. QED
      BY <3>1
  <2>2. \A j \in own : j <= i
    <3>1. \E x \in own : \A j \in own : j <= x
      BY <1>1, <1>5, LastExists
    <3>. QED
      BY <2>1, <3>1
  <2>3. after[k] = After(batch[i])
    BY <1>2, <1>5, <2>1
  <2>4. \A x \in own : (\A j \in own : j <= x) => x = i
    <3>1. own \subseteq Nat
      <4>1. DOMAIN batch = 1 .. Len(batch) /\ Len(batch) \in Nat
        BY LenProperties
      <4>. QED
        BY <1>1, <4>1
    <3>. QED
      BY <2>2, <3>1
  <2>. QED
    BY <1>1, <1>3, <1>5, <2>2, <2>3, <2>4
<1>. QED
  BY <1>4, <1>5

\* Its result is a store.
LEMMA MutateType ==
    ASSUME NEW store \in [Key -> Entry], NEW batch \in Seq(Mutation)
    PROVE  Mutate(store, batch) \in [Key -> Entry]
<1>1. PICK after : after = Mutate(store, batch)
  OBVIOUS
<1>2. ASSUME NEW k \in Key
      PROVE  after[k] \in Entry
  <2>1. CASE \A i \in DOMAIN batch : batch[i].key # k
    <3>1. after[k] = store[k]
      BY <1>1, <2>1, MutateEffect
    <3>. QED
      BY <3>1
  <2>2. CASE \E i \in DOMAIN batch : batch[i].key = k
    <3>1. PICK i \in DOMAIN batch : after[k] = After(batch[i])
      BY <1>1, <2>2, MutateEffect
    <3>2. batch[i] \in Mutation
      BY ElementOfSeq, LenProperties
    <3>. QED
      BY <3>1, <3>2, AfterFields
  <2>. QED
    BY <2>1, <2>2
<1>3. after = [k \in Key |-> after[k]]
  BY <1>1 DEF Mutate
<1>. QED
  BY <1>1, <1>2, <1>3, Zenon

\* The announced changes are the mutations one by one.
LEMMA ChangesFields ==
    ASSUME NEW batch \in Seq(Mutation), NEW c, c = Changes(batch)
    PROVE  /\ c \in Seq([key : Key, entry : Entry]) /\ DOMAIN c = DOMAIN batch
           /\ \A i \in DOMAIN batch : c[i].key = batch[i].key /\ c[i].entry = News(batch[i])
<1>1. DOMAIN batch = 1 .. Len(batch) /\ Len(batch) \in Nat
  BY LenProperties
<1>2. c = [i \in 1 .. Len(batch) |-> [key |-> batch[i].key, entry |-> News(batch[i])]]
  BY <1>1 DEF Changes
<1>3. ASSUME NEW i \in 1 .. Len(batch)
      PROVE  /\ [key |-> batch[i].key, entry |-> News(batch[i])] \in [key : Key, entry : Entry]
             /\ c[i].key = batch[i].key /\ c[i].entry = News(batch[i])
  <2>1. batch[i] \in Mutation
    BY ElementOfSeq
  <2>2. batch[i].key \in Key /\ News(batch[i]) \in Entry
    BY <2>1, AfterFields, NewsFields
  <2>. QED
    BY <1>2, <2>2
<1>4. c \in Seq([key : Key, entry : Entry])
  BY <1>1, <1>2, <1>3, IsASeq
<1>. QED
  BY <1>1, <1>2, <1>3, <1>4

-----------------------------------------------------------------------------
(* Friend requests: what the bodies do to a pair of rows and the feeds.    *)

\* The rows in the hands of a body, with the notifications put aside.
Draft ==
    [calls : Seq(Call),
     kv : [Key -> Entry],
     rel : [User -> [User -> Row]],
     feed : [User -> SUBSET Item],
     feedSeq : [User -> Nat],
     seq : [User -> Nat]]

\* The fields of a draft.
LEMMA DraftFields ==
    ASSUME NEW d \in Draft
    PROVE  /\ d.calls \in Seq(Call) /\ d.kv \in [Key -> Entry]
           /\ d.rel \in [User -> [User -> Row]] /\ d.feed \in [User -> SUBSET Item]
           /\ d.feedSeq \in [User -> Nat] /\ d.seq \in [User -> Nat]
           /\ \A u, v \in User : d.rel[u][v] \in Row
           /\ \A u \in User : d.feed[u] \in SUBSET Item /\ d.feedSeq[u] \in Nat
BY DEF Draft

\* One row is replaced.
LEMMA ReplaceRow ==
    ASSUME NEW R \in [User -> [User -> Row]], NEW x \in User, NEW y \in User, NEW w \in Row,
           NEW Q, Q = [R EXCEPT ![x] = [R[x] EXCEPT ![y] = w]]
    PROVE  /\ Q \in [User -> [User -> Row]] /\ Q[x][y] = w
           /\ \A a, b \in User : a # x \/ b # y => Q[a][b] = R[a][b]
<1>1. PICK f : f = [R[x] EXCEPT ![y] = w]
  OBVIOUS
<1>2. f \in [User -> Row] /\ f[y] = w /\ \A b \in User : b # y => f[b] = R[x][b]
  BY <1>1
<1>3. Q = [R EXCEPT ![x] = f]
  BY <1>1
<1>4. Q \in [User -> [User -> Row]] /\ Q[x] = f /\ \A a \in User : a # x => Q[a] = R[a]
  BY <1>2, <1>3
<1>. QED
  BY <1>2, <1>4

IsSet(d, q, x, y, st) ==
    /\ q \in Draft
    /\ q.calls = d.calls /\ q.kv = d.kv /\ q.feed = d.feed
    /\ q.feedSeq = d.feedSeq /\ q.seq = d.seq
    /\ q.rel[x][y].status = st /\ q.rel[x][y].notified = d.rel[x][y].notified
    /\ \A a, b \in User : a # x \/ b # y => q.rel[a][b] = d.rel[a][b]

\* relationshipSet changes the status of one row.
LEMMA RelationshipSetFields ==
    ASSUME NEW d \in Draft, NEW x \in User, NEW y \in User, NEW st \in Relationship
    PROVE  IsSet(d, RelationshipSet(d, x, y, st), x, y, st)
<1>. PICK q : q = RelationshipSet(d, x, y, st)
  OBVIOUS
<1>1. PICK w : w = [d.rel[x][y] EXCEPT !.status = st]
  OBVIOUS
<1>2. w \in Row /\ w.status = st /\ w.notified = d.rel[x][y].notified
  <2>1. d.rel[x][y] \in Row
    BY DraftFields
  <2>. QED
    BY <1>1, <2>1 DEF Row
<1>3. PICK Q : Q = [d.rel EXCEPT ![x] = [d.rel[x] EXCEPT ![y] = w]]
  OBVIOUS
<1>4. /\ Q \in [User -> [User -> Row]] /\ Q[x][y] = w
      /\ \A a, b \in User : a # x \/ b # y => Q[a][b] = d.rel[a][b]
  BY <1>2, <1>3, DraftFields, ReplaceRow
<1>5. q = [d EXCEPT !.rel = Q]
  BY <1>1, <1>3, Zenon DEF RelationshipSet
<1>6. q \in Draft /\ q.rel = Q /\ q.calls = d.calls /\ q.kv = d.kv /\ q.feed = d.feed
      /\ q.feedSeq = d.feedSeq /\ q.seq = d.seq
  BY <1>4, <1>5 DEF Draft
<1>7. IsSet(d, q, x, y, st)
  BY <1>2, <1>4, <1>6 DEF IsSet
<1>. QED
  BY <1>7

\* What an account's feed is after a post.
Posted(items, n, key) ==
    {i \in items : i.key # key} \union {[counter |-> n + 1, key |-> key]}

PostCall(u, n, key) == [user |-> u, item |-> [counter |-> n + 1, key |-> key]]

IsPost(d, q, u, key) ==
    /\ q \in Draft
    /\ q.kv = d.kv /\ q.rel = d.rel /\ q.seq = d.seq
    /\ q.calls = Append(d.calls, PostCall(u, d.feedSeq[u], key))
    /\ q.feedSeq[u] = d.feedSeq[u] + 1
    /\ q.feed[u] = Posted(d.feed[u], d.feedSeq[u], key)
    /\ \A x \in User : x # u => q.feedSeq[x] = d.feedSeq[x] /\ q.feed[x] = d.feed[x]

\* feedPost.
LEMMA FeedPostFields ==
    ASSUME NEW d \in Draft, NEW u \in User, NEW key \in RepeatKey
    PROVE  IsPost(d, FeedPost(d, u, key), u, key)
<1>. PICK q : q = FeedPost(d, u, key)
  OBVIOUS
<1>1. PICK item : item = [counter |-> d.feedSeq[u] + 1, key |-> key]
  OBVIOUS
<1>2. item \in Item /\ item.counter = d.feedSeq[u] + 1
  BY <1>1, DraftFields DEF Item
<1>3. PICK S : S = [d.feedSeq EXCEPT ![u] = item.counter]
  OBVIOUS
<1>4. PICK F : F = [d.feed EXCEPT ![u] = {i \in d.feed[u] : i.key # key} \union {item}]
  OBVIOUS
<1>5. PICK C : C = Append(d.calls, [user |-> u, item |-> item])
  OBVIOUS
<1>6. q = [d EXCEPT !.feedSeq = S, !.feed = F, !.calls = C]
  BY <1>1, <1>3, <1>4, <1>5, Zenon DEF FeedPost
<1>7. S \in [User -> Nat] /\ S[u] = d.feedSeq[u] + 1 /\ \A x \in User : x # u => S[x] = d.feedSeq[x]
  BY <1>2, <1>3, DraftFields DEF Item
<1>8. /\ F \in [User -> SUBSET Item] /\ F[u] = Posted(d.feed[u], d.feedSeq[u], key)
      /\ \A x \in User : x # u => F[x] = d.feed[x]
  <2>1. {i \in d.feed[u] : i.key # key} \union {item} = Posted(d.feed[u], d.feedSeq[u], key)
    BY <1>1 DEF Posted
  <2>2. {i \in d.feed[u] : i.key # key} \union {item} \in SUBSET Item
    BY <1>2, DraftFields
  <2>3. d.feed \in [User -> SUBSET Item]
    BY DraftFields
  <2>. QED
    BY <1>4, <2>1, <2>2, <2>3
<1>9. C \in Seq(Call) /\ C = Append(d.calls, PostCall(u, d.feedSeq[u], key))
  <2>1. [user |-> u, item |-> item] \in Call
    BY <1>2 DEF Call
  <2>2. C \in Seq(Call)
    BY <1>5, <2>1, DraftFields, AppendProperties
  <2>. QED
    BY <1>1, <1>5, <2>2 DEF PostCall
<1>10. /\ q \in Draft /\ q.kv = d.kv /\ q.rel = d.rel /\ q.seq = d.seq
       /\ q.calls = C /\ q.feed = F /\ q.feedSeq = S
  BY <1>6, <1>7, <1>8, <1>9 DEF Draft
<1>11. IsPost(d, q, u, key)
  BY <1>7, <1>8, <1>9, <1>10 DEF IsPost
<1>. QED
  BY <1>11

IsNotice(d, q, u, v, key) ==
    /\ q \in Draft /\ q.kv = d.kv /\ q.seq = d.seq
    /\ q.rel[u][v].status = d.rel[u][v].status /\ q.rel[u][v].notified = "recent"
    /\ \A a, b \in User : a # u \/ b # v => q.rel[a][b] = d.rel[a][b]
    /\ q.calls = Append(d.calls, PostCall(u, d.feedSeq[u], key))
    /\ q.feedSeq[u] = d.feedSeq[u] + 1
    /\ q.feed[u] = Posted(d.feed[u], d.feedSeq[u], key)
    /\ \A x \in User : x # u => q.feedSeq[x] = d.feedSeq[x] /\ q.feed[x] = d.feed[x]

\* A notification, if it is due.
LEMMA NotifyFields ==
    ASSUME NEW d \in Draft, NEW u \in User, NEW v \in User,
           NEW kind \in {"friend_request", "friend_accepted"}
    PROVE  /\ ShouldSendNotification(d.rel[u][v]) =>
                IsNotice(d, Notify(d, u, v, kind), u, v, <<kind, v>>)
           /\ ~ShouldSendNotification(d.rel[u][v]) => Notify(d, u, v, kind) = d
<1>1. ~ShouldSendNotification(d.rel[u][v]) => Notify(d, u, v, kind) = d
  BY DEF Notify
<1>2. ASSUME ShouldSendNotification(d.rel[u][v])
      PROVE  IsNotice(d, Notify(d, u, v, kind), u, v, <<kind, v>>)
  <2>1. PICK w : w = [d.rel[u][v] EXCEPT !.notified = "recent"]
    OBVIOUS
  <2>2. w \in Row /\ w.status = d.rel[u][v].status /\ w.notified = "recent"
    <3>1. d.rel[u][v] \in Row
      BY DraftFields
    <3>. QED
      BY <2>1, <3>1 DEF Row, Notified
  <2>3. PICK Q : Q = [d.rel EXCEPT ![u] = [d.rel[u] EXCEPT ![v] = w]]
    OBVIOUS
  <2>4. /\ Q \in [User -> [User -> Row]] /\ Q[u][v] = w
        /\ \A a, b \in User : a # u \/ b # v => Q[a][b] = d.rel[a][b]
    BY <2>2, <2>3, DraftFields, ReplaceRow
  <2>5. PICK p : p = [d EXCEPT !.rel = Q]
    OBVIOUS
  <2>6. /\ p \in Draft /\ p.rel = Q /\ p.calls = d.calls /\ p.kv = d.kv /\ p.feed = d.feed
        /\ p.feedSeq = d.feedSeq /\ p.seq = d.seq
    BY <2>4, <2>5 DEF Draft
  <2>7. p = [d EXCEPT !.rel[u][v].notified = "recent"]
    BY <2>1, <2>3, <2>5, Zenon
  <2>8. PICK key \in RepeatKey : key = <<kind, v>>
    BY DEF RepeatKey
  <2>9. PICK q : q = Notify(d, u, v, kind)
    OBVIOUS
  <2>10. q = FeedPost(p, u, key)
    BY <1>2, <2>7, <2>8, <2>9, Zenon DEF Notify
  <2>11. IsPost(p, q, u, key)
    BY <2>6, <2>10, FeedPostFields
  <2>12. IsNotice(d, q, u, v, key)
    BY <2>2, <2>4, <2>6, <2>11 DEF IsPost, IsNotice
  <2>. QED
    BY <2>8, <2>9, <2>12
<1>. QED
  BY <1>1, <1>2

\* The statuses that a request by the first side leads to, and who is told.
MyStatus(op, mine, theirs) ==
    IF op = "add"
    THEN IF theirs = "requested" THEN "friend"
         ELSE IF mine \in {"none", "rejected"} THEN "requested" ELSE mine
    ELSE IF mine = "requested" THEN "rejected"
         ELSE IF mine = "friend" THEN "pending"
         ELSE IF mine = "pending" THEN "none" ELSE mine

TheirStatus(op, mine, theirs) ==
    IF op = "add"
    THEN IF theirs = "requested" THEN "friend"
         ELSE IF mine \in {"none", "rejected"} /\ theirs = "none" THEN "pending" ELSE theirs
    ELSE IF mine = "friend" THEN "requested"
         ELSE IF mine = "pending" /\ theirs # "rejected" THEN "none" ELSE theirs

TellsMe(op, mine, theirs) ==
    op = "add" /\ theirs.status = "requested" /\ mine.notified # "recent"

TellsThem(op, mine, theirs) ==
    /\ op = "add" /\ theirs.notified # "recent"
    /\ \/ theirs.status = "requested"
       \/ mine.status \in {"none", "rejected"} /\ theirs.status # "rejected"

Told(op, u, v, mine, theirs) ==
    {x \in {u, v} : \/ x = u /\ TellsMe(op, mine, theirs)
                    \/ x = v /\ TellsThem(op, mine, theirs)}

PostKey(u, v, theirs, x) ==
    <<IF theirs.status = "requested" THEN "friend_accepted" ELSE "friend_request",
      IF x = u THEN v ELSE u>>

\* The calls are those of told users, one each.
Announces(calls, told, feedSeq, u, v, theirs) ==
    /\ \A i \in DOMAIN calls : \E x \in told :
         calls[i] = PostCall(x, feedSeq[x], PostKey(u, v, theirs, x))
    /\ \A i, j \in DOMAIN calls : calls[i].user = calls[j].user => i = j

\* A request of u about v has led from d to q so far: the statuses of the two rows,
\* and who has been told.
Reached(d, q, u, v, mine, theirs, told) ==
    /\ q \in Draft /\ q.kv = d.kv /\ q.seq = d.seq
    /\ q.rel[u][v].status = mine /\ q.rel[v][u].status = theirs
    /\ q.rel[u][v].notified = IF u \in told THEN "recent" ELSE d.rel[u][v].notified
    /\ q.rel[v][u].notified = IF v \in told THEN "recent" ELSE d.rel[v][u].notified
    /\ \A a, b \in User :
         (a # u \/ b # v) /\ (a # v \/ b # u) => q.rel[a][b] = d.rel[a][b]
    /\ \A x \in User :
         /\ x \in told =>
              /\ q.feedSeq[x] = d.feedSeq[x] + 1
              /\ q.feed[x] = Posted(d.feed[x], d.feedSeq[x], PostKey(u, v, d.rel[v][u], x))
         /\ x \notin told => q.feedSeq[x] = d.feedSeq[x] /\ q.feed[x] = d.feed[x]
    /\ Announces(q.calls, told, d.feedSeq, u, v, d.rel[v][u])

\* The whole effect.
Effect(op, d, q, u, v) ==
    Reached(d, q, u, v,
            MyStatus(op, d.rel[u][v].status, d.rel[v][u].status),
            TheirStatus(op, d.rel[u][v].status, d.rel[v][u].status),
            Told(op, u, v, d.rel[u][v], d.rel[v][u]))

\* Nothing is announced at first, and an appended call is announced too.
LEMMA AnnouncesAppend ==
    ASSUME NEW calls \in Seq(Call), NEW told, NEW more, NEW n, NEW u, NEW v, NEW t, NEW x \in more,
           Announces(calls, told, n, u, v, t), told \subseteq more, x \notin told,
           NEW c \in Call, c = PostCall(x, n[x], PostKey(u, v, t, x))
    PROVE  Announces(Append(calls, c), more, n, u, v, t)
<1>1. PICK s : s = Append(calls, c)
  OBVIOUS
<1>2. /\ DOMAIN calls = 1 .. Len(calls) /\ Len(calls) \in Nat /\ DOMAIN s = 1 .. Len(calls) + 1
      /\ \A i \in 1 .. Len(calls) : s[i] = calls[i]
      /\ s[Len(calls) + 1] = c
  BY <1>1, AppendProperties, LenProperties
<1>3. \A i \in DOMAIN calls : calls[i].user \in told
  BY DEF Announces, PostCall
<1>4. c.user = x
  BY DEF PostCall
<1>5. ASSUME NEW i \in DOMAIN s
      PROVE  \E y \in more : s[i] = PostCall(y, n[y], PostKey(u, v, t, y))
  BY <1>2 DEF Announces
<1>6. ASSUME NEW i \in DOMAIN s, NEW j \in DOMAIN s, s[i].user = s[j].user
      PROVE  i = j
  <2>1. i \in DOMAIN calls \/ i = Len(calls) + 1
    BY <1>2
  <2>2. j \in DOMAIN calls \/ j = Len(calls) + 1
    BY <1>2
  <2>. QED
    BY <1>2, <1>3, <1>4, <1>6, <2>1, <2>2 DEF Announces
<1>. QED
  BY <1>1, <1>5, <1>6 DEF Announces

\* Nothing is announced by an empty sequence.
LEMMA AnnouncesNothing ==
    ASSUME NEW told, NEW n, NEW u, NEW v, NEW t
    PROVE  Announces(<<>>, told, n, u, v, t)
BY DEF Announces

\* At the start nothing is reached yet.
LEMMA ReachedStart ==
    ASSUME NEW d \in Draft, d.calls = <<>>, NEW u \in User, NEW v \in User, u # v
    PROVE  Reached(d, d, u, v, d.rel[u][v].status, d.rel[v][u].status, {})
<1>1. Announces(d.calls, {}, d.feedSeq, u, v, d.rel[v][u])
  BY AnnouncesNothing
<1>. QED
  BY <1>1 DEF Reached

\* relationshipSet of one side of the pair.
LEMMA ReachedSet ==
    ASSUME NEW d \in Draft, NEW p, NEW u \in User, NEW v \in User, u # v, NEW mine, NEW theirs,
           NEW told, Reached(d, p, u, v, mine, theirs, told), NEW st \in Relationship
    PROVE  /\ Reached(d, RelationshipSet(p, u, v, st), u, v, st, theirs, told)
           /\ Reached(d, RelationshipSet(p, v, u, st), u, v, mine, st, told)
<1>1. p \in Draft
  BY DEF Reached
<1>2. PICK q : q = RelationshipSet(p, u, v, st)
  OBVIOUS
<1>3. PICK r : r = RelationshipSet(p, v, u, st)
  OBVIOUS
<1>4. IsSet(p, q, u, v, st) /\ IsSet(p, r, v, u, st)
  BY <1>1, <1>2, <1>3, RelationshipSetFields
<1>5. Reached(d, q, u, v, st, theirs, told)
  BY <1>4 DEF IsSet, Reached
<1>6. Reached(d, r, u, v, mine, st, told)
  BY <1>4 DEF IsSet, Reached
<1>. QED
  BY <1>2, <1>3, <1>5, <1>6

\* One more is told, and its row says so.
LEMMA ReachedNotice ==
    ASSUME NEW d \in Draft, NEW p, NEW q, NEW u \in User, NEW v \in User, u # v,
           NEW mine, NEW theirs, NEW told \in SUBSET {u, v},
           Reached(d, p, u, v, mine, theirs, told),
           NEW x \in {u, v} \ told, NEW y \in {u, v}, y # x,
           NEW key, key = PostKey(u, v, d.rel[v][u], x),
           IsNotice(p, q, x, y, key)
    PROVE  Reached(d, q, u, v, mine, theirs, told \union {x})
<1>1. p \in Draft /\ q \in Draft
  BY DEF Reached, IsNotice
<1>2. p.feedSeq[x] = d.feedSeq[x] /\ p.feed[x] = d.feed[x]
  BY DEF Reached
<1>3. Announces(q.calls, told \union {x}, d.feedSeq, u, v, d.rel[v][u])
  <2>1. PICK c : c = PostCall(x, d.feedSeq[x], key)
    OBVIOUS
  <2>2. q.calls = Append(p.calls, c)
    BY <1>2, <2>1 DEF IsNotice
  <2>3. c \in Call
    <3>1. d.feedSeq[x] \in Nat
      BY DraftFields
    <3>2. key \in RepeatKey
      BY DEF PostKey, RepeatKey
    <3>3. [counter |-> d.feedSeq[x] + 1, key |-> key] \in Item
      BY <3>1, <3>2 DEF Item
    <3>. QED
      BY <2>1, <3>3 DEF PostCall, Call
  <2>4. Announces(p.calls, told, d.feedSeq, u, v, d.rel[v][u])
    BY DEF Reached
  <2>5. p.calls \in Seq(Call)
    BY <1>1, DraftFields
  <2>6. PICK more : more = told \union {x}
    OBVIOUS
  <2>7. PICK n : n = d.feedSeq
    OBVIOUS
  <2>8. PICK t : t = d.rel[v][u]
    OBVIOUS
  <2>9. /\ Announces(p.calls, told, n, u, v, t) /\ told \subseteq more /\ x \in more /\ x \notin told
        /\ c = PostCall(x, n[x], PostKey(u, v, t, x))
    BY <2>1, <2>4, <2>6, <2>7, <2>8
  <2>10. Announces(Append(p.calls, c), more, n, u, v, t)
    BY <2>3, <2>5, <2>9, AnnouncesAppend
  <2>. QED
    BY <2>2, <2>6, <2>7, <2>8, <2>10
<1>4. \A z \in User :
         /\ z \in told \union {x} =>
              /\ q.feedSeq[z] = d.feedSeq[z] + 1
              /\ q.feed[z] = Posted(d.feed[z], d.feedSeq[z], PostKey(u, v, d.rel[v][u], z))
         /\ z \notin told \union {x} => q.feedSeq[z] = d.feedSeq[z] /\ q.feed[z] = d.feed[z]
  BY <1>2 DEF Reached, IsNotice
<1>5. q.kv = d.kv /\ q.seq = d.seq
  BY DEF Reached, IsNotice
<1>6. /\ q.rel[u][v].status = mine /\ q.rel[v][u].status = theirs
      /\ q.rel[u][v].notified = IF u \in told \union {x} THEN "recent" ELSE d.rel[u][v].notified
      /\ q.rel[v][u].notified = IF v \in told \union {x} THEN "recent" ELSE d.rel[v][u].notified
  BY DEF Reached, IsNotice
<1>7. \A a, b \in User :
         (a # u \/ b # v) /\ (a # v \/ b # u) => q.rel[a][b] = d.rel[a][b]
  BY DEF Reached, IsNotice
<1>. QED
  BY <1>1, <1>3, <1>4, <1>5, <1>6, <1>7 DEF Reached

\* friendAdd.
LEMMA AddEffect ==
    ASSUME NEW d \in Draft, d.calls = <<>>, NEW u \in User, NEW v \in User, u # v
    PROVE  Effect("add", d, FriendAdd(d, u, v), u, v)
<1>. DEFINE mine == d.rel[u][v].status
            theirs == d.rel[v][u].status
            told == Told("add", u, v, d.rel[u][v], d.rel[v][u])
<1>1. Reached(d, d, u, v, mine, theirs, {})
  BY ReachedStart
<1>2. told \in SUBSET {u, v} /\ {} \in SUBSET {u, v} /\ {u} \in SUBSET {u, v}
  BY DEF Told
<1>3. CASE theirs = "requested"
  <2>1. PICK p1 : p1 = RelationshipSet(d, v, u, "friend")
    OBVIOUS
  <2>2. PICK p2 : p2 = RelationshipSet(p1, u, v, "friend")
    OBVIOUS
  <2>3. PICK p3 : p3 = Notify(p2, u, v, "friend_accepted")
    OBVIOUS
  <2>4. PICK p4 : p4 = Notify(p3, v, u, "friend_accepted")
    OBVIOUS
  <2>5. FriendAdd(d, u, v) = p4
    BY <1>3, <2>1, <2>2, <2>3, <2>4, Zenon DEF FriendAdd, Befriended
  <2>6. "friend" \in Relationship
    BY DEF Relationship
  <2>7. Reached(d, p1, u, v, mine, "friend", {})
    BY <1>1, <2>1, <2>6, ReachedSet
  <2>8. Reached(d, p2, u, v, "friend", "friend", {})
    BY <2>2, <2>6, <2>7, ReachedSet
  <2>9. PICK told1 \in SUBSET {u} : u \in told1 <=> d.rel[u][v].notified # "recent"
    <3>1. {u} \in SUBSET {u} /\ {} \in SUBSET {u} /\ u \in {u} /\ u \notin {}
      OBVIOUS
    <3>. QED
      BY <3>1, Zenon
  <2>10. Reached(d, p3, u, v, "friend", "friend", told1)
    <3>0. p2 \in Draft /\ p2.rel[u][v].status = "friend"
          /\ p2.rel[u][v].notified = d.rel[u][v].notified
      BY <2>8 DEF Reached
    <3>1. CASE u \in told1
      <4>1. ShouldSendNotification(p2.rel[u][v])
        BY <2>9, <3>0, <3>1 DEF ShouldSendNotification
      <4>2. PICK key : key = <<"friend_accepted", v>>
        OBVIOUS
      <4>3. IsNotice(p2, p3, u, v, key)
        BY <2>3, <3>0, <4>1, <4>2, NotifyFields
      <4>4. key = PostKey(u, v, d.rel[v][u], u)
        BY <1>3, <4>2 DEF PostKey
      <4>5. Reached(d, p3, u, v, "friend", "friend", {} \union {u})
        BY <1>2, <2>8, <4>3, <4>4, ReachedNotice
      <4>6. told1 = {} \union {u}
        BY <3>1
      <4>. QED
        BY <4>5, <4>6
    <3>2. CASE u \notin told1
      <4>1. ~ShouldSendNotification(p2.rel[u][v])
        BY <2>9, <3>0, <3>2 DEF ShouldSendNotification
      <4>2. p3 = p2
        BY <2>3, <3>0, <4>1, NotifyFields
      <4>3. told1 = {}
        BY <3>2
      <4>. QED
        BY <2>8, <4>2, <4>3
    <3>. QED
      BY <3>1, <3>2
  <2>11. Reached(d, p4, u, v, "friend", "friend", told)
    <3>0. p3 \in Draft /\ p3.rel[v][u].status = "friend"
          /\ p3.rel[v][u].notified = d.rel[v][u].notified
      BY <2>10 DEF Reached
    <3>1. CASE d.rel[v][u].notified # "recent"
      <4>1. ShouldSendNotification(p3.rel[v][u])
        BY <3>0, <3>1 DEF ShouldSendNotification
      <4>2. PICK key : key = <<"friend_accepted", u>>
        OBVIOUS
      <4>3. IsNotice(p3, p4, v, u, key)
        BY <2>4, <3>0, <4>1, <4>2, NotifyFields
      <4>4. key = PostKey(u, v, d.rel[v][u], v)
        BY <1>3, <4>2 DEF PostKey
      <4>5. told1 \in SUBSET {u, v} /\ v \in {u, v} \ told1
        OBVIOUS
      <4>6. Reached(d, p4, u, v, "friend", "friend", told1 \union {v})
        BY <2>10, <4>3, <4>4, <4>5, ReachedNotice
      <4>7. told = told1 \union {v}
        BY <1>3, <2>9, <3>1 DEF Told, TellsMe, TellsThem
      <4>. QED
        BY <4>6, <4>7
    <3>2. CASE d.rel[v][u].notified = "recent"
      <4>1. ~ShouldSendNotification(p3.rel[v][u])
        BY <3>0, <3>2 DEF ShouldSendNotification
      <4>2. p4 = p3
        BY <2>4, <3>0, <4>1, NotifyFields
      <4>3. told = told1
        BY <1>3, <2>9, <3>2 DEF Told, TellsMe, TellsThem
      <4>. QED
        BY <2>10, <4>2, <4>3
    <3>. QED
      BY <3>1, <3>2
  <2>12. MyStatus("add", mine, theirs) = "friend" /\ TheirStatus("add", mine, theirs) = "friend"
    BY <1>3 DEF MyStatus, TheirStatus
  <2>. QED
    BY <2>5, <2>11, <2>12 DEF Effect
<1>4. CASE theirs # "requested" /\ mine \in {"none", "rejected"}
  <2>1. PICK p1 : p1 = RelationshipSet(d, u, v, "requested")
    OBVIOUS
  <2>2. PICK p2 : p2 = IF theirs = "none" THEN RelationshipSet(p1, v, u, "pending") ELSE p1
    OBVIOUS
  <2>3. PICK p3 : p3 = Notify(p2, v, u, "friend_request")
    OBVIOUS
  <2>4. FriendAdd(d, u, v) = p3
    BY <1>4, <2>1, <2>2, <2>3, Zenon DEF FriendAdd, Requested
  <2>5. "requested" \in Relationship /\ "pending" \in Relationship
    BY DEF Relationship
  <2>6. Reached(d, p1, u, v, "requested", theirs, {})
    BY <1>1, <2>1, <2>5, ReachedSet
  <2>7. PICK st : st = IF theirs = "none" THEN "pending" ELSE theirs
    OBVIOUS
  <2>8. Reached(d, p2, u, v, "requested", st, {})
    <3>1. CASE theirs = "none"
      <4>1. Reached(d, RelationshipSet(p1, v, u, "pending"), u, v, "requested", "pending", {})
        BY <2>5, <2>6, ReachedSet
      <4>. QED
        BY <2>2, <2>7, <3>1, <4>1
    <3>2. CASE theirs # "none"
      BY <2>2, <2>6, <2>7, <3>2
    <3>. QED
      BY <3>1, <3>2
  <2>9. Reached(d, p3, u, v, "requested", st, told)
    <3>0. p2 \in Draft /\ p2.rel[v][u].status = st /\ (st = "rejected" <=> theirs = "rejected")
          /\ p2.rel[v][u].notified = d.rel[v][u].notified
      BY <2>7, <2>8 DEF Reached
    <3>1. CASE theirs # "rejected" /\ d.rel[v][u].notified # "recent"
      <4>1. ShouldSendNotification(p2.rel[v][u])
        BY <3>0, <3>1 DEF ShouldSendNotification
      <4>2. PICK key : key = <<"friend_request", u>>
        OBVIOUS
      <4>3. IsNotice(p2, p3, v, u, key)
        BY <2>3, <3>0, <4>1, <4>2, NotifyFields
      <4>4. key = PostKey(u, v, d.rel[v][u], v)
        BY <1>4, <4>2 DEF PostKey
      <4>5. Reached(d, p3, u, v, "requested", st, {} \union {v})
        BY <1>2, <2>8, <4>3, <4>4, ReachedNotice
      <4>6. told = {} \union {v}
        BY <1>4, <3>1 DEF Told, TellsMe, TellsThem
      <4>. QED
        BY <4>5, <4>6
    <3>2. CASE theirs = "rejected" \/ d.rel[v][u].notified = "recent"
      <4>1. ~ShouldSendNotification(p2.rel[v][u])
        BY <3>0, <3>2 DEF ShouldSendNotification
      <4>2. p3 = p2
        BY <2>3, <3>0, <4>1, NotifyFields
      <4>3. told = {}
        BY <1>4, <3>2 DEF Told, TellsMe, TellsThem
      <4>. QED
        BY <2>8, <4>2, <4>3
    <3>. QED
      BY <3>1, <3>2
  <2>10. MyStatus("add", mine, theirs) = "requested" /\ TheirStatus("add", mine, theirs) = st
    BY <1>4, <2>7 DEF MyStatus, TheirStatus
  <2>. QED
    BY <2>4, <2>9, <2>10 DEF Effect
<1>5. CASE theirs # "requested" /\ mine \notin {"none", "rejected"}
  <2>1. FriendAdd(d, u, v) = d
    BY <1>5, Zenon DEF FriendAdd
  <2>2. MyStatus("add", mine, theirs) = mine /\ TheirStatus("add", mine, theirs) = theirs
    BY <1>5 DEF MyStatus, TheirStatus
  <2>3. told = {}
    BY <1>5 DEF Told, TellsMe, TellsThem
  <2>. QED
    BY <1>1, <2>1, <2>2, <2>3 DEF Effect
<1>. QED
  BY <1>3, <1>4, <1>5

\* friendRemove tells nobody.
LEMMA RemoveEffect ==
    ASSUME NEW d \in Draft, d.calls = <<>>, NEW u \in User, NEW v \in User, u # v
    PROVE  Effect("remove", d, FriendRemove(d, u, v), u, v)
<1>. DEFINE mine == d.rel[u][v].status
            theirs == d.rel[v][u].status
<1>1. Reached(d, d, u, v, mine, theirs, {})
  BY ReachedStart
<1>2. Told("remove", u, v, d.rel[u][v], d.rel[v][u]) = {}
  BY DEF Told, TellsMe, TellsThem
<1>3. "rejected" \in Relationship /\ "requested" \in Relationship /\ "pending" \in Relationship
      /\ "none" \in Relationship
  BY DEF Relationship
<1>4. CASE mine = "requested"
  <2>1. FriendRemove(d, u, v) = RelationshipSet(d, u, v, "rejected")
    BY <1>4, Zenon DEF FriendRemove
  <2>2. Reached(d, RelationshipSet(d, u, v, "rejected"), u, v, "rejected", theirs, {})
    BY <1>1, <1>3, ReachedSet
  <2>. QED
    BY <1>2, <1>4, <2>1, <2>2 DEF Effect, MyStatus, TheirStatus
<1>5. CASE mine = "friend"
  <2>1. PICK p1 : p1 = RelationshipSet(d, v, u, "requested")
    OBVIOUS
  <2>2. PICK p2 : p2 = RelationshipSet(p1, u, v, "pending")
    OBVIOUS
  <2>3. FriendRemove(d, u, v) = p2
    <3>1. "friend" # "requested"
      OBVIOUS
    <3>. QED
      BY <1>5, <2>1, <2>2, <3>1, Zenon DEF FriendRemove
  <2>4. Reached(d, p1, u, v, mine, "requested", {})
    BY <1>1, <1>3, <2>1, ReachedSet
  <2>5. Reached(d, p2, u, v, "pending", "requested", {})
    BY <1>3, <2>2, <2>4, ReachedSet
  <2>. QED
    BY <1>2, <1>5, <2>3, <2>5 DEF Effect, MyStatus, TheirStatus
<1>6. CASE mine = "pending"
  <2>1. PICK p1 : p1 = RelationshipSet(d, u, v, "none")
    OBVIOUS
  <2>2. PICK p2 : p2 = RelationshipSet(p1, v, u, "none")
    OBVIOUS
  <2>3. FriendRemove(d, u, v) = IF theirs = "rejected" THEN p1 ELSE p2
    <3>1. "pending" # "requested" /\ "pending" # "friend"
      OBVIOUS
    <3>. QED
      BY <1>6, <2>1, <2>2, <3>1, Zenon DEF FriendRemove
  <2>4. Reached(d, p1, u, v, "none", theirs, {})
    BY <1>1, <1>3, <2>1, ReachedSet
  <2>5. Reached(d, p2, u, v, "none", "none", {})
    BY <1>3, <2>2, <2>4, ReachedSet
  <2>6. MyStatus("remove", mine, theirs) = "none"
        /\ TheirStatus("remove", mine, theirs) = IF theirs = "rejected" THEN theirs ELSE "none"
    BY <1>6 DEF MyStatus, TheirStatus
  <2>. QED
    BY <1>2, <2>3, <2>4, <2>5, <2>6 DEF Effect
<1>7. CASE mine \notin {"requested", "friend", "pending"}
  <2>1. FriendRemove(d, u, v) = d
    BY <1>7, Zenon DEF FriendRemove
  <2>. QED
    BY <1>1, <1>2, <1>7, <2>1 DEF Effect, MyStatus, TheirStatus
<1>. QED
  BY <1>4, <1>5, <1>6, <1>7

-----------------------------------------------------------------------------
(* The bodies.                                                             *)

\* The fields of rows.
LEMMA RowsFields ==
    ASSUME NEW d \in Rows
    PROVE  /\ d.kv \in [Key -> Entry]
           /\ d.rel \in [User -> [User -> Row]] /\ d.feed \in [User -> SUBSET Item]
           /\ d.feedSeq \in [User -> Nat] /\ d.seq \in [User -> Nat]
           /\ \A u, v \in User : d.rel[u][v] \in Row
           /\ \A u \in User : d.feed[u] \in SUBSET Item /\ d.feedSeq[u] \in Nat
BY DEF Rows

\* The fields of a request.
LEMMA OperationFields ==
    ASSUME NEW o \in Operation
    PROVE  /\ o.op \in {"mutate", "add", "remove"}
           /\ o.op = "mutate" => o.batch \in Seq(Mutation)
           /\ o.op # "mutate" => o.from \in User /\ o.to \in User
BY DEF Operation

\* A body that writes nothing.
IsQuiet(d, q) ==
    /\ q \in Draft /\ q.calls = <<>> /\ q.kv = d.kv /\ q.rel = d.rel /\ q.feed = d.feed
    /\ q.feedSeq = d.feedSeq /\ q.seq = d.seq

\* A batch that is written.
IsMutated(d, q, batch) ==
    /\ q \in Draft /\ q.rel = d.rel /\ q.feed = d.feed
    /\ q.feedSeq = d.feedSeq /\ q.seq = d.seq
    /\ q.kv = Mutate(d.kv, batch)
    /\ q.calls = <<[user |-> Owner, changes |-> Changes(batch)]>>

\* What each body does.
LEMMA RunEffect ==
    ASSUME NEW d \in Rows, NEW o \in Operation, o.op # "mutate" => o.from # o.to
    PROVE  /\ o.op # "mutate" => Effect(o.op, d, Run(d, o), o.from, o.to)
           /\ o.op = "mutate" /\ MayRun(d, o) => IsMutated(d, Run(d, o), o.batch)
           /\ o.op = "mutate" /\ ~MayRun(d, o) => IsQuiet(d, Run(d, o))
<1>1. PICK e : e = [calls |-> <<>>, kv |-> d.kv, rel |-> d.rel, feed |-> d.feed,
                    feedSeq |-> d.feedSeq, seq |-> d.seq]
  OBVIOUS
<1>2. <<>> \in Seq(Call)
  BY EmptySeq
<1>3. IsQuiet(d, e)
  BY <1>1, <1>2, RowsFields DEF IsQuiet, Draft
<1>4. PICK q : q = Run(d, o)
  OBVIOUS
<1>5. q = CASE o.op = "add" -> FriendAdd(e, o.from, o.to)
            [] o.op = "remove" -> FriendRemove(e, o.from, o.to)
            [] o.op = "mutate" /\ MayRun(d, o) ->
                 [e EXCEPT !.kv = Mutate(d.kv, o.batch),
                           !.calls = <<[user |-> Owner, changes |-> Changes(o.batch)]>>]
            [] OTHER -> e
  BY <1>1, <1>4, Zenon DEF Run
<1>6. CASE o.op = "add"
  <2>1. q = FriendAdd(e, o.from, o.to)
    BY <1>5, <1>6
  <2>2. o.from \in User /\ o.to \in User /\ o.from # o.to /\ e \in Draft /\ e.calls = <<>>
    BY <1>3, <1>6, OperationFields DEF IsQuiet
  <2>3. PICK u \in User : u = o.from
    BY <2>2
  <2>4. PICK v \in User : v = o.to
    BY <2>2
  <2>5. Effect("add", e, q, u, v)
    BY <2>1, <2>2, <2>3, <2>4, AddEffect
  <2>6. Effect("add", d, q, u, v)
    BY <1>3, <2>5 DEF Effect, Reached, IsQuiet
  <2>. QED
    BY <1>4, <1>6, <2>3, <2>4, <2>6
<1>7. CASE o.op = "remove"
  <2>1. q = FriendRemove(e, o.from, o.to)
    BY <1>5, <1>7
  <2>2. o.from \in User /\ o.to \in User /\ o.from # o.to /\ e \in Draft /\ e.calls = <<>>
    BY <1>3, <1>7, OperationFields DEF IsQuiet
  <2>3. PICK u \in User : u = o.from
    BY <2>2
  <2>4. PICK v \in User : v = o.to
    BY <2>2
  <2>5. Effect("remove", e, q, u, v)
    BY <2>1, <2>2, <2>3, <2>4, RemoveEffect
  <2>6. Effect("remove", d, q, u, v)
    BY <1>3, <2>5 DEF Effect, Reached, IsQuiet
  <2>. QED
    BY <1>4, <1>7, <2>3, <2>4, <2>6
<1>8. CASE o.op = "mutate" /\ MayRun(d, o)
  <2>1. PICK K : K = Mutate(d.kv, o.batch)
    OBVIOUS
  <2>2. PICK c : c = [user |-> Owner, changes |-> Changes(o.batch)]
    OBVIOUS
  <2>3. PICK C : C = <<c>>
    OBVIOUS
  <2>4. q = [e EXCEPT !.kv = K, !.calls = C]
    BY <1>5, <1>8, <2>1, <2>2, <2>3
  <2>5. o.batch \in Seq(Mutation)
    BY <1>8, OperationFields
  <2>6. K \in [Key -> Entry]
    BY <2>1, <2>5, RowsFields, MutateType
  <2>7. C \in Seq(Call)
    <3>1. Changes(o.batch) \in Seq([key : Key, entry : Entry])
      BY <2>5, ChangesFields
    <3>2. Owner \in User
      BY AccountsAssumption
    <3>3. c \in [user : User, changes : Seq([key : Key, entry : Entry])]
      BY <2>2, <3>1, <3>2
    <3>4. c \in Call
      BY <3>3 DEF Call
    <3>. QED
      BY <2>3, <3>4
  <2>8. e \in Draft /\ e.rel = d.rel /\ e.feed = d.feed /\ e.feedSeq = d.feedSeq /\ e.seq = d.seq
    BY <1>3 DEF IsQuiet
  <2>9. /\ q \in Draft /\ q.rel = e.rel /\ q.feed = e.feed
        /\ q.feedSeq = e.feedSeq /\ q.seq = e.seq /\ q.kv = K /\ q.calls = C
    BY <2>4, <2>6, <2>7, <2>8 DEF Draft
  <2>10. IsMutated(d, q, o.batch)
    BY <2>1, <2>2, <2>3, <2>8, <2>9, Zenon DEF IsMutated
  <2>. QED
    BY <1>4, <1>8, <2>10
<1>9. CASE o.op = "mutate" /\ ~MayRun(d, o)
  <2>1. q = e
    BY <1>5, <1>9
  <2>. QED
    BY <1>3, <1>4, <1>9, <2>1
<1>. QED
  BY <1>6, <1>7, <1>8, <1>9, OperationFields

-----------------------------------------------------------------------------
(* A commit: what was computed on the snapshot is what the request does to *)
(* the rows as they are.                                                   *)

\* The fields of an attempt.
LEMMA AttemptFields ==
    ASSUME NEW t \in Attempt
    PROVE  t.op \in Operation /\ t.seen \in Rows /\ t.counter \in 0 .. MaxRetries /\ t # Idle
BY DEF Attempt, Idle

\* What the snapshot is used for.
GoodSnapshot(t) ==
    /\ t.op.op # "mutate" => t.op.from # t.op.to
    /\ \A u \in User :
         /\ t.seen.feedSeq[u] <= db.feedSeq[u]
         /\ t.seen.feedSeq[u] = db.feedSeq[u] => t.seen.feed[u] = db.feed[u]

\* The rows that a commit leaves, with the notifications of the attempt.
Placed(t) ==
    [calls |-> Run(t.seen, t.op).calls,
     kv |-> Merged(t).kv, rel |-> Merged(t).rel, feed |-> Merged(t).feed,
     feedSeq |-> Merged(t).feedSeq, seq |-> Merged(t).seq]

IsMerge(m, a, s) ==
    /\ m \in Rows /\ m.seq = db.seq
    /\ \A k \in Key : m.kv[k] = IF a.kv[k] # s.kv[k] THEN a.kv[k] ELSE db.kv[k]
    /\ \A u, v \in User : m.rel[u][v] = IF a.rel[u][v] # s.rel[u][v] THEN a.rel[u][v] ELSE db.rel[u][v]
    /\ \A u \in User :
         /\ m.feed[u] = IF a.feed[u] # s.feed[u] THEN a.feed[u] ELSE db.feed[u]
         /\ m.feedSeq[u] = IF a.feedSeq[u] # s.feedSeq[u] THEN a.feedSeq[u] ELSE db.feedSeq[u]

\* The rows of a commit, one by one.
LEMMA MergedFields ==
    ASSUME db \in Rows, NEW t \in Attempt, Run(t.seen, t.op) \in Draft
    PROVE  IsMerge(Merged(t), Run(t.seen, t.op), t.seen)
<1>1. PICK a \in Draft : a = Run(t.seen, t.op)
  OBVIOUS
<1>2. PICK s \in Rows : s = t.seen
  BY AttemptFields
<1>3. PICK m : m = Merged(t)
  OBVIOUS
<1>4. PICK K : K = [k \in Key |-> IF a.kv[k] # s.kv[k] THEN a.kv[k] ELSE db.kv[k]]
  OBVIOUS
<1>5. PICK R : R = [u \in User |-> [v \in User |->
                     IF a.rel[u][v] # s.rel[u][v] THEN a.rel[u][v] ELSE db.rel[u][v]]]
  OBVIOUS
<1>6. PICK F : F = [u \in User |-> IF a.feed[u] # s.feed[u] THEN a.feed[u] ELSE db.feed[u]]
  OBVIOUS
<1>7. PICK N : N = [u \in User |-> IF a.feedSeq[u] # s.feedSeq[u] THEN a.feedSeq[u] ELSE db.feedSeq[u]]
  OBVIOUS
<1>8. m = [kv |-> K, rel |-> R, feed |-> F, feedSeq |-> N, seq |-> db.seq]
  BY <1>1, <1>2, <1>3, <1>4, <1>5, <1>6, <1>7, Zenon DEF Merged
<1>9. K \in [Key -> Entry]
  BY <1>4, DraftFields, RowsFields
<1>10. R \in [User -> [User -> Row]]
  BY <1>5, DraftFields, RowsFields
<1>11. F \in [User -> SUBSET Item]
  BY <1>6, DraftFields, RowsFields
<1>12. N \in [User -> Nat]
  BY <1>7, DraftFields, RowsFields
<1>13. m \in Rows /\ m.kv = K /\ m.rel = R /\ m.feed = F /\ m.feedSeq = N /\ m.seq = db.seq
  BY <1>8, <1>9, <1>10, <1>11, <1>12, RowsFields DEF Rows
<1>14. IsMerge(m, a, s)
  BY <1>4, <1>5, <1>6, <1>7, <1>13 DEF IsMerge
<1>. QED
  BY <1>1, <1>2, <1>3, <1>14

\* Two functions with the same values are the same.
LEMMA SameFunction ==
    ASSUME NEW S, NEW T, NEW f \in [S -> T], NEW g \in [S -> T], \A x \in S : f[x] = g[x]
    PROVE  f = g
OBVIOUS

\* The fields of what is placed.
LEMMA PlacedFields ==
    ASSUME db \in Rows, NEW t \in Attempt, Run(t.seen, t.op) \in Draft, NEW q, q = Placed(t)
    PROVE  /\ q \in Draft /\ IsMerge(Merged(t), Run(t.seen, t.op), t.seen)
           /\ q.calls = Run(t.seen, t.op).calls
           /\ q.kv = Merged(t).kv /\ q.rel = Merged(t).rel /\ q.feed = Merged(t).feed
           /\ q.feedSeq = Merged(t).feedSeq /\ q.seq = Merged(t).seq
<1>1. IsMerge(Merged(t), Run(t.seen, t.op), t.seen)
  BY MergedFields
<1>2. PICK a \in Draft : a = Run(t.seen, t.op)
  OBVIOUS
<1>3. PICK m \in Rows : m = Merged(t)
  BY <1>1 DEF IsMerge
<1>4. q = [calls |-> a.calls, kv |-> m.kv, rel |-> m.rel, feed |-> m.feed,
           feedSeq |-> m.feedSeq, seq |-> m.seq]
  BY <1>2, <1>3, Zenon DEF Placed
<1>5. /\ q \in Draft /\ q.calls = a.calls /\ q.kv = m.kv /\ q.rel = m.rel /\ q.feed = m.feed
      /\ q.feedSeq = m.feedSeq /\ q.seq = m.seq
  BY <1>4, RowsFields, DraftFields DEF Draft
<1>. QED
  BY <1>1, <1>2, <1>3, <1>5

\* A friend request.
LEMMA CommitFriend ==
    ASSUME db \in Rows, NEW t \in Attempt, GoodSnapshot(t), ~Collides(t), t.op.op # "mutate"
    PROVE  Effect(t.op.op, db, Placed(t), t.op.from, t.op.to)
<1>1. PICK s \in Rows : s = t.seen
  BY AttemptFields
<1>2. PICK o \in Operation : o = t.op
  BY AttemptFields
<1>3. PICK u \in User : u = o.from
  BY <1>2, OperationFields
<1>4. PICK v \in User : v = o.to
  BY <1>2, OperationFields
<1>5. u # v
  BY <1>2, <1>3, <1>4 DEF GoodSnapshot
<1>6. PICK a : a = Run(s, o)
  OBVIOUS
<1>7. Effect(o.op, s, a, u, v)
  BY <1>2, <1>3, <1>4, <1>5, <1>6, RunEffect
<1>8. a \in Draft
  BY <1>7 DEF Effect, Reached
<1>9. PICK m : m = Merged(t)
  OBVIOUS
<1>10. PICK q : q = Placed(t)
  OBVIOUS
<1>11. /\ q \in Draft /\ IsMerge(m, a, s) /\ q.calls = a.calls
       /\ q.kv = m.kv /\ q.rel = m.rel /\ q.feed = m.feed
       /\ q.feedSeq = m.feedSeq /\ q.seq = m.seq
  BY <1>1, <1>2, <1>6, <1>8, <1>9, <1>10, PlacedFields
<1>12. s.rel[u][v] = db.rel[u][v] /\ s.rel[v][u] = db.rel[v][u]
  <2>1. Footprint(db, o) = Footprint(s, o)
    BY <1>1, <1>2 DEF Collides
  <2>2. <<db.rel[u][v], db.rel[v][u]>> = <<s.rel[u][v], s.rel[v][u]>>
    BY <1>2, <1>3, <1>4, <2>1 DEF Footprint
  <2>. QED
    BY <2>2
<1>13. PICK mine : mine = MyStatus(o.op, s.rel[u][v].status, s.rel[v][u].status)
  OBVIOUS
<1>14. PICK theirs : theirs = TheirStatus(o.op, s.rel[u][v].status, s.rel[v][u].status)
  OBVIOUS
<1>15. PICK told : told = Told(o.op, u, v, s.rel[u][v], s.rel[v][u])
  OBVIOUS
<1>16. Reached(s, a, u, v, mine, theirs, told) /\ told \subseteq {u, v}
  BY <1>7, <1>13, <1>14, <1>15 DEF Effect, Told
<1>17. ASSUME NEW x \in User, x \in told
       PROVE  s.feedSeq[x] = db.feedSeq[x] /\ s.feed[x] = db.feed[x]
  <2>1. s.feedSeq[x] \in Nat /\ a.feedSeq[x] = s.feedSeq[x] + 1
    BY <1>16, <1>17, RowsFields DEF Reached
  <2>2. Account(db, x) = Account(s, x)
    BY <1>1, <1>2, <1>6, <2>1 DEF Collides
  <2>3. s.feedSeq[x] = db.feedSeq[x]
    BY <2>2 DEF Account
  <2>. QED
    BY <1>1, <2>3 DEF GoodSnapshot
<1>18. q.kv = db.kv /\ q.seq = db.seq
  <2>0. a.kv = s.kv
    BY <1>16 DEF Reached
  <2>1. \A k \in Key : m.kv[k] = db.kv[k]
    <3>1. IsMerge(m, a, s)
      BY <1>11
    <3>2. \A k \in Key : m.kv[k] = IF a.kv[k] # s.kv[k] THEN a.kv[k] ELSE db.kv[k]
      BY <3>1, Zenon DEF IsMerge
    <3>. QED
      BY <2>0, <3>2, Zenon
  <2>2. m.kv \in [Key -> Entry] /\ db.kv \in [Key -> Entry]
    BY <1>11, RowsFields DEF IsMerge
  <2>3. m.kv = db.kv
    BY <2>1, <2>2, SameFunction
  <2>. QED
    BY <1>11, <2>3 DEF IsMerge
<1>19. /\ q.rel[u][v] = a.rel[u][v] /\ q.rel[v][u] = a.rel[v][u]
       /\ \A x, y \in User :
            (x # u \/ y # v) /\ (x # v \/ y # u) => q.rel[x][y] = db.rel[x][y]
  BY <1>11, <1>12, <1>16 DEF IsMerge, Reached
<1>20. ASSUME NEW x \in User
       PROVE  /\ x \in told =>
                   /\ q.feedSeq[x] = db.feedSeq[x] + 1
                   /\ q.feed[x] = Posted(db.feed[x], db.feedSeq[x], PostKey(u, v, db.rel[v][u], x))
              /\ x \notin told => q.feedSeq[x] = db.feedSeq[x] /\ q.feed[x] = db.feed[x]
  <2>1. /\ q.feed[x] = IF a.feed[x] # s.feed[x] THEN a.feed[x] ELSE db.feed[x]
        /\ q.feedSeq[x] = IF a.feedSeq[x] # s.feedSeq[x] THEN a.feedSeq[x] ELSE db.feedSeq[x]
    BY <1>11 DEF IsMerge
  <2>2. /\ x \in told =>
             /\ a.feedSeq[x] = s.feedSeq[x] + 1
             /\ a.feed[x] = Posted(s.feed[x], s.feedSeq[x], PostKey(u, v, s.rel[v][u], x))
        /\ x \notin told => a.feedSeq[x] = s.feedSeq[x] /\ a.feed[x] = s.feed[x]
    BY <1>16 DEF Reached
  <2>3. CASE x \in told
    <3>1. s.feedSeq[x] = db.feedSeq[x] /\ s.feed[x] = db.feed[x]
      BY <1>17, <2>3
    <3>. QED
      BY <1>12, <2>1, <2>2, <2>3, <3>1
  <2>4. CASE x \notin told
    BY <2>1, <2>2, <2>4
  <2>. QED
    BY <2>3, <2>4
<1>21. Announces(q.calls, told, db.feedSeq, u, v, db.rel[v][u])
  <2>1. Announces(a.calls, told, s.feedSeq, u, v, s.rel[v][u])
    BY <1>16 DEF Reached
  <2>2. \A x \in told : s.feedSeq[x] = db.feedSeq[x]
    BY <1>16, <1>17
  <2>. QED
    BY <1>11, <1>12, <2>1, <2>2 DEF Announces
<1>22. Reached(db, q, u, v, mine, theirs, told)
  <2>1. /\ a.rel[u][v].status = mine /\ a.rel[v][u].status = theirs
        /\ a.rel[u][v].notified = IF u \in told THEN "recent" ELSE s.rel[u][v].notified
        /\ a.rel[v][u].notified = IF v \in told THEN "recent" ELSE s.rel[v][u].notified
    BY <1>16 DEF Reached
  <2>. QED
    BY <1>11, <1>12, <1>18, <1>19, <1>20, <1>21, <2>1 DEF Reached
<1>23. Effect(o.op, db, q, u, v)
  BY <1>12, <1>13, <1>14, <1>15, <1>22 DEF Effect
<1>. QED
  BY <1>2, <1>3, <1>4, <1>10, <1>23

\* A batch.
LEMMA CommitBatch ==
    ASSUME db \in Rows, NEW t \in Attempt, GoodSnapshot(t), ~Collides(t), ~ReadOnly(t),
           t.op.op = "mutate"
    PROVE  MayRun(db, t.op) /\ IsMutated(db, Placed(t), t.op.batch)
<1>1. PICK s \in Rows : s = t.seen
  BY AttemptFields
<1>2. PICK o \in Operation : o = t.op
  BY AttemptFields
<1>3. PICK batch \in Seq(Mutation) : batch = o.batch
  BY <1>2, OperationFields
<1>4. PICK a : a = Run(s, o)
  OBVIOUS
<1>5. MayRun(s, o)
  <2>1. CASE ~MayRun(s, o)
    <3>1. IsQuiet(s, a)
      BY <1>2, <1>4, <2>1, RunEffect
    <3>. QED
      BY <1>1, <1>2, <1>4, <3>1 DEF ReadOnly, IsQuiet
  <2>. QED
    BY <2>1
<1>6. IsMutated(s, a, batch)
  BY <1>2, <1>3, <1>4, <1>5, RunEffect
<1>7. a \in Draft
  BY <1>6 DEF IsMutated
<1>8. PICK m : m = Merged(t)
  OBVIOUS
<1>9. PICK q : q = Placed(t)
  OBVIOUS
<1>10. /\ q \in Draft /\ IsMerge(m, a, s) /\ q.calls = a.calls
       /\ q.kv = m.kv /\ q.rel = m.rel /\ q.feed = m.feed
       /\ q.feedSeq = m.feedSeq /\ q.seq = m.seq
  BY <1>1, <1>2, <1>4, <1>7, <1>8, <1>9, PlacedFields
<1>11. ASSUME NEW i \in DOMAIN batch
       PROVE  batch[i].key \in Key /\ db.kv[batch[i].key] = s.kv[batch[i].key]
  <2>1. PICK B : B = {batch[j].key : j \in DOMAIN batch}
    OBVIOUS
  <2>2. Footprint(db, o) = Footprint(s, o)
    BY <1>1, <1>2 DEF Collides
  <2>3. [k \in B |-> db.kv[k]] = [k \in B |-> s.kv[k]]
    BY <1>2, <1>3, <2>1, <2>2 DEF Footprint
  <2>4. batch[i].key \in B
    BY <2>1
  <2>5. batch[i] \in Mutation
    BY ElementOfSeq, LenProperties
  <2>. QED
    BY <2>3, <2>4, <2>5, AfterFields
<1>12. MayRun(db, o)
  <2>1. Mismatches(s.kv, batch) = {}
    BY <1>2, <1>3, <1>5 DEF MayRun
  <2>2. Mismatches(db.kv, batch) = {}
    BY <1>11, <2>1 DEF Mismatches
  <2>. QED
    BY <1>3, <2>2 DEF MayRun
<1>13. PICK K : K = Mutate(db.kv, batch)
  OBVIOUS
<1>14. PICK L : L = Mutate(s.kv, batch)
  OBVIOUS
<1>15. ASSUME NEW k \in Key
       PROVE  m.kv[k] = K[k]
  <2>1. db.kv \in [Key -> Entry] /\ s.kv \in [Key -> Entry]
    BY RowsFields
  <2>2. a.kv[k] = L[k]
    BY <1>6, <1>14 DEF IsMutated
  <2>3. m.kv[k] = IF a.kv[k] # s.kv[k] THEN a.kv[k] ELSE db.kv[k]
    BY <1>10 DEF IsMerge
  <2>4. CASE \A i \in DOMAIN batch : batch[i].key # k
    <3>1. K[k] = db.kv[k]
      BY <1>13, <2>1, <2>4, MutateEffect
    <3>2. L[k] = s.kv[k]
      BY <1>14, <2>1, <2>4, MutateEffect
    <3>. QED
      BY <2>2, <2>3, <3>1, <3>2
  <2>5. CASE \E i \in DOMAIN batch : batch[i].key = k
    <3>1. db.kv[k] = s.kv[k]
      BY <1>11, <2>5
    <3>2. PICK i \in DOMAIN batch :
            /\ batch[i].key = k
            /\ \A j \in DOMAIN batch : batch[j].key = k => j <= i
            /\ K[k] = After(batch[i])
      BY <1>13, <2>1, <2>5, MutateEffect
    <3>3. L[k] = After(batch[i])
      BY <1>14, <2>1, <3>2, MutateEffect
    <3>. QED
      BY <2>2, <2>3, <3>1, <3>2, <3>3
  <2>. QED
    BY <2>4, <2>5
<1>16. q.kv = K
  <2>1. m.kv \in [Key -> Entry] /\ K \in [Key -> Entry]
    <3>1. db.kv \in [Key -> Entry]
      BY RowsFields
    <3>2. m.kv \in [Key -> Entry]
      BY <1>10, RowsFields DEF IsMerge
    <3>. QED
      BY <1>13, <3>1, <3>2, MutateType
  <2>. QED
    BY <1>10, <1>15, <2>1, SameFunction
<1>17. q.rel = db.rel
  <2>1. m \in Rows
    BY <1>10 DEF IsMerge
  <2>2. m.rel \in [User -> [User -> Row]] /\ db.rel \in [User -> [User -> Row]]
    BY <2>1, RowsFields
  <2>3. \A u, v \in User : m.rel[u][v] = db.rel[u][v]
    BY <1>6, <1>10 DEF IsMerge, IsMutated
  <2>4. \A u \in User : m.rel[u] = db.rel[u]
    BY <2>2, <2>3
  <2>5. m.rel = db.rel
    BY <2>2, <2>4, SameFunction
  <2>. QED
    BY <1>10, <2>5
<1>18. q.feed = db.feed /\ q.feedSeq = db.feedSeq /\ q.seq = db.seq
  <2>1. m \in Rows
    BY <1>10 DEF IsMerge
  <2>2. /\ m.feed \in [User -> SUBSET Item] /\ db.feed \in [User -> SUBSET Item]
        /\ m.feedSeq \in [User -> Nat] /\ db.feedSeq \in [User -> Nat]
    BY <2>1, RowsFields
  <2>3. \A u \in User : m.feed[u] = db.feed[u]
    BY <1>6, <1>10 DEF IsMerge, IsMutated
  <2>4. \A u \in User : m.feedSeq[u] = db.feedSeq[u]
    BY <1>6, <1>10 DEF IsMerge, IsMutated
  <2>5. m.feed = db.feed
    BY <2>2, <2>3, SameFunction
  <2>6. m.feedSeq = db.feedSeq
    BY <2>2, <2>4, SameFunction
  <2>. QED
    BY <1>10, <2>5, <2>6 DEF IsMerge
<1>19. q.calls = <<[user |-> Owner, changes |-> Changes(batch)]>>
  BY <1>6, <1>10 DEF IsMutated
<1>20. IsMutated(db, q, batch)
  BY <1>10, <1>13, <1>16, <1>17, <1>18, <1>19 DEF IsMutated
<1>. QED
  BY <1>2, <1>3, <1>9, <1>12, <1>20

\* A request has one effect.
LEMMA EffectUnique ==
    ASSUME NEW op, NEW d \in Rows, NEW q, NEW p, NEW u \in User, NEW v \in User,
           Effect(op, d, q, u, v), Effect(op, d, p, u, v)
    PROVE  StoreOf(q) = StoreOf(p)
<1>1. PICK mine : mine = MyStatus(op, d.rel[u][v].status, d.rel[v][u].status)
  OBVIOUS
<1>2. PICK theirs : theirs = TheirStatus(op, d.rel[u][v].status, d.rel[v][u].status)
  OBVIOUS
<1>3. PICK told : told = Told(op, u, v, d.rel[u][v], d.rel[v][u])
  OBVIOUS
<1>4. Reached(d, q, u, v, mine, theirs, told) /\ Reached(d, p, u, v, mine, theirs, told)
  BY <1>1, <1>2, <1>3 DEF Effect
<1>5. q \in Draft /\ p \in Draft /\ q.kv = p.kv
  BY <1>4 DEF Reached
<1>6. q.rel = p.rel
  <2>1. ASSUME NEW x \in User, NEW y \in User
        PROVE  q.rel[x][y] = p.rel[x][y]
    <3>1. q.rel[x][y] \in Row /\ p.rel[x][y] \in Row
      BY <1>5, DraftFields
    <3>2. \A w, z \in Row : w.status = z.status /\ w.notified = z.notified => w = z
      BY DEF Row
    <3>3. CASE x = u /\ y = v
      <4>1. q.rel[u][v].status = p.rel[u][v].status /\ q.rel[u][v].notified = p.rel[u][v].notified
        BY <1>4 DEF Reached
      <4>. QED
        BY <3>1, <3>2, <3>3, <4>1
    <3>4. CASE x = v /\ y = u
      <4>1. q.rel[v][u].status = p.rel[v][u].status /\ q.rel[v][u].notified = p.rel[v][u].notified
        BY <1>4 DEF Reached
      <4>. QED
        BY <3>1, <3>2, <3>4, <4>1
    <3>5. CASE (x # u \/ y # v) /\ (x # v \/ y # u)
      BY <1>4, <3>5 DEF Reached
    <3>. QED
      BY <3>3, <3>4, <3>5
  <2>2. q.rel \in [User -> [User -> Row]] /\ p.rel \in [User -> [User -> Row]]
    BY <1>5, DraftFields
  <2>3. \A x \in User : q.rel[x] = p.rel[x]
    BY <2>1, <2>2
  <2>. QED
    BY <2>2, <2>3, SameFunction
<1>7. \A x \in User : q.feed[x] = p.feed[x] /\ q.feedSeq[x] = p.feedSeq[x]
  BY <1>4 DEF Reached
<1>8. /\ q.feed \in [User -> SUBSET Item] /\ p.feed \in [User -> SUBSET Item]
      /\ q.feedSeq \in [User -> Nat] /\ p.feedSeq \in [User -> Nat]
  BY <1>5, DraftFields
<1>9. q.feed = p.feed
  BY <1>7, <1>8, SameFunction
<1>10. q.feedSeq = p.feedSeq
  BY <1>7, <1>8, SameFunction
<1>. QED
  BY <1>5, <1>6, <1>9, <1>10 DEF StoreOf

\* What a commit leaves is what the request, run alone, leaves.
LEMMA CommitRuns ==
    ASSUME db \in Rows, NEW t \in Attempt, GoodSnapshot(t), ~Collides(t), ~ReadOnly(t)
    PROVE  MayRun(db, t.op) /\ StoreOf(Merged(t)) = StoreOf(Run(db, t.op))
<1>1. t.op \in Operation /\ t.op.op \in {"mutate", "add", "remove"}
      /\ (t.op.op # "mutate" => t.op.from # t.op.to)
  BY AttemptFields, OperationFields DEF GoodSnapshot
<1>2. StoreOf(Merged(t)) = StoreOf(Placed(t))
  BY DEF StoreOf, Placed
<1>3. CASE t.op.op # "mutate"
  <2>1. PICK u \in User : u = t.op.from
    BY <1>1, <1>3, OperationFields
  <2>2. PICK v \in User : v = t.op.to
    BY <1>1, <1>3, OperationFields
  <2>3. Effect(t.op.op, db, Placed(t), u, v)
    BY <1>3, <2>1, <2>2, CommitFriend
  <2>4. Effect(t.op.op, db, Run(db, t.op), u, v)
    BY <1>1, <1>3, <2>1, <2>2, RunEffect
  <2>5. StoreOf(Placed(t)) = StoreOf(Run(db, t.op))
    BY <2>3, <2>4, EffectUnique
  <2>. QED
    BY <1>2, <1>3, <2>5 DEF MayRun
<1>4. CASE t.op.op = "mutate"
  <2>1. MayRun(db, t.op) /\ IsMutated(db, Placed(t), t.op.batch)
    BY <1>4, CommitBatch
  <2>2. IsMutated(db, Run(db, t.op), t.op.batch)
    BY <1>1, <1>4, <2>1, RunEffect
  <2>3. StoreOf(Placed(t)) = StoreOf(Run(db, t.op))
    BY <2>1, <2>2 DEF IsMutated, StoreOf
  <2>. QED
    BY <1>2, <2>1, <2>3
<1>. QED
  BY <1>3, <1>4

-----------------------------------------------------------------------------
(* Types.                                                                  *)

\* What a client may ask for.
LEMMA InputsOperation ==
    ASSUME Types, NEW o \in Inputs
    PROVE  o \in Operation /\ (o.op # "mutate" => o.from # o.to)
<1>1. CASE budget.service = "social"
  <2>1. o \in {x \in [op : {"add", "remove"}, from : User, to : User] : x.from # x.to}
    BY <1>1, Zenon DEF Inputs
  <2>. QED
    BY <2>1 DEF Operation
<1>2. CASE budget.service # "social"
  <2>1. PICK V : V = UNION {KnownVersions(k) : k \in Key}
    OBVIOUS
  <2>2. PICK W : W = {f \in [Key -> V] : \A k \in Key : f[k] \in KnownVersions(k)}
    OBVIOUS
  <2>3. PICK b :
          /\ o = [op |-> "mutate", batch |-> b]
          /\ b \in UNION {{[i \in DOMAIN w |-> [key |-> w[i].key, value |-> w[i].value,
                                                version |-> version[w[i].key]]] :
                             version \in W} : w \in Batch}
    BY <1>2, <2>1, <2>2 DEF Inputs
  <2>4. PICK w \in Batch, version \in W :
          b = [i \in DOMAIN w |-> [key |-> w[i].key, value |-> w[i].value,
                                   version |-> version[w[i].key]]]
    BY <2>3
  <2>5. V \subseteq Int
    <3>1. ASSUME NEW k \in Key
          PROVE  KnownVersions(k) \subseteq Int
      <4>1. db.kv[k] \in Entry
        BY RowsFields DEF Types
      <4>. QED
        BY <4>1 DEF Entry, KnownVersions
    <3>. QED
      BY <2>1, <3>1
  <2>6. w \in Seq([key : Key, value : Value \union {Null}])
    BY AccountsAssumption
  <2>7. DOMAIN w = 1 .. Len(w) /\ Len(w) \in Nat
    BY <2>6, LenProperties
  <2>8. ASSUME NEW i \in 1 .. Len(w)
        PROVE  [key |-> w[i].key, value |-> w[i].value, version |-> version[w[i].key]] \in Mutation
    <3>1. w[i] \in [key : Key, value : Value \union {Null}]
      BY <2>6, ElementOfSeq
    <3>2. w[i].key \in Key /\ w[i].value \in Value \union {Null}
      BY <3>1
    <3>3. version[w[i].key] \in Int
      BY <2>2, <2>5, <3>2
    <3>. QED
      BY <3>2, <3>3 DEF Mutation
  <2>9. b \in Seq(Mutation)
    <3>1. b = [i \in 1 .. Len(w) |-> [key |-> w[i].key, value |-> w[i].value,
                                      version |-> version[w[i].key]]]
      BY <2>4, <2>7
    <3>. QED
      BY <2>7, <2>8, <3>1, IsASeq
  <2>. QED
    BY <2>3, <2>9 DEF Operation
<1>. QED
  BY <1>1, <1>2

\* The notifications that calls become.
Outgoing(calls) ==
    {[id |-> <<budget.requests, i>>, call |-> calls[i], numbered |-> FALSE] : i \in DOMAIN calls}

\* Posts among the calls that tell u about v.
PostsAmong(calls, u, v) ==
    {i \in DOMAIN calls :
        "item" \in DOMAIN calls[i] /\ calls[i].user = u /\ calls[i].item.key[2] = v}

\* The rows after a commit are those of a draft.
CommitsTo(q) ==
    /\ q \in Draft /\ db' \in Rows
    /\ db'.kv = q.kv /\ db'.rel = q.rel /\ db'.feed = q.feed /\ db'.feedSeq = q.feedSeq
    /\ db'.seq = q.seq /\ q.seq = db.seq
    /\ noticed' = [u \in User |-> [v \in User |->
                     noticed[u][v] + Cardinality(PostsAmong(q.calls, u, v))]]

\* The draft of a friend request, and that of a batch.
FriendDraft(q) ==
    \E op \in {"add", "remove"} : \E u, v \in User : u # v /\ Effect(op, db, q, u, v)

BatchDraft(q) ==
    \E batch \in Seq(Mutation) : Mismatches(db.kv, batch) = {} /\ IsMutated(db, q, batch)

\* The keys that a draft is about.
Concerns(q, keys) ==
    \/ FriendDraft(q) /\ keys = {}
    \/ \E batch \in Seq(Mutation) :
         /\ Mismatches(db.kv, batch) = {} /\ IsMutated(db, q, batch)
         /\ keys = {batch[i].key : i \in DOMAIN batch}

\* The request of an attempt.
LEMMA AttemptOf ==
    ASSUME Types, Snapshots, NEW r \in Request, request[r] # Idle
    PROVE  request[r] \in Attempt /\ GoodSnapshot(request[r])
<1>1. request[r] \in Attempt
  BY DEF Types
<1>. QED
  BY <1>1 DEF Snapshots, GoodSnapshot

\* What a commit does.
LEMMA AppliesMeans ==
    ASSUME Types, Snapshots, NEW r \in Request, Applies(r)
    PROVE  \E q : /\ CommitsTo(q) /\ Concerns(q, Touched(request[r].op))
                 /\ Deferred(request[r]) = Outgoing(q.calls)
<1>1. PICK t : t = request[r]
  OBVIOUS
<1>2. t # Idle /\ ~ReadOnly(t) /\ ~Collides(t) /\ db' = Merged(t)
  BY <1>1, Zenon DEF Applies
<1>3. t \in Attempt /\ GoodSnapshot(t) /\ db \in Rows
  BY <1>1, <1>2, AttemptOf DEF Types
<1>4. PICK a : a = Run(t.seen, t.op)
  OBVIOUS
<1>5. PICK q : q = Placed(t)
  OBVIOUS
<1>6. /\ t.op \in Operation /\ t.seen \in Rows /\ t.op.op \in {"mutate", "add", "remove"}
      /\ (t.op.op # "mutate" => t.op.from # t.op.to)
  BY <1>3, AttemptFields, OperationFields DEF GoodSnapshot
<1>7. a \in Draft
  <2>1. CASE t.op.op # "mutate"
    <3>1. Effect(t.op.op, t.seen, a, t.op.from, t.op.to)
      BY <1>4, <1>6, <2>1, RunEffect
    <3>. QED
      BY <3>1, Zenon DEF Effect, Reached
  <2>2. CASE t.op.op = "mutate"
    <3>1. IsMutated(t.seen, a, t.op.batch) \/ IsQuiet(t.seen, a)
      BY <1>4, <1>6, <2>2, RunEffect
    <3>. QED
      BY <3>1 DEF IsMutated, IsQuiet
  <2>. QED
    BY <2>1, <2>2
<1>8. /\ q \in Draft /\ IsMerge(Merged(t), a, t.seen) /\ q.calls = a.calls
      /\ q.kv = Merged(t).kv /\ q.rel = Merged(t).rel /\ q.feed = Merged(t).feed
      /\ q.feedSeq = Merged(t).feedSeq /\ q.seq = Merged(t).seq
  BY <1>3, <1>4, <1>5, <1>7, PlacedFields
<1>9. Merged(t) \in Rows /\ Merged(t).seq = db.seq
  BY <1>8 DEF IsMerge
<1>10. Deferred(request[r]) = Outgoing(q.calls)
  BY <1>1, <1>4, <1>8, Zenon DEF Deferred, Outgoing
<1>11. noticed' = [u \in User |-> [v \in User |->
                     noticed[u][v] + Cardinality(PostsAmong(q.calls, u, v))]]
  <2>1. noticed' = [u \in User |-> [v \in User |-> noticed[u][v] + Posts(t, u, v)]]
    BY <1>1, Zenon DEF Applies
  <2>2. \A u, v : Posts(t, u, v) = Cardinality(PostsAmong(q.calls, u, v))
    BY <1>4, <1>8, Zenon DEF Posts, PostsAmong
  <2>. QED
    BY <2>1, <2>2, Zenon
<1>12. CommitsTo(q)
  BY <1>2, <1>8, <1>9, <1>11, Zenon DEF CommitsTo
<1>13. Concerns(q, Touched(request[r].op))
  <2>1. CASE t.op.op # "mutate"
    <3>1. PICK u \in User : u = t.op.from
      BY <1>6, <2>1, OperationFields
    <3>2. PICK v \in User : v = t.op.to
      BY <1>6, <2>1, OperationFields
    <3>3. u # v /\ t.op.op \in {"add", "remove"}
      BY <1>6, <2>1, <3>1, <3>2
    <3>4. Effect(t.op.op, db, q, u, v)
      BY <1>2, <1>3, <1>5, <2>1, <3>1, <3>2, CommitFriend
    <3>5. Touched(t.op) = {}
      BY <2>1 DEF Touched
    <3>. QED
      BY <1>1, <3>3, <3>4, <3>5 DEF Concerns, FriendDraft
  <2>2. CASE t.op.op = "mutate"
    <3>1. PICK batch \in Seq(Mutation) : batch = t.op.batch
      BY <1>6, <2>2, OperationFields
    <3>2. MayRun(db, t.op) /\ IsMutated(db, q, batch)
      BY <1>2, <1>3, <1>5, <2>2, <3>1, CommitBatch
    <3>3. Mismatches(db.kv, batch) = {}
      BY <2>2, <3>1, <3>2 DEF MayRun
    <3>4. Touched(t.op) = {batch[i].key : i \in DOMAIN batch}
      BY <2>2, <3>1 DEF Touched
    <3>. QED
      BY <1>1, <3>2, <3>3, <3>4 DEF Concerns
  <2>. QED
    BY <2>1, <2>2
<1>. QED
  BY <1>10, <1>12, <1>13

\* In short.
LEMMA CommitMeans ==
    ASSUME Types, Snapshots, NEW r \in Request, Applies(r)
    PROVE  \E q : CommitsTo(q) /\ (FriendDraft(q) \/ BatchDraft(q))
<1>1. PICK q : CommitsTo(q) /\ Concerns(q, Touched(request[r].op))
  BY AppliesMeans
<1>2. FriendDraft(q) \/ BatchDraft(q)
  BY <1>1 DEF Concerns, BatchDraft
<1>. QED
  BY <1>1, <1>2

\* Finitely many calls are put aside.
LEMMA PostsFinite ==
    ASSUME NEW calls \in Seq(Call), NEW u, NEW v
    PROVE  IsFiniteSet(PostsAmong(calls, u, v)) /\ Cardinality(PostsAmong(calls, u, v)) \in Nat
<1>1. DOMAIN calls = 1 .. Len(calls) /\ Len(calls) \in Nat
  BY LenProperties
<1>2. IsFiniteSet(1 .. Len(calls))
  BY <1>1, FS_Interval
<1>3. PostsAmong(calls, u, v) \subseteq 1 .. Len(calls)
  BY <1>1 DEF PostsAmong
<1>4. IsFiniteSet(PostsAmong(calls, u, v))
  BY <1>2, <1>3, FS_Subset
<1>. QED
  BY <1>4, FS_CardinalityType

\* Every outgoing call is owed once.
LEMMA OutgoingOwed ==
    ASSUME Types, NEW calls \in Seq(Call)
    PROVE  Outgoing(calls) \subseteq Owed
<1>1. DOMAIN calls = 1 .. Len(calls) /\ Len(calls) \in Nat
  BY LenProperties
<1>2. budget.requests \in Nat
  BY DEF Types, Bounds
<1>3. PICK z \in BOOLEAN : z = FALSE
  OBVIOUS
<1>4. ASSUME NEW i \in DOMAIN calls
      PROVE  [id |-> <<budget.requests, i>>, call |-> calls[i], numbered |-> z] \in Owed
  <2>1. calls[i] \in Call
    BY <1>1, ElementOfSeq
  <2>2. <<budget.requests, i>> \in Nat \X Nat
    BY <1>1, <1>2
  <2>. QED
    BY <2>1, <2>2 DEF Owed
<1>5. Outgoing(calls) = {[id |-> <<budget.requests, i>>, call |-> calls[i], numbered |-> z] :
                           i \in DOMAIN calls}
  BY <1>3, Zenon DEF Outgoing
<1>. QED
  BY <1>4, <1>5, Zenon

\* A slot is filled or becomes idle.
LEMMA SlotType ==
    ASSUME Types, NEW r \in Request, NEW t \in {Idle} \union Attempt,
           request' = [request EXCEPT ![r] = t]
    PROVE  request' \in [Request -> {Idle} \union Attempt]
BY DEF Types

\* Submit keeps the types.
LEMMA SubmitTypes ==
    ASSUME Types, NEW r \in Request, Submit(r)
    PROVE  Types'
<1>1. PICK o \in Inputs :
        request' = [request EXCEPT ![r] = [at |-> "open", op |-> o, seen |-> db, counter |-> 0]]
  BY Zenon DEF Submit
<1>2. o \in Operation /\ db \in Rows /\ 0 \in 0 .. MaxRetries
  BY InputsOperation, AccountsAssumption DEF Types
<1>3. PICK t : t = [at |-> "open", op |-> o, seen |-> db, counter |-> 0]
  OBVIOUS
<1>4. t \in Attempt
  BY <1>2, <1>3 DEF Attempt
<1>5. request' \in [Request -> {Idle} \union Attempt]
  BY <1>1, <1>3, <1>4, SlotType
<1>6. budget' \in Bounds
  <2>1. budget \in Bounds /\ budget.requests > 0 /\ budget' = [budget EXCEPT !.requests = @ - 1]
    BY DEF Types, Submit
  <2>. QED
    BY <2>1 DEF Bounds
<1>7. UNCHANGED <<db, owed, device, reader, unheard, noticed>>
  BY Zenon DEF Submit
<1>. QED
  BY <1>5, <1>6, <1>7 DEF Types

\* The keys that a draft is about are keys.
LEMMA ConcernsKeys ==
    ASSUME NEW q, NEW keys, Concerns(q, keys)
    PROVE  keys \subseteq Key
<1>1. ASSUME NEW batch \in Seq(Mutation), NEW i \in DOMAIN batch
      PROVE  batch[i].key \in Key
  <2>1. batch[i] \in Mutation
    BY ElementOfSeq, LenProperties
  <2>. QED
    BY <2>1, AfterFields
<1>. QED
  BY <1>1 DEF Concerns

\* A commit keeps the types, whether or not it is answered.
LEMMA CommitTypes ==
    ASSUME Types, Snapshots, NEW r \in Request, Commit(r) \/ LoseAnswer(r)
    PROVE  Types'
<1>0. Applies(r)
  BY Zenon DEF Commit, LoseAnswer
<1>1. PICK q : /\ CommitsTo(q) /\ Concerns(q, Touched(request[r].op))
               /\ Deferred(request[r]) = Outgoing(q.calls)
  BY <1>0, AppliesMeans
<1>2. db' \in Rows /\ q \in Draft /\ q.calls \in Seq(Call)
  BY <1>1, DraftFields DEF CommitsTo
<1>3. owed' \subseteq Owed
  <2>1. owed' = owed \union Outgoing(q.calls) \/ owed' = owed
    BY <1>1, Zenon DEF Commit, LoseAnswer
  <2>2. Outgoing(q.calls) \subseteq Owed
    BY <1>2, OutgoingOwed
  <2>. QED
    BY <2>1, <2>2 DEF Types
<1>7. unheard' \subseteq Key
  <2>1. PICK T : T = Touched(request[r].op)
    OBVIOUS
  <2>2. unheard' = unheard \ T \/ unheard' = unheard \union T
    BY <2>1, Zenon DEF Commit, LoseAnswer
  <2>3. T \subseteq Key
    BY <1>1, <2>1, ConcernsKeys
  <2>. QED
    BY <2>2, <2>3 DEF Types
<1>4. noticed' \in [User -> [User -> Nat]]
  <2>1. noticed' = [u \in User |-> [v \in User |->
                     noticed[u][v] + Cardinality(PostsAmong(q.calls, u, v))]]
    BY <1>1 DEF CommitsTo
  <2>2. ASSUME NEW u \in User, NEW v \in User
        PROVE  noticed[u][v] + Cardinality(PostsAmong(q.calls, u, v)) \in Nat
    <3>1. Cardinality(PostsAmong(q.calls, u, v)) \in Nat
      BY <1>2, PostsFinite
    <3>2. noticed[u][v] \in Nat
      BY DEF Types
    <3>. QED
      BY <3>1, <3>2
  <2>. QED
    BY <2>1, <2>2
<1>5. request' \in [Request -> {Idle} \union Attempt]
  <2>1. request' = [request EXCEPT ![r] = Idle]
    BY <1>0, Zenon DEF Applies
  <2>. QED
    BY <2>1, SlotType
<1>6. UNCHANGED <<device, budget>>
  BY <1>0, Zenon DEF Applies
<1>. QED
  BY <1>2, <1>3, <1>4, <1>5, <1>6, <1>7 DEF Types

\* So do an answer, another attempt and a failure.
LEMMA EndTypes ==
    ASSUME Types, NEW r \in Request, Answer(r) \/ Retry(r) \/ Fail(r)
    PROVE  Types'
<1>1. UNCHANGED <<db, owed, device, reader, unheard, noticed, budget>>
  BY Zenon DEF Answer, Retry, Fail
<1>2. PICK t : t = request[r]
  OBVIOUS
<1>3. CASE request' = [request EXCEPT ![r] = Idle]
  <2>1. request' \in [Request -> {Idle} \union Attempt]
    BY <1>3, SlotType
  <2>. QED
    BY <1>1, <2>1 DEF Types
<1>4. CASE Retry(r) /\ RetriesLeft(t)
  <2>1. PICK s : s = [t EXCEPT !.seen = db, !.counter = t.counter + 1]
    OBVIOUS
  <2>2. request' = [request EXCEPT ![r] = s] /\ t # Idle
    BY <1>2, <1>4, <2>1, Zenon DEF Retry
  <2>3. t \in Attempt /\ db \in Rows
    BY <1>2, <2>2 DEF Types
  <2>4. t.counter + 1 \in 0 .. MaxRetries
    BY <1>4, <2>3, AttemptFields, AccountsAssumption DEF RetriesLeft
  <2>5. s \in Attempt
    BY <2>1, <2>3, <2>4 DEF Attempt
  <2>6. request' \in [Request -> {Idle} \union Attempt]
    BY <2>2, <2>5, SlotType
  <2>. QED
    BY <1>1, <2>6 DEF Types
<1>. QED
  BY <1>2, <1>3, <1>4, Zenon DEF Answer, Retry, Fail

\* Numbering changes the sequence of an account and nothing else that is read.
LEMMA AllocateFields ==
    ASSUME Types, NEW o \in owed, AllocateUserSeq(o)
    PROVE  /\ db' \in Rows /\ db'.kv = db.kv /\ db'.rel = db.rel /\ db'.feed = db.feed
           /\ db'.feedSeq = db.feedSeq
           /\ \E n \in Owed : n.call = o.call /\ owed' = (owed \ {o}) \union {n}
<1>1. o \in Owed /\ db \in Rows
  BY DEF Types
<1>2. o.call \in Call
  BY <1>1 DEF Owed
<1>3. o.call.user \in User
  BY <1>2 DEF Call
<1>4. PICK S : S = [db.seq EXCEPT ![o.call.user] = @ + 1]
  OBVIOUS
<1>5. S \in [User -> Nat]
  BY <1>1, <1>3, <1>4, RowsFields
<1>6. db' = [db EXCEPT !.seq = S]
  BY <1>4, Zenon DEF AllocateUserSeq
<1>7. PICK z \in BOOLEAN : z = TRUE
  OBVIOUS
<1>8. PICK n : n = [o EXCEPT !.numbered = z]
  OBVIOUS
<1>9. n \in Owed /\ n.call = o.call
  BY <1>1, <1>8 DEF Owed
<1>10. owed' = (owed \ {o}) \union {n}
  BY <1>7, <1>8, Zenon DEF AllocateUserSeq
<1>11. db' \in Rows /\ db'.kv = db.kv /\ db'.rel = db.rel /\ db'.feed = db.feed
       /\ db'.feedSeq = db.feedSeq
  BY <1>1, <1>5, <1>6 DEF Rows
<1>. QED
  BY <1>9, <1>10, <1>11

\* AllocateUserSeq keeps the types.
LEMMA AllocateTypes ==
    ASSUME Types, NEW o \in owed, AllocateUserSeq(o)
    PROVE  Types'
<1>1. db' \in Rows
  BY AllocateFields
<1>2. PICK n \in Owed : owed' = (owed \ {o}) \union {n}
  BY AllocateFields
<1>3. UNCHANGED <<request, device, reader, unheard, noticed, budget>>
  BY Zenon DEF AllocateUserSeq
<1>. QED
  BY <1>1, <1>2, <1>3 DEF Types

\* The view of a device, key by key.
LEMMA AppliedType ==
    ASSUME NEW view \in [Key -> Entry], NEW changes \in Seq([key : Key, entry : Entry])
    PROVE  Applied(view, changes) \in [Key -> Entry]
<1>1. PICK after : after = Applied(view, changes)
  OBVIOUS
<1>2. ASSUME NEW k \in Key
      PROVE  after[k] \in Entry
  <2>1. PICK news : news = {i \in DOMAIN changes :
                      changes[i].key = k /\ changes[i].entry.version >= view[k].version}
    OBVIOUS
  <2>2. after[k] = IF news = {} THEN view[k]
                   ELSE changes[CHOOSE i \in news : \A j \in news : j <= i].entry
    BY <1>1, <2>1 DEF Applied
  <2>3. CASE news # {}
    <3>1. \E i \in news : \A j \in news : j <= i
      BY <2>1, <2>3, LastExists
    <3>2. PICK i \in news : i = CHOOSE x \in news : \A j \in news : j <= x
      BY <3>1
    <3>3. changes[i] \in [key : Key, entry : Entry]
      BY <2>1, ElementOfSeq, LenProperties
    <3>. QED
      BY <2>2, <2>3, <3>2, <3>3
  <2>. QED
    BY <2>2, <2>3
<1>3. after = [k \in Key |-> after[k]]
  BY <1>1 DEF Applied
<1>. QED
  BY <1>1, <1>2, <1>3, Zenon

\* A device.
Device == [on : BOOLEAN, view : [Key -> Entry]]

\* What an emitted update does to the device.
LEMMA EmitFields ==
    ASSUME Types, NEW o \in owed, Emit(o)
    PROVE  /\ device' \in Device /\ device'.on = device.on
           /\ device.on /\ "changes" \in DOMAIN o.call =>
                /\ o.call.changes \in Seq([key : Key, entry : Entry])
                /\ device'.view = Applied(device.view, o.call.changes)
           /\ ~(device.on /\ "changes" \in DOMAIN o.call) => device'.view = device.view
<1>1. o \in Owed /\ device \in Device
  BY DEF Types, Device
<1>2. o.call \in Call
  BY <1>1 DEF Owed
<1>3. CASE device.on /\ "changes" \in DOMAIN o.call
  <2>1. o.call.changes \in Seq([key : Key, entry : Entry])
    BY <1>2, <1>3 DEF Call
  <2>2. PICK V : V = Applied(device.view, o.call.changes)
    OBVIOUS
  <2>3. device.view \in [Key -> Entry]
    BY <1>1 DEF Device
  <2>4. V \in [Key -> Entry]
    BY <2>1, <2>2, <2>3, AppliedType
  <2>5. device' = [device EXCEPT !.view = V]
    BY <1>3, <2>2, Zenon DEF Emit
  <2>6. device' \in Device /\ device'.view = V /\ device'.on = device.on
    BY <1>1, <2>4, <2>5 DEF Device
  <2>. QED
    BY <1>3, <2>1, <2>2, <2>6
<1>4. CASE ~(device.on /\ "changes" \in DOMAIN o.call)
  <2>1. device' = device
    BY <1>4, Zenon DEF Emit
  <2>. QED
    BY <1>1, <1>4, <2>1
<1>. QED
  BY <1>3, <1>4

\* Emit keeps the types.
LEMMA EmitTypes ==
    ASSUME Types, NEW o \in owed, Emit(o)
    PROVE  Types'
<1>1. device' \in Device
  BY EmitFields
<1>2. owed' = owed \ {o} /\ UNCHANGED <<db, request, reader, unheard, noticed, budget>>
  BY Zenon DEF Emit
<1>. QED
  BY <1>1, <1>2 DEF Types, Device

\* A crash.
LEMMA CrashFields ==
    ASSUME Types, Crash
    PROVE  /\ device' \in Device /\ ~device'.on /\ device'.view = device.view
           /\ budget' \in Bounds /\ request' = [r \in Request |-> Idle] /\ owed' = {}
           /\ UNCHANGED <<db, reader, unheard, noticed>>
<1>1. device \in Device
  BY DEF Types, Device
<1>2. PICK z \in BOOLEAN : z = FALSE
  OBVIOUS
<1>3. device' = [device EXCEPT !.on = z]
  BY <1>2, Zenon DEF Crash
<1>4. device' \in Device /\ device'.on = z /\ device'.view = device.view
  BY <1>1, <1>3 DEF Device
<1>5. budget' \in Bounds
  <2>1. budget \in Bounds /\ budget.crashes > 0 /\ budget' = [budget EXCEPT !.crashes = @ - 1]
    BY DEF Types, Crash
  <2>. QED
    BY <2>1 DEF Bounds
<1>6. request' = [r \in Request |-> Idle] /\ owed' = {} /\ UNCHANGED <<db, reader, unheard, noticed>>
  BY Zenon DEF Crash
<1>. QED
  BY <1>2, <1>4, <1>5, <1>6

\* Crash keeps the types.
LEMMA CrashTypes ==
    ASSUME Types, Crash
    PROVE  Types'
<1>1. /\ device' \in Device /\ budget' \in Bounds
      /\ request' = [r \in Request |-> Idle] /\ owed' = {}
      /\ UNCHANGED <<db, reader, unheard, noticed>>
  BY CrashFields
<1>2. request' \in [Request -> {Idle} \union Attempt]
  BY <1>1
<1>. QED
  BY <1>1, <1>2 DEF Types, Device

\* A device that lists the store.
LEMMA JoinFields ==
    ASSUME Types, Join
    PROVE  /\ device' \in Device /\ ~device.on
           /\ \A k \in Key : device'.view[k] \in {NoEntry, db.kv[k]}
           /\ unheard' = {k \in Key : device'.view[k] # db.kv[k]}
           /\ UNCHANGED <<db, request, owed, reader, noticed, budget>>
<1>1. PICK V : V = KvList(db.kv)
  OBVIOUS
<1>2. NoEntry \in Entry
  BY DEF NoEntry, Entry
<1>3. \E S : V = [k \in Key |-> IF k \in S THEN db.kv[k] ELSE NoEntry]
  BY <1>1, Zenon DEF KvList
<1>4. V \in [Key -> Entry] /\ \A k \in Key : V[k] \in {NoEntry, db.kv[k]}
  BY <1>2, <1>3, RowsFields DEF Types
<1>5. PICK y \in BOOLEAN : y = TRUE
  OBVIOUS
<1>6. device' = [on |-> y, view |-> V] /\ unheard' = {k \in Key : V[k] # db.kv[k]}
  BY <1>1, <1>5, Zenon DEF Join
<1>7. device' \in Device /\ device'.view = V
  BY <1>4, <1>6 DEF Device
<1>8. ~device.on /\ UNCHANGED <<db, request, owed, reader, noticed, budget>>
  BY Zenon DEF Join
<1>. QED
  BY <1>4, <1>6, <1>7, <1>8

\* Join keeps the types.
LEMMA JoinTypes ==
    ASSUME Types, Join
    PROVE  Types'
<1>1. device' \in Device /\ unheard' \subseteq Key
      /\ UNCHANGED <<db, request, owed, reader, noticed, budget>>
  BY JoinFields
<1>. QED
  BY <1>1 DEF Types, Device

\* Reading the feed changes nothing but the reader.
LEMMA ReadTypes ==
    ASSUME Types, ReadFeed
    PROVE  Types'
<1>1. budget.pages > 0 /\ budget' = [budget EXCEPT !.pages = @ - 1] /\ budget \in Bounds
  BY Zenon DEF ReadFeed, Types
<1>2. budget' \in Bounds
  BY <1>1 DEF Bounds
<1>3. UNCHANGED <<db, request, owed, device, unheard, noticed>>
  BY Zenon DEF ReadFeed
<1>. QED
  BY <1>2, <1>3 DEF Types

\* A notification becomes old.
LEMMA DayFields ==
    ASSUME Types, NEW u \in User, NEW v \in User, DayPasses(u, v)
    PROVE  /\ db' \in Rows /\ db'.kv = db.kv /\ db'.feed = db.feed /\ db'.feedSeq = db.feedSeq
           /\ db'.rel[u][v].status = db.rel[u][v].status
           /\ \A a, b \in User : a # u \/ b # v => db'.rel[a][b] = db.rel[a][b]
           /\ noticed' \in [User -> [User -> Nat]] /\ noticed'[u][v] = 0
           /\ \A a, b \in User : a # u \/ b # v => noticed'[a][b] = noticed[a][b]
           /\ budget' \in Bounds
           /\ \A r \in Request : request[r] = Idle
           /\ UNCHANGED <<request, owed, device, reader, unheard>>
<1>1. db \in Rows /\ noticed \in [User -> [User -> Nat]]
  BY DEF Types
<1>2. PICK w : w = [db.rel[u][v] EXCEPT !.notified = "old"]
  OBVIOUS
<1>3. w \in Row /\ w.status = db.rel[u][v].status
  <2>1. db.rel[u][v] \in Row
    BY <1>1, RowsFields
  <2>. QED
    BY <1>2, <2>1 DEF Row, Notified
<1>4. PICK Q : Q = [db.rel EXCEPT ![u] = [db.rel[u] EXCEPT ![v] = w]]
  OBVIOUS
<1>5. /\ Q \in [User -> [User -> Row]] /\ Q[u][v] = w
      /\ \A a, b \in User : a # u \/ b # v => Q[a][b] = db.rel[a][b]
  BY <1>1, <1>3, <1>4, RowsFields, ReplaceRow
<1>6. db' = [db EXCEPT !.rel = Q]
  BY <1>2, <1>4, Zenon DEF DayPasses
<1>7. /\ db' \in Rows /\ db'.rel = Q /\ db'.kv = db.kv /\ db'.feed = db.feed
      /\ db'.feedSeq = db.feedSeq
  BY <1>1, <1>5, <1>6 DEF Rows
<1>8. noticed' = [noticed EXCEPT ![u][v] = 0]
  BY Zenon DEF DayPasses
<1>9. /\ noticed' \in [User -> [User -> Nat]] /\ noticed'[u][v] = 0
      /\ \A a, b \in User : a # u \/ b # v => noticed'[a][b] = noticed[a][b]
  BY <1>1, <1>8
<1>10. budget' \in Bounds
  <2>1. budget \in Bounds /\ budget.days > 0 /\ budget' = [budget EXCEPT !.days = @ - 1]
    BY Zenon DEF Types, DayPasses
  <2>. QED
    BY <2>1 DEF Bounds
<1>11. UNCHANGED <<request, owed, device, reader, unheard>> /\ \A r \in Request : request[r] = Idle
  BY Zenon DEF DayPasses
<1>. QED
  BY <1>3, <1>5, <1>7, <1>9, <1>10, <1>11

\* DayPasses keeps the types.
LEMMA DayTypes ==
    ASSUME Types, NEW u \in User, NEW v \in User, DayPasses(u, v)
    PROVE  Types'
<1>1. /\ db' \in Rows /\ noticed' \in [User -> [User -> Nat]] /\ budget' \in Bounds
      /\ UNCHANGED <<request, owed, device, reader, unheard>>
  BY DayFields
<1>. QED
  BY <1>1 DEF Types

\* Every step keeps the types.
LEMMA TypesNext ==
    ASSUME Types, Snapshots, [Next]_vars
    PROVE  Types'
<1>1. ASSUME NEW r \in Request,
             Submit(r) \/ Commit(r) \/ LoseAnswer(r) \/ Answer(r) \/ Retry(r) \/ Fail(r)
      PROVE  Types'
  BY <1>1, SubmitTypes, CommitTypes, EndTypes
<1>2. ASSUME NEW o \in owed, AllocateUserSeq(o) \/ Emit(o)
      PROVE  Types'
  BY <1>2, AllocateTypes, EmitTypes
<1>3. ASSUME NEW u \in User, NEW v \in User, DayPasses(u, v)
      PROVE  Types'
  BY <1>3, DayTypes
<1>4. CASE UNCHANGED vars
  BY <1>4 DEF Types, vars
<1>. QED
  BY <1>1, <1>2, <1>3, <1>4, CrashTypes, JoinTypes, ReadTypes DEF Next

-----------------------------------------------------------------------------
(* The rows.                                                               *)

\* A step commits, lets a day pass, or leaves the rows that are read alone.
StoreKept ==
    /\ db'.kv = db.kv /\ db'.rel = db.rel /\ db'.feed = db.feed /\ db'.feedSeq = db.feedSeq
    /\ noticed' = noticed

\* Steps by what they do to the rows.
LEMMA StoreSteps ==
    ASSUME Types, Snapshots, [Next]_vars
    PROVE  \/ \E r \in Request : Applies(r)
           \/ \E u, v \in User : DayPasses(u, v)
           \/ StoreKept
<1>1. ASSUME NEW r \in Request, Submit(r) \/ Answer(r) \/ Retry(r) \/ Fail(r)
      PROVE  StoreKept
  <2>1. UNCHANGED <<db, noticed>>
    BY <1>1, Zenon DEF Submit, Answer, Retry, Fail
  <2>. QED
    BY <2>1 DEF StoreKept
<1>2. ASSUME NEW o \in owed, AllocateUserSeq(o)
      PROVE  StoreKept
  <2>1. UNCHANGED noticed
    BY <1>2, Zenon DEF AllocateUserSeq
  <2>2. db'.kv = db.kv /\ db'.rel = db.rel /\ db'.feed = db.feed /\ db'.feedSeq = db.feedSeq
    BY <1>2, AllocateFields
  <2>. QED
    BY <2>1, <2>2 DEF StoreKept
<1>3. ASSUME NEW o \in owed, Emit(o)
      PROVE  StoreKept
  <2>1. UNCHANGED <<db, noticed>>
    BY <1>3, Zenon DEF Emit
  <2>. QED
    BY <2>1 DEF StoreKept
<1>4. ASSUME Crash \/ Join \/ ReadFeed \/ UNCHANGED vars
      PROVE  StoreKept
  <2>1. UNCHANGED <<db, noticed>>
    BY <1>4, Zenon DEF Crash, Join, ReadFeed, vars
  <2>. QED
    BY <2>1 DEF StoreKept
<1>5. ASSUME NEW r \in Request, Commit(r) \/ LoseAnswer(r)
      PROVE  Applies(r)
  BY <1>5, Zenon DEF Commit, LoseAnswer
<1>. QED
  BY <1>1, <1>2, <1>3, <1>4, <1>5, Zenon DEF Next

\* The fields of a friend request's draft that the feeds depend on.
LEMMA FriendFeeds ==
    ASSUME Types, NEW q, CommitsTo(q), FriendDraft(q), NEW x \in User
    PROVE  \/ db'.feedSeq[x] = db.feedSeq[x] /\ db'.feed[x] = db.feed[x]
           \/ \E key \in RepeatKey :
                /\ db'.feedSeq[x] = db.feedSeq[x] + 1
                /\ db'.feed[x] = Posted(db.feed[x], db.feedSeq[x], key)
<1>1. PICK op \in {"add", "remove"}, u \in User, v \in User : Effect(op, db, q, u, v)
  BY DEF FriendDraft
<1>2. PICK mine, theirs, told : Reached(db, q, u, v, mine, theirs, told)
  BY <1>1 DEF Effect
<1>3. PostKey(u, v, db.rel[v][u], x) \in RepeatKey
  BY DEF PostKey, RepeatKey
<1>4. db'.feedSeq = q.feedSeq /\ db'.feed = q.feed
  BY DEF CommitsTo
<1>. QED
  BY <1>2, <1>3, <1>4 DEF Reached

\* What a commit does to a feed: nothing, or a post.
LEMMA CommitFeeds ==
    ASSUME Types, NEW q, CommitsTo(q), FriendDraft(q) \/ BatchDraft(q), NEW x \in User
    PROVE  \/ db'.feedSeq[x] = db.feedSeq[x] /\ db'.feed[x] = db.feed[x]
           \/ \E key \in RepeatKey :
                /\ db'.feedSeq[x] = db.feedSeq[x] + 1
                /\ db'.feed[x] = Posted(db.feed[x], db.feedSeq[x], key)
<1>1. CASE BatchDraft(q)
  BY <1>1 DEF BatchDraft, IsMutated, CommitsTo
<1>. QED
  BY <1>1, FriendFeeds

\* Feeds stay finite and numbered by the counter.
LEMMA FeedsNext ==
    ASSUME Types, Snapshots, Feeds, [Next]_vars
    PROVE  Feeds'
<1>1. CASE \E r \in Request : Applies(r)
  <2>1. PICK q : CommitsTo(q) /\ (FriendDraft(q) \/ BatchDraft(q))
    BY <1>1, CommitMeans
  <2>2. ASSUME NEW x \in User
        PROVE  IsFiniteSet(db'.feed[x]) /\ \A i \in db'.feed[x] : i.counter <= db'.feedSeq[x]
    <3>1. IsFiniteSet(db.feed[x]) /\ \A i \in db.feed[x] : i.counter <= db.feedSeq[x]
      BY DEF Feeds
    <3>2. CASE db'.feedSeq[x] = db.feedSeq[x] /\ db'.feed[x] = db.feed[x]
      BY <3>1, <3>2
    <3>3. ASSUME NEW key \in RepeatKey,
                 db'.feedSeq[x] = db.feedSeq[x] + 1,
                 db'.feed[x] = Posted(db.feed[x], db.feedSeq[x], key)
          PROVE  IsFiniteSet(db'.feed[x]) /\ \A i \in db'.feed[x] : i.counter <= db'.feedSeq[x]
      <4>1. PICK rest : rest = {i \in db.feed[x] : i.key # key}
        OBVIOUS
      <4>2. PICK item : item = [counter |-> db.feedSeq[x] + 1, key |-> key]
        OBVIOUS
      <4>3. db'.feed[x] = rest \union {item}
        BY <3>3, <4>1, <4>2 DEF Posted
      <4>4. IsFiniteSet(rest)
        BY <3>1, <4>1, FS_Subset
      <4>5. IsFiniteSet(rest \union {item})
        BY <4>4, FS_AddElement
      <4>6. db.feedSeq[x] \in Nat /\ db.feed[x] \subseteq Item
        BY RowsFields DEF Types
      <4>7. \A i \in rest : i.counter \in Nat /\ i.counter <= db.feedSeq[x]
        BY <3>1, <4>1, <4>6 DEF Item
      <4>8. item.counter = db.feedSeq[x] + 1
        BY <4>2
      <4>. QED
        BY <3>3, <4>3, <4>5, <4>6, <4>7, <4>8
    <3>. QED
      BY <2>1, <3>2, <3>3, CommitFeeds
  <2>. QED
    BY <2>2 DEF Feeds
<1>2. CASE \E u, v \in User : DayPasses(u, v)
  <2>1. db'.feed = db.feed /\ db'.feedSeq = db.feedSeq
    BY <1>2, DayFields
  <2>. QED
    BY <2>1 DEF Feeds
<1>3. CASE StoreKept
  BY <1>3 DEF Feeds, StoreKept
<1>. QED
  BY <1>1, <1>2, <1>3, StoreSteps

\* What a commit does to a key: nothing, or the next version.
LEMMA CommitKeys ==
    ASSUME Types, NEW q, CommitsTo(q), FriendDraft(q) \/ BatchDraft(q), NEW k \in Key
    PROVE  /\ db.kv[k] \in Entry /\ db'.kv[k] \in Entry
           /\ \/ db'.kv[k] = db.kv[k]
              \/ db'.kv[k].version = db.kv[k].version + 1 /\ db'.kv[k].value # Empty
<1>1. db.kv[k] \in Entry /\ db'.kv[k] \in Entry
  <2>1. db \in Rows /\ db' \in Rows
    BY DEF Types, CommitsTo
  <2>. QED
    BY <2>1, RowsFields
<1>2. CASE FriendDraft(q)
  <2>1. PICK op \in {"add", "remove"}, u \in User, v \in User : Effect(op, db, q, u, v)
    BY <1>2 DEF FriendDraft
  <2>2. q.kv = db.kv
    BY <2>1, Zenon DEF Effect, Reached
  <2>. QED
    BY <1>1, <2>2 DEF CommitsTo
<1>3. CASE BatchDraft(q)
  <2>1. PICK batch \in Seq(Mutation) : Mismatches(db.kv, batch) = {} /\ IsMutated(db, q, batch)
    BY <1>3 DEF BatchDraft
  <2>2. PICK after : after = Mutate(db.kv, batch)
    OBVIOUS
  <2>3. db'.kv = after /\ db.kv \in [Key -> Entry]
    BY <2>1, <2>2, RowsFields DEF IsMutated, CommitsTo, Types
  <2>4. CASE \A i \in DOMAIN batch : batch[i].key # k
    <3>1. after[k] = db.kv[k]
      BY <2>2, <2>3, <2>4, MutateEffect
    <3>. QED
      BY <1>1, <2>3, <3>1
  <2>5. CASE \E i \in DOMAIN batch : batch[i].key = k
    <3>1. PICK i \in DOMAIN batch : batch[i].key = k /\ after[k] = After(batch[i])
      BY <2>2, <2>3, <2>5, MutateEffect
    <3>2. batch[i] \in Mutation
      BY ElementOfSeq, LenProperties
    <3>3. db.kv[k].version = batch[i].version
      BY <2>1, <3>1 DEF Mismatches
    <3>. QED
      BY <1>1, <2>3, <3>1, <3>2, <3>3, AfterFields
  <2>. QED
    BY <2>4, <2>5
<1>. QED
  BY <1>2, <1>3

\* Only a row that was never written has version -1.
LEMMA VersionsNext ==
    ASSUME Types, Snapshots, Versions, [Next]_vars
    PROVE  Versions'
<1>1. CASE \E r \in Request : Applies(r)
  <2>1. PICK q : CommitsTo(q) /\ (FriendDraft(q) \/ BatchDraft(q))
    BY <1>1, CommitMeans
  <2>2. ASSUME NEW k \in Key
        PROVE  /\ db'.kv[k].version >= -1 /\ (db'.kv[k].version = -1 => db'.kv[k] = NoEntry)
               /\ db'.kv[k].value # Empty
    <3>1. /\ db.kv[k] \in Entry /\ db'.kv[k] \in Entry
          /\ \/ db'.kv[k] = db.kv[k]
             \/ db'.kv[k].version = db.kv[k].version + 1 /\ db'.kv[k].value # Empty
      BY <2>1, CommitKeys
    <3>2. /\ db.kv[k].version >= -1 /\ (db.kv[k].version = -1 => db.kv[k] = NoEntry)
          /\ db.kv[k].value # Empty
      BY DEF Versions
    <3>. QED
      BY <3>1, <3>2 DEF Entry
  <2>. QED
    BY <2>2 DEF Versions
<1>2. CASE \E u, v \in User : DayPasses(u, v)
  <2>1. db'.kv = db.kv
    BY <1>2, DayFields
  <2>. QED
    BY <2>1 DEF Versions
<1>3. CASE StoreKept
  BY <1>3 DEF Versions, StoreKept
<1>. QED
  BY <1>1, <1>2, <1>3, StoreSteps

\* The pairs of statuses that agree, in either order.
Agree(a, b) ==
    \/ a = b /\ a \in {"none", "friend", "rejected"}
    \/ <<a, b>> \in {<<"requested", "pending">>, <<"requested", "rejected">>,
                     <<"rejected", "pending">>, <<"rejected", "none">>}
    \/ <<b, a>> \in {<<"requested", "pending">>, <<"requested", "rejected">>,
                     <<"rejected", "pending">>, <<"rejected", "none">>}

\* That is AgreeingPairs.
LEMMA AgreeMeans ==
    ASSUME NEW a, NEW b
    PROVE  {a, b} \in AgreeingPairs <=> Agree(a, b)
<1>1. ASSUME NEW c
      PROVE  {a, b} = {c} <=> a = c /\ b = c
  OBVIOUS
<1>2. ASSUME NEW c, NEW d, c # d
      PROVE  {a, b} = {c, d} <=> (a = c /\ b = d) \/ (a = d /\ b = c)
  <2>1. {a, b} = {c, d} => (a = c /\ b = d) \/ (a = d /\ b = c)
    <3>1. SUFFICES ASSUME {a, b} = {c, d}
                   PROVE  (a = c /\ b = d) \/ (a = d /\ b = c)
      OBVIOUS
    <3>2. a \in {c, d} /\ b \in {c, d} /\ c \in {a, b} /\ d \in {a, b}
      BY <3>1
    <3>. QED
      BY <1>2, <3>2
  <2>. QED
    BY <2>1
<1>3. {a, b} \in AgreeingPairs <=>
        \/ {a, b} = {"none"} \/ {a, b} = {"friend"} \/ {a, b} = {"rejected"}
        \/ {a, b} = {"requested", "pending"} \/ {a, b} = {"requested", "rejected"}
        \/ {a, b} = {"rejected", "pending"} \/ {a, b} = {"rejected", "none"}
  BY Zenon DEF AgreeingPairs
<1>4. /\ {a, b} = {"none"} <=> (a = "none" /\ b = "none")
      /\ {a, b} = {"friend"} <=> (a = "friend" /\ b = "friend")
      /\ {a, b} = {"rejected"} <=> (a = "rejected" /\ b = "rejected")
  BY <1>1, Zenon
<1>5. {a, b} = {"requested", "pending"} <=>
        (a = "requested" /\ b = "pending") \/ (a = "pending" /\ b = "requested")
  <2>1. "requested" # "pending"
    OBVIOUS
  <2>. QED
    BY <1>2, <2>1, Zenon
<1>6. {a, b} = {"requested", "rejected"} <=>
        (a = "requested" /\ b = "rejected") \/ (a = "rejected" /\ b = "requested")
  <2>1. "requested" # "rejected"
    OBVIOUS
  <2>. QED
    BY <1>2, <2>1, Zenon
<1>7. {a, b} = {"rejected", "pending"} <=>
        (a = "rejected" /\ b = "pending") \/ (a = "pending" /\ b = "rejected")
  <2>1. "rejected" # "pending"
    OBVIOUS
  <2>. QED
    BY <1>2, <2>1, Zenon
<1>8. {a, b} = {"rejected", "none"} <=>
        (a = "rejected" /\ b = "none") \/ (a = "none" /\ b = "rejected")
  <2>1. "rejected" # "none"
    OBVIOUS
  <2>. QED
    BY <1>2, <2>1, Zenon
<1>9. Agree(a, b) <=>
        \/ (a = "none" /\ b = "none") \/ (a = "friend" /\ b = "friend")
        \/ (a = "rejected" /\ b = "rejected")
        \/ (a = "requested" /\ b = "pending") \/ (a = "pending" /\ b = "requested")
        \/ (a = "requested" /\ b = "rejected") \/ (a = "rejected" /\ b = "requested")
        \/ (a = "rejected" /\ b = "pending") \/ (a = "pending" /\ b = "rejected")
        \/ (a = "rejected" /\ b = "none") \/ (a = "none" /\ b = "rejected")
  BY DEF Agree
<1>. QED
  BY <1>3, <1>4, <1>5, <1>6, <1>7, <1>8, <1>9, PTL

\* A request of either side leads from agreeing statuses to agreeing ones.
LEMMA StatusesAgree ==
    ASSUME NEW op \in {"add", "remove"}, NEW a, NEW b, Agree(a, b)
    PROVE  /\ Agree(MyStatus(op, a, b), TheirStatus(op, a, b))
           /\ Agree(TheirStatus(op, a, b), MyStatus(op, a, b))
BY DEF Agree, MyStatus, TheirStatus

\* The rows of every pair keep agreeing.
LEMMA PairsNext ==
    ASSUME Types, Snapshots, Pairs, [Next]_vars
    PROVE  Pairs'
<1>0. \A x, y \in User : x # y => Agree(db.rel[x][y].status, db.rel[y][x].status)
  BY AgreeMeans DEF Pairs
<1>1. CASE \E r \in Request : Applies(r)
  <2>1. PICK q : CommitsTo(q) /\ (FriendDraft(q) \/ BatchDraft(q))
    BY <1>1, CommitMeans
  <2>2. db'.rel = q.rel
    BY <2>1 DEF CommitsTo
  <2>3. CASE FriendDraft(q)
    <3>1. PICK op \in {"add", "remove"}, u \in User, v \in User : u # v /\ Effect(op, db, q, u, v)
      BY <2>3 DEF FriendDraft
    <3>2. PICK a : a = db.rel[u][v].status
      OBVIOUS
    <3>3. PICK b : b = db.rel[v][u].status
      OBVIOUS
    <3>4. PICK mine : mine = MyStatus(op, a, b)
      OBVIOUS
    <3>5. PICK theirs : theirs = TheirStatus(op, a, b)
      OBVIOUS
    <3>6. PICK told : Reached(db, q, u, v, mine, theirs, told)
      BY <3>1, <3>2, <3>3, <3>4, <3>5 DEF Effect
    <3>7. /\ q.rel[u][v].status = mine /\ q.rel[v][u].status = theirs
          /\ \A x, y \in User :
               (x # u \/ y # v) /\ (x # v \/ y # u) => q.rel[x][y] = db.rel[x][y]
      BY <3>6 DEF Reached
    <3>8. Agree(a, b)
      BY <1>0, <3>1, <3>2, <3>3
    <3>9. Agree(mine, theirs) /\ Agree(theirs, mine)
      BY <3>4, <3>5, <3>8, StatusesAgree
    <3>10. ASSUME NEW x \in User, NEW y \in User, x # y
           PROVE  Agree(q.rel[x][y].status, q.rel[y][x].status)
      <4>1. CASE x = u /\ y = v
        BY <3>7, <3>9, <4>1
      <4>2. CASE x = v /\ y = u
        BY <3>7, <3>9, <4>2
      <4>3. CASE (x # u \/ y # v) /\ (x # v \/ y # u)
        BY <1>0, <3>7, <3>10, <4>3
      <4>. QED
        BY <4>1, <4>2, <4>3
    <3>. QED
      BY <2>2, <3>10, AgreeMeans DEF Pairs
  <2>4. CASE BatchDraft(q)
    <3>1. q.rel = db.rel
      BY <2>4 DEF BatchDraft, IsMutated
    <3>. QED
      BY <2>2, <3>1 DEF Pairs
  <2>. QED
    BY <2>1, <2>3, <2>4
<1>2. CASE \E u, v \in User : DayPasses(u, v)
  <2>1. PICK u \in User, v \in User : DayPasses(u, v)
    BY <1>2
  <2>2. \A x, y \in User : db'.rel[x][y].status = db.rel[x][y].status
    BY <2>1, DayFields
  <2>. QED
    BY <2>2 DEF Pairs
<1>3. CASE StoreKept
  BY <1>3 DEF Pairs, StoreKept
<1>. QED
  BY <1>1, <1>2, <1>3, StoreSteps

\* At most one call tells a user about another, and only one that was not told.
LEMMA PostsOnce ==
    ASSUME Types, NEW q, CommitsTo(q), FriendDraft(q), NEW x \in User, NEW y \in User
    PROVE  \/ /\ Cardinality(PostsAmong(q.calls, x, y)) <= 1
              /\ db.rel[x][y].notified # "recent" /\ db'.rel[x][y].notified = "recent"
           \/ /\ Cardinality(PostsAmong(q.calls, x, y)) = 0
              /\ db'.rel[x][y].notified = db.rel[x][y].notified
<1>1. PICK op \in {"add", "remove"}, u \in User, v \in User : u # v /\ Effect(op, db, q, u, v)
  BY DEF FriendDraft
<1>2. PICK told : told = Told(op, u, v, db.rel[u][v], db.rel[v][u])
  OBVIOUS
<1>3. PICK mine, theirs : Reached(db, q, u, v, mine, theirs, told)
  BY <1>1, <1>2 DEF Effect
<1>4. /\ u \in told => db.rel[u][v].notified # "recent"
      /\ v \in told => db.rel[v][u].notified # "recent"
      /\ told \subseteq {u, v}
  BY <1>1, <1>2 DEF Told, TellsMe, TellsThem
<1>5. /\ q.rel[u][v].notified = IF u \in told THEN "recent" ELSE db.rel[u][v].notified
      /\ q.rel[v][u].notified = IF v \in told THEN "recent" ELSE db.rel[v][u].notified
      /\ \A a, b \in User :
           (a # u \/ b # v) /\ (a # v \/ b # u) => q.rel[a][b] = db.rel[a][b]
  BY <1>3, Zenon DEF Reached
<1>6. q.calls \in Seq(Call) /\ db'.rel = q.rel
  BY DraftFields DEF CommitsTo
<1>7. Announces(q.calls, told, db.feedSeq, u, v, db.rel[v][u])
  BY <1>3, Zenon DEF Reached
<1>8. PICK P : P = PostsAmong(q.calls, x, y)
  OBVIOUS
<1>9. ASSUME NEW i \in P
      PROVE  x \in told /\ y = IF x = u THEN v ELSE u
  <2>1. i \in DOMAIN q.calls /\ q.calls[i].user = x /\ q.calls[i].item.key[2] = y
    BY <1>8 DEF PostsAmong
  <2>2. PICK z \in told : q.calls[i] = PostCall(z, db.feedSeq[z], PostKey(u, v, db.rel[v][u], z))
    BY <1>7, <2>1 DEF Announces
  <2>3. x = z /\ q.calls[i].item.key = PostKey(u, v, db.rel[v][u], z)
    BY <2>1, <2>2 DEF PostCall
  <2>4. PostKey(u, v, db.rel[v][u], z)[2] = IF z = u THEN v ELSE u
    BY DEF PostKey
  <2>. QED
    BY <2>1, <2>3, <2>4
<1>10. CASE x \in told /\ y = IF x = u THEN v ELSE u
  <2>1. db.rel[x][y].notified # "recent" /\ db'.rel[x][y].notified = "recent"
    BY <1>4, <1>5, <1>6, <1>10
  <2>2. Cardinality(P) <= 1
    <3>1. CASE P = {}
      BY <3>1, FS_EmptySet
    <3>2. CASE P # {}
      <4>1. PICK i : i \in P
        BY <3>2
      <4>2. ASSUME NEW j \in P
            PROVE  j = i
        <5>1. /\ i \in DOMAIN q.calls /\ q.calls[i].user = x
              /\ j \in DOMAIN q.calls /\ q.calls[j].user = x
          BY <1>8, <4>1 DEF PostsAmong
        <5>. QED
          BY <1>7, <5>1 DEF Announces
      <4>3. P = {i}
        BY <4>1, <4>2
      <4>4. Cardinality({i}) = 1
        BY FS_Singleton, Zenon
      <4>. QED
        BY <4>3, <4>4
    <3>. QED
      BY <3>1, <3>2
  <2>. QED
    BY <1>8, <2>1, <2>2
<1>11. CASE ~(x \in told /\ y = IF x = u THEN v ELSE u)
  <2>1. P = {}
    BY <1>9, <1>11
  <2>2. Cardinality(P) = 0
    BY <2>1, FS_EmptySet
  <2>3. db'.rel[x][y].notified = db.rel[x][y].notified
    <3>1. CASE x = u /\ y = v
      BY <1>5, <1>6, <1>11, <3>1
    <3>2. CASE x = v /\ y = u
      BY <1>1, <1>5, <1>6, <1>11, <3>2
    <3>3. CASE (x # u \/ y # v) /\ (x # v \/ y # u)
      BY <1>5, <1>6, <3>3
    <3>. QED
      BY <3>1, <3>2, <3>3
  <2>. QED
    BY <1>8, <2>2, <2>3
<1>. QED
  BY <1>10, <1>11

\* Nobody is told twice in 24 hours.
LEMMA CooldownNext ==
    ASSUME Types, Snapshots, Cooldown, [Next]_vars
    PROVE  Cooldown'
<1>0. ASSUME NEW x \in User, NEW y \in User
      PROVE  /\ noticed[x][y] \in Nat
             /\ noticed[x][y] <= IF db.rel[x][y].notified = "recent" THEN 1 ELSE 0
  BY DEF Types, Cooldown
<1>1. CASE \E r \in Request : Applies(r)
  <2>1. PICK q : CommitsTo(q) /\ (FriendDraft(q) \/ BatchDraft(q))
    BY <1>1, CommitMeans
  <2>2. ASSUME NEW x \in User, NEW y \in User
        PROVE  noticed'[x][y] <= IF db'.rel[x][y].notified = "recent" THEN 1 ELSE 0
    <3>1. PICK n : n = Cardinality(PostsAmong(q.calls, x, y))
      OBVIOUS
    <3>2. noticed'[x][y] = noticed[x][y] + n
      BY <2>1, <3>1 DEF CommitsTo
    <3>3. n \in Nat
      <4>1. q.calls \in Seq(Call)
        BY <2>1, DraftFields DEF CommitsTo
      <4>. QED
        BY <3>1, <4>1, PostsFinite
    <3>4. CASE FriendDraft(q)
      <4>1. \/ n <= 1 /\ db.rel[x][y].notified # "recent" /\ db'.rel[x][y].notified = "recent"
            \/ n = 0 /\ db'.rel[x][y].notified = db.rel[x][y].notified
        BY <2>1, <3>1, <3>4, PostsOnce
      <4>. QED
        BY <1>0, <3>2, <3>3, <4>1
    <3>5. CASE BatchDraft(q)
      <4>1. PICK batch \in Seq(Mutation) : IsMutated(db, q, batch)
        BY <3>5 DEF BatchDraft
      <4>2. q.rel = db.rel /\ q.calls = <<[user |-> Owner, changes |-> Changes(batch)]>>
        BY <4>1 DEF IsMutated
      <4>3. PostsAmong(q.calls, x, y) = {}
        <5>1. PICK c : c = [user |-> Owner, changes |-> Changes(batch)]
          OBVIOUS
        <5>2. "item" \notin DOMAIN c
          BY <5>1
        <5>3. q.calls = <<c>>
          BY <4>2, <5>1
        <5>4. \A i \in DOMAIN q.calls : q.calls[i] = c
          BY <5>3
        <5>. QED
          BY <5>2, <5>4 DEF PostsAmong
      <4>4. n = 0
        BY <3>1, <4>3, FS_EmptySet
      <4>5. db'.rel = db.rel
        BY <2>1, <4>2 DEF CommitsTo
      <4>. QED
        BY <1>0, <3>2, <4>4, <4>5
    <3>. QED
      BY <2>1, <3>4, <3>5
  <2>. QED
    BY <2>2 DEF Cooldown
<1>2. CASE \E u, v \in User : DayPasses(u, v)
  <2>1. PICK u \in User, v \in User : DayPasses(u, v)
    BY <1>2
  <2>2. /\ noticed'[u][v] = 0
        /\ \A a, b \in User : a # u \/ b # v =>
             noticed'[a][b] = noticed[a][b] /\ db'.rel[a][b] = db.rel[a][b]
    BY <2>1, DayFields
  <2>3. ASSUME NEW x \in User, NEW y \in User
        PROVE  noticed'[x][y] <= IF db'.rel[x][y].notified = "recent" THEN 1 ELSE 0
    BY <1>0, <2>2
  <2>. QED
    BY <2>3 DEF Cooldown
<1>3. CASE StoreKept
  BY <1>3 DEF Cooldown, StoreKept
<1>. QED
  BY <1>1, <1>2, <1>3, StoreSteps

\* A feed and its counter change together, and the counter grows.
LEMMA FeedGrows ==
    ASSUME Types, Snapshots, [Next]_vars, NEW x \in User
    PROVE  /\ db.feedSeq[x] \in Nat /\ db'.feedSeq[x] \in Nat
           /\ db.feedSeq[x] <= db'.feedSeq[x]
           /\ db.feedSeq[x] = db'.feedSeq[x] => db.feed[x] = db'.feed[x]
<1>0. db.feedSeq[x] \in Nat /\ db'.feedSeq[x] \in Nat
  <2>1. db \in Rows /\ db' \in Rows
    BY TypesNext DEF Types
  <2>. QED
    BY <2>1, RowsFields
<1>1. CASE \E r \in Request : Applies(r)
  <2>1. PICK q : CommitsTo(q) /\ (FriendDraft(q) \/ BatchDraft(q))
    BY <1>1, CommitMeans
  <2>2. \/ db'.feedSeq[x] = db.feedSeq[x] /\ db'.feed[x] = db.feed[x]
        \/ db'.feedSeq[x] = db.feedSeq[x] + 1
    BY <2>1, CommitFeeds
  <2>. QED
    BY <1>0, <2>2
<1>2. CASE \E u, v \in User : DayPasses(u, v)
  <2>1. db'.feed = db.feed /\ db'.feedSeq = db.feedSeq
    BY <1>2, DayFields
  <2>. QED
    BY <1>0, <2>1
<1>3. CASE StoreKept
  BY <1>0, <1>3 DEF StoreKept
<1>. QED
  BY <1>1, <1>2, <1>3, StoreSteps

\* The two sides of a request differ.
TwoSides(o) == o.op # "mutate" => o.from # o.to

\* A request being handled was so before, or has just read the rows.
LEMMA RequestSteps ==
    ASSUME Types, Snapshots, [Next]_vars, NEW x \in Request, request'[x] # Idle
    PROVE  \/ request'[x] = request[x] /\ request[x] # Idle
           \/ db' = db /\ request'[x].seen = db /\ TwoSides(request'[x].op)
<1>0. request \in [Request -> {Idle} \union Attempt]
  BY DEF Types
<1>1. ASSUME NEW r \in Request, Submit(r)
      PROVE  \/ request'[x] = request[x] /\ request[x] # Idle
             \/ db' = db /\ request'[x].seen = db /\ TwoSides(request'[x].op)
  <2>1. PICK o \in Inputs :
          request' = [request EXCEPT ![r] = [at |-> "open", op |-> o, seen |-> db, counter |-> 0]]
    BY <1>1, Zenon DEF Submit
  <2>2. TwoSides(o) /\ db' = db
    BY <1>1, InputsOperation DEF TwoSides, Submit
  <2>3. PICK t : t = [at |-> "open", op |-> o, seen |-> db, counter |-> 0]
    OBVIOUS
  <2>4. t.seen = db /\ t.op = o
    BY <2>3
  <2>5. request' = [request EXCEPT ![r] = t]
    BY <2>1, <2>3
  <2>. QED
    BY <1>0, <2>2, <2>4, <2>5
<1>2. ASSUME NEW r \in Request, request' = [request EXCEPT ![r] = Idle]
      PROVE  request'[x] = request[x] /\ request[x] # Idle
  BY <1>0, <1>2
<1>3. ASSUME NEW r \in Request, Retry(r)
      PROVE  \/ request'[x] = request[x] /\ request[x] # Idle
             \/ db' = db /\ request'[x].seen = db /\ TwoSides(request'[x].op)
  <2>1. PICK t : t = request[r]
    OBVIOUS
  <2>2. PICK s : s = [t EXCEPT !.seen = db, !.counter = t.counter + 1]
    OBVIOUS
  <2>3. t # Idle /\ db' = db /\ request' = [request EXCEPT ![r] = IF RetriesLeft(t) THEN s ELSE Idle]
    BY <1>3, <2>1, <2>2, Zenon DEF Retry
  <2>4. t \in Attempt /\ GoodSnapshot(t)
    BY <2>1, <2>3, AttemptOf
  <2>5. s.seen = db /\ s.op = t.op
    BY <2>2, <2>4 DEF Attempt
  <2>6. TwoSides(s.op)
    BY <2>4, <2>5 DEF TwoSides, GoodSnapshot
  <2>7. CASE RetriesLeft(t)
    <3>1. request' = [request EXCEPT ![r] = s]
      BY <2>3, <2>7
    <3>. QED
      BY <1>0, <2>3, <2>5, <2>6, <3>1
  <2>8. CASE ~RetriesLeft(t)
    BY <1>2, <2>3, <2>8
  <2>. QED
    BY <2>7, <2>8
<1>4. ASSUME NEW r \in Request, Commit(r) \/ LoseAnswer(r) \/ Answer(r) \/ Fail(r)
      PROVE  request'[x] = request[x] /\ request[x] # Idle
  <2>1. request' = [request EXCEPT ![r] = Idle]
    BY <1>4, Zenon DEF Commit, LoseAnswer, Applies, Answer, Fail
  <2>. QED
    BY <1>2, <2>1
<1>5. ASSUME request' = request
      PROVE  request'[x] = request[x] /\ request[x] # Idle
  BY <1>5
<1>6. CASE Crash
  BY <1>6, CrashFields
<1>7. ASSUME NEW o \in owed, AllocateUserSeq(o) \/ Emit(o)
      PROVE  request' = request
  BY <1>7, Zenon DEF AllocateUserSeq, Emit
<1>8. ASSUME NEW u \in User, NEW v \in User, DayPasses(u, v)
      PROVE  request' = request
  BY <1>8, Zenon DEF DayPasses
<1>9. ASSUME Join \/ ReadFeed \/ UNCHANGED vars
      PROVE  request' = request
  BY <1>9, Zenon DEF Join, ReadFeed, vars
<1>. QED
  BY <1>1, <1>3, <1>4, <1>5, <1>6, <1>7, <1>8, <1>9, Zenon DEF Next

\* Snapshots stay of the past.
LEMMA SnapshotsNext ==
    ASSUME Types, Snapshots, [Next]_vars
    PROVE  Snapshots'
<1>1. ASSUME NEW x \in Request, request'[x] # Idle
      PROVE  /\ request'[x].op.op # "mutate" => request'[x].op.from # request'[x].op.to
             /\ \A u \in User :
                  /\ request'[x].seen.feedSeq[u] <= db'.feedSeq[u]
                  /\ request'[x].seen.feedSeq[u] = db'.feedSeq[u] =>
                       request'[x].seen.feed[u] = db'.feed[u]
  <2>0. \/ request'[x] = request[x] /\ request[x] # Idle
        \/ db' = db /\ request'[x].seen = db /\ TwoSides(request'[x].op)
    BY <1>1, RequestSteps
  <2>1. CASE request'[x] = request[x] /\ request[x] # Idle
    <3>1. PICK t \in Attempt : t = request[x] /\ GoodSnapshot(t)
      BY <2>1, AttemptOf
    <3>2. t.op.op # "mutate" => t.op.from # t.op.to
      BY <3>1 DEF GoodSnapshot
    <3>3. ASSUME NEW u \in User
          PROVE  /\ t.seen.feedSeq[u] <= db'.feedSeq[u]
                 /\ t.seen.feedSeq[u] = db'.feedSeq[u] => t.seen.feed[u] = db'.feed[u]
      <4>1. t.seen.feedSeq[u] \in Nat
        BY AttemptFields, RowsFields
      <4>2. /\ t.seen.feedSeq[u] <= db.feedSeq[u]
            /\ t.seen.feedSeq[u] = db.feedSeq[u] => t.seen.feed[u] = db.feed[u]
        BY <3>1 DEF GoodSnapshot
      <4>3. /\ db.feedSeq[u] \in Nat /\ db'.feedSeq[u] \in Nat
            /\ db.feedSeq[u] <= db'.feedSeq[u]
            /\ db.feedSeq[u] = db'.feedSeq[u] => db.feed[u] = db'.feed[u]
        BY FeedGrows
      <4>. QED
        BY <4>1, <4>2, <4>3
    <3>. QED
      BY <2>1, <3>1, <3>2, <3>3
  <2>2. CASE db' = db /\ request'[x].seen = db /\ TwoSides(request'[x].op)
    <3>1. \A u \in User : db.feedSeq[u] \in Nat
      BY RowsFields DEF Types
    <3>. QED
      BY <2>2, <3>1 DEF TwoSides
  <2>. QED
    BY <2>0, <2>1, <2>2
<1>. QED
  BY <1>1 DEF Snapshots

-----------------------------------------------------------------------------
(* The notifications and the device.                                       *)

\* What a step does to a key: nothing, or the next version.
LEMMA KeySteps ==
    ASSUME Types, Snapshots, [Next]_vars, NEW k \in Key
    PROVE  /\ db.kv[k] \in Entry /\ db'.kv[k] \in Entry
           /\ db'.kv[k] = db.kv[k] \/ db'.kv[k].version = db.kv[k].version + 1
<1>0. db.kv[k] \in Entry
  BY RowsFields DEF Types
<1>1. CASE \E r \in Request : Applies(r)
  <2>1. PICK q : CommitsTo(q) /\ (FriendDraft(q) \/ BatchDraft(q))
    BY <1>1, CommitMeans
  <2>. QED
    BY <2>1, CommitKeys
<1>2. CASE \E u, v \in User : DayPasses(u, v)
  <2>1. db'.kv = db.kv
    BY <1>2, DayFields
  <2>. QED
    BY <1>0, <2>1
<1>3. CASE StoreKept
  BY <1>0, <1>3 DEF StoreKept
<1>. QED
  BY <1>1, <1>2, <1>3, StoreSteps

\* What happened stays in the past.
LEMMA HappenedStays ==
    ASSUME Types, Snapshots, [Next]_vars, NEW k \in Key, NEW e \in Entry, Happened(k, e)
    PROVE  /\ e.version <= db'.kv[k].version
           /\ e.version = db'.kv[k].version => Shows(e, db'.kv[k])
<1>1. /\ db.kv[k] \in Entry /\ db'.kv[k] \in Entry
      /\ db'.kv[k] = db.kv[k] \/ db'.kv[k].version = db.kv[k].version + 1
  BY KeySteps
<1>2. e.version \in Int /\ db.kv[k].version \in Int /\ db'.kv[k].version \in Int
  BY <1>1 DEF Entry
<1>. QED
  BY <1>1, <1>2 DEF Happened

\* So do the changes of a batch.
LEMMA ChangesStayTrue ==
    ASSUME Types, Snapshots, [Next]_vars, NEW changes \in Seq([key : Key, entry : Entry]),
           TrueChanges(changes)
    PROVE  TrueChanges(changes)'
<1>1. ASSUME NEW k \in Key, NEW i \in DOMAIN changes, IsLast(changes, k, i)
      PROVE  /\ changes[i].entry.version <= db'.kv[k].version
             /\ changes[i].entry.version = db'.kv[k].version => Shows(changes[i].entry, db'.kv[k])
  <2>1. changes[i] \in [key : Key, entry : Entry]
    BY ElementOfSeq, LenProperties
  <2>2. PICK e \in Entry : e = changes[i].entry
    BY <2>1
  <2>3. Happened(k, e)
    BY <1>1, <2>2 DEF TrueChanges
  <2>. QED
    BY <2>2, <2>3, HappenedStays
<1>2. \A i, j \in DOMAIN changes :
         changes[i].key = changes[j].key => changes[i].entry.version = changes[j].entry.version
  BY DEF TrueChanges
<1>. QED
  BY <1>1, <1>2 DEF TrueChanges, Happened, IsLast, Shows, Stored

\* A feed item stays or is replaced by a newer one.
LEMMA ItemStaysTrue ==
    ASSUME Types, Snapshots, Feeds, [Next]_vars, NEW x \in User, NEW item \in Item,
           TrueItem(x, item)
    PROVE  \E i \in db'.feed[x] : i.key = item.key /\ i.counter >= item.counter
<1>1. PICK i \in db.feed[x] : i.key = item.key /\ i.counter >= item.counter
  BY DEF TrueItem
<1>2. /\ db.feedSeq[x] \in Nat /\ i.counter <= db.feedSeq[x]
      /\ i.counter \in Nat /\ item.counter \in Nat
  <2>1. db.feedSeq[x] \in Nat /\ db.feed[x] \subseteq Item
    BY RowsFields DEF Types
  <2>. QED
    BY <2>1 DEF Feeds, Item
<1>3. CASE \E r \in Request : Applies(r)
  <2>1. PICK q : CommitsTo(q) /\ (FriendDraft(q) \/ BatchDraft(q))
    BY <1>3, CommitMeans
  <2>2. CASE db'.feed[x] = db.feed[x]
    BY <1>1, <2>2
  <2>3. ASSUME NEW key \in RepeatKey, db'.feed[x] = Posted(db.feed[x], db.feedSeq[x], key)
        PROVE  \E j \in db'.feed[x] : j.key = item.key /\ j.counter >= item.counter
    <3>1. CASE i.key # key
      <4>1. i \in db'.feed[x]
        BY <2>3, <3>1 DEF Posted
      <4>. QED
        BY <1>1, <4>1
    <3>2. CASE i.key = key
      <4>1. PICK n : n = [counter |-> db.feedSeq[x] + 1, key |-> key]
        OBVIOUS
      <4>2. n \in db'.feed[x]
        BY <2>3, <4>1 DEF Posted
      <4>3. n.key = item.key /\ n.counter >= item.counter
        BY <1>1, <1>2, <3>2, <4>1
      <4>. QED
        BY <4>2, <4>3
    <3>. QED
      BY <3>1, <3>2
  <2>. QED
    BY <2>1, <2>2, <2>3, CommitFeeds
<1>4. CASE \E u, v \in User : DayPasses(u, v)
  <2>1. db'.feed = db.feed
    BY <1>4, DayFields
  <2>. QED
    BY <1>1, <2>1
<1>5. CASE StoreKept
  BY <1>1, <1>5 DEF StoreKept
<1>. QED
  BY <1>3, <1>4, <1>5, StoreSteps

\* The changes of a batch, as they are announced.
LEMMA BatchCalls ==
    ASSUME Types, NEW q, CommitsTo(q), NEW batch \in Seq(Mutation),
           Mismatches(db.kv, batch) = {}, IsMutated(db, q, batch)
    PROVE  TrueChanges(Changes(batch))'
<1>1. PICK c : c = Changes(batch)
  OBVIOUS
<1>2. /\ DOMAIN c = DOMAIN batch
      /\ \A i \in DOMAIN batch : c[i].key = batch[i].key /\ c[i].entry = News(batch[i])
  BY <1>1, ChangesFields
<1>3. PICK after : after = Mutate(db.kv, batch)
  OBVIOUS
<1>4. db'.kv = after /\ db.kv \in [Key -> Entry]
  BY <1>3, RowsFields DEF IsMutated, CommitsTo, Types
<1>5. ASSUME NEW i \in DOMAIN batch
      PROVE  c[i].entry.version = db.kv[c[i].key].version + 1
  <2>1. batch[i] \in Mutation
    BY ElementOfSeq, LenProperties
  <2>2. db.kv[batch[i].key].version = batch[i].version
    BY DEF Mismatches
  <2>. QED
    BY <1>2, <2>1, <2>2, NewsFields
<1>6. ASSUME NEW k \in Key, NEW i \in DOMAIN c, IsLast(c, k, i)
      PROVE  Shows(c[i].entry, db'.kv[k]) /\ c[i].entry.version \in Int
             /\ c[i].entry.version = db'.kv[k].version
  <2>1. i \in DOMAIN batch /\ batch[i].key = k
        /\ \A j \in DOMAIN batch : batch[j].key = k => j <= i
    BY <1>2, <1>6 DEF IsLast
  <2>2. after[k] = After(batch[i])
    BY <1>3, <1>4, <2>1, MutateEffect
  <2>3. batch[i] \in Mutation
    BY <2>1, ElementOfSeq, LenProperties
  <2>4. News(batch[i]) \in Entry /\ Shows(News(batch[i]), After(batch[i]))
    BY <2>3, NewsFields
  <2>5. Shows(c[i].entry, db'.kv[k])
    BY <1>2, <1>4, <2>1, <2>2, <2>4
  <2>. QED
    BY <1>2, <2>1, <2>4, <2>5 DEF Entry, Shows
<1>7. \A i, j \in DOMAIN c : c[i].key = c[j].key => c[i].entry.version = c[j].entry.version
  BY <1>2, <1>5
<1>8. \A k \in Key : \A i \in DOMAIN c : IsLast(c, k, i) =>
         /\ c[i].entry.version <= db'.kv[k].version
         /\ c[i].entry.version = db'.kv[k].version => Shows(c[i].entry, db'.kv[k])
  BY <1>6
<1>9. TrueChanges(c)'
  BY <1>7, <1>8 DEF TrueChanges, Happened, IsLast, Shows, Stored
<1>. QED
  BY <1>1, <1>9

\* What a commit announces has happened.
LEMMA CallsTrue ==
    ASSUME Types, NEW q, CommitsTo(q), FriendDraft(q) \/ BatchDraft(q),
           NEW n \in Outgoing(q.calls)
    PROVE  /\ "changes" \in DOMAIN n.call => TrueChanges(n.call.changes)'
           /\ "item" \in DOMAIN n.call =>
                \E i \in db'.feed[n.call.user] :
                    i.key = n.call.item.key /\ i.counter >= n.call.item.counter
<1>1. PICK j \in DOMAIN q.calls : n.call = q.calls[j]
  BY DEF Outgoing
<1>2. PICK c : c = n.call
  OBVIOUS
<1>3. CASE FriendDraft(q)
  <2>1. PICK op \in {"add", "remove"}, u \in User, v \in User : u # v /\ Effect(op, db, q, u, v)
    BY <1>3 DEF FriendDraft
  <2>2. PICK told : told = Told(op, u, v, db.rel[u][v], db.rel[v][u])
    OBVIOUS
  <2>3. PICK mine, theirs : Reached(db, q, u, v, mine, theirs, told)
    BY <2>1, <2>2 DEF Effect
  <2>4. told \subseteq User
    BY <2>2 DEF Told
  <2>5. Announces(q.calls, told, db.feedSeq, u, v, db.rel[v][u])
    BY <2>3, Zenon DEF Reached
  <2>6. PICK x \in told : c = PostCall(x, db.feedSeq[x], PostKey(u, v, db.rel[v][u], x))
    BY <1>1, <1>2, <2>5 DEF Announces
  <2>7. PICK key : key = PostKey(u, v, db.rel[v][u], x)
    OBVIOUS
  <2>8. db'.feed[x] = Posted(db.feed[x], db.feedSeq[x], key)
    <3>1. q.feed[x] = Posted(db.feed[x], db.feedSeq[x], PostKey(u, v, db.rel[v][u], x))
      BY <2>3, <2>4, <2>6 DEF Reached
    <3>2. db'.feed = q.feed
      BY DEF CommitsTo
    <3>. QED
      BY <2>7, <3>1, <3>2
  <2>9. PICK item : item = [counter |-> db.feedSeq[x] + 1, key |-> key]
    OBVIOUS
  <2>10. c = [user |-> x, item |-> item]
    BY <2>6, <2>7, <2>9 DEF PostCall
  <2>11. item \in db'.feed[x]
    BY <2>8, <2>9 DEF Posted
  <2>12. db.feedSeq[x] \in Nat
    BY <2>4, RowsFields DEF Types
  <2>13. item.counter >= item.counter
    BY <2>9, <2>12
  <2>14. "changes" \notin DOMAIN c /\ c.user = x /\ c.item = item
    BY <2>10
  <2>. QED
    BY <1>2, <2>11, <2>13, <2>14
<1>4. CASE BatchDraft(q)
  <2>1. PICK batch \in Seq(Mutation) : Mismatches(db.kv, batch) = {} /\ IsMutated(db, q, batch)
    BY <1>4 DEF BatchDraft
  <2>2. PICK w : w = Changes(batch)
    OBVIOUS
  <2>3. q.calls = <<[user |-> Owner, changes |-> w]>>
    BY <2>1, <2>2 DEF IsMutated
  <2>4. c = [user |-> Owner, changes |-> w]
    BY <1>1, <1>2, <2>3
  <2>5. "item" \notin DOMAIN c /\ c.changes = w
    BY <2>4
  <2>6. TrueChanges(w)'
    BY <2>1, <2>2, BatchCalls
  <2>. QED
    BY <1>2, <2>5, <2>6
<1>. QED
  BY <1>3, <1>4

\* What is owed was owed before, perhaps without a number, or has just been put aside.
LEMMA OwedSteps ==
    ASSUME Types, Snapshots, [Next]_vars, NEW n \in owed'
    PROVE  \/ \E o \in owed : n.call = o.call
           \/ \E q : CommitsTo(q) /\ (FriendDraft(q) \/ BatchDraft(q)) /\ n \in Outgoing(q.calls)
<1>1. ASSUME NEW r \in Request, Commit(r)
      PROVE  \/ n \in owed
             \/ \E q : CommitsTo(q) /\ (FriendDraft(q) \/ BatchDraft(q)) /\ n \in Outgoing(q.calls)
  <2>1. Applies(r) /\ owed' = owed \union Deferred(request[r])
    BY <1>1, Zenon DEF Commit
  <2>2. PICK q : /\ CommitsTo(q) /\ Concerns(q, Touched(request[r].op))
                 /\ Deferred(request[r]) = Outgoing(q.calls)
    BY <2>1, AppliesMeans
  <2>3. FriendDraft(q) \/ BatchDraft(q)
    BY <2>2 DEF Concerns, BatchDraft
  <2>. QED
    BY <2>1, <2>2, <2>3
<1>2. ASSUME NEW o \in owed, AllocateUserSeq(o)
      PROVE  \E p \in owed : n.call = p.call
  <2>1. PICK m \in Owed : m.call = o.call /\ owed' = (owed \ {o}) \union {m}
    BY <1>2, AllocateFields
  <2>. QED
    BY <2>1
<1>3. ASSUME NEW o \in owed, Emit(o)
      PROVE  n \in owed
  BY <1>3 DEF Emit
<1>4. ASSUME NEW r \in Request, Submit(r) \/ LoseAnswer(r) \/ Answer(r) \/ Retry(r) \/ Fail(r)
      PROVE  n \in owed
  <2>1. owed' = owed
    BY <1>4, Zenon DEF Submit, LoseAnswer, Answer, Retry, Fail
  <2>. QED
    BY <2>1
<1>5. CASE Crash
  BY <1>5, CrashFields
<1>6. ASSUME Join \/ ReadFeed \/ UNCHANGED vars
      PROVE  n \in owed
  <2>1. owed' = owed
    BY <1>6, Zenon DEF Join, ReadFeed, vars
  <2>. QED
    BY <2>1
<1>7. ASSUME NEW u \in User, NEW v \in User, DayPasses(u, v)
      PROVE  n \in owed
  <2>1. owed' = owed
    BY <1>7, Zenon DEF DayPasses
  <2>. QED
    BY <2>1
<1>. QED
  BY <1>1, <1>2, <1>3, <1>4, <1>5, <1>6, <1>7, Zenon DEF Next

\* The call of a notification.
LEMMA CallFields ==
    ASSUME Types, NEW o \in owed
    PROVE  /\ o.call.user \in User
           /\ "changes" \in DOMAIN o.call => o.call.changes \in Seq([key : Key, entry : Entry])
           /\ "item" \in DOMAIN o.call => o.call.item \in Item
<1>1. o.call \in Call
  BY DEF Types, Owed
<1>. QED
  BY <1>1 DEF Call

\* Nothing is announced that did not happen.
LEMMA AnnouncedNext ==
    ASSUME Types, Snapshots, Feeds, Announced, [Next]_vars
    PROVE  Announced'
<1>1. ASSUME NEW n \in owed'
      PROVE  /\ "changes" \in DOMAIN n.call => TrueChanges(n.call.changes)'
             /\ "item" \in DOMAIN n.call =>
                  \E i \in db'.feed[n.call.user] :
                      i.key = n.call.item.key /\ i.counter >= n.call.item.counter
  <2>1. ASSUME NEW o \in owed, n.call = o.call
        PROVE  /\ "changes" \in DOMAIN n.call => TrueChanges(n.call.changes)'
               /\ "item" \in DOMAIN n.call =>
                    \E i \in db'.feed[n.call.user] :
                        i.key = n.call.item.key /\ i.counter >= n.call.item.counter
    <3>1. PICK c : c = n.call
      OBVIOUS
    <3>2. /\ c.user \in User
          /\ "changes" \in DOMAIN c => c.changes \in Seq([key : Key, entry : Entry])
          /\ "item" \in DOMAIN c => c.item \in Item
      BY <2>1, <3>1, CallFields
    <3>3. /\ "changes" \in DOMAIN c => TrueChanges(c.changes)
          /\ "item" \in DOMAIN c => TrueItem(c.user, c.item)
      BY <2>1, <3>1 DEF Announced
    <3>4. "changes" \in DOMAIN c => TrueChanges(c.changes)'
      BY <3>2, <3>3, ChangesStayTrue
    <3>5. "item" \in DOMAIN c =>
            \E i \in db'.feed[c.user] : i.key = c.item.key /\ i.counter >= c.item.counter
      BY <3>2, <3>3, ItemStaysTrue
    <3>. QED
      BY <3>1, <3>4, <3>5
  <2>2. ASSUME NEW q, CommitsTo(q), FriendDraft(q) \/ BatchDraft(q), n \in Outgoing(q.calls)
        PROVE  /\ "changes" \in DOMAIN n.call => TrueChanges(n.call.changes)'
               /\ "item" \in DOMAIN n.call =>
                    \E i \in db'.feed[n.call.user] :
                        i.key = n.call.item.key /\ i.counter >= n.call.item.counter
    BY <2>2, CallsTrue
  <2>. QED
    BY <2>1, <2>2, OwedSteps
<1>. QED
  BY <1>1 DEF Announced, TrueItem

\* A batch names one version per key.
OneVersion(changes) ==
    \A i, j \in DOMAIN changes :
        changes[i].key = changes[j].key => changes[i].entry.version = changes[j].entry.version

\* A key of a device keeps its entry, or takes the last change if that is not older.
IsApplied(view, after, changes, k) ==
    /\ \A i \in DOMAIN changes :
         IsLast(changes, k, i) /\ changes[i].entry.version >= view[k].version =>
             after[k] = changes[i].entry
    /\ \/ after[k] = view[k]
       \/ \E i \in DOMAIN changes :
            /\ IsLast(changes, k, i) /\ changes[i].entry.version >= view[k].version
            /\ after[k] = changes[i].entry

\* That is what an update does.
LEMMA AppliedEffect ==
    ASSUME NEW view \in [Key -> Entry], NEW changes \in Seq([key : Key, entry : Entry]),
           OneVersion(changes), NEW k \in Key
    PROVE  IsApplied(view, Applied(view, changes), changes, k)
<1>. PICK after : after = Applied(view, changes)
  OBVIOUS
<1>1. PICK news : news = {i \in DOMAIN changes :
                    changes[i].key = k /\ changes[i].entry.version >= view[k].version}
  OBVIOUS
<1>2. after[k] = IF news = {} THEN view[k]
                 ELSE changes[CHOOSE i \in news : \A j \in news : j <= i].entry
  BY <1>1 DEF Applied
<1>3. DOMAIN changes = 1 .. Len(changes) /\ Len(changes) \in Nat
  BY LenProperties
<1>4. CASE news = {}
  <2>1. IsApplied(view, after, changes, k)
    BY <1>1, <1>2, <1>4 DEF IsLast, IsApplied
  <2>. QED
    BY <2>1
<1>5. CASE news # {}
  <2>1. \E i \in news : \A j \in news : j <= i
    BY <1>1, <1>5, LastExists
  <2>2. PICK i \in news : i = CHOOSE x \in news : \A j \in news : j <= x
    BY <2>1
  <2>3. \A j \in news : j <= i
    BY <2>1, <2>2
  <2>4. after[k] = changes[i].entry
    BY <1>2, <1>5, <2>2
  <2>5. i \in DOMAIN changes /\ changes[i].key = k /\ changes[i].entry.version >= view[k].version
    BY <1>1
  <2>6. ASSUME NEW j \in DOMAIN changes, changes[j].key = k
        PROVE  j \in news
    <3>1. changes[j].entry.version = changes[i].entry.version
      BY <2>5, <2>6 DEF OneVersion
    <3>. QED
      BY <1>1, <2>5, <2>6, <3>1
  <2>7. IsLast(changes, k, i)
    BY <2>3, <2>5, <2>6 DEF IsLast
  <2>8. \A j \in DOMAIN changes : IsLast(changes, k, j) => j = i
    BY <1>3, <2>5, <2>7 DEF IsLast
  <2>9. IsApplied(view, after, changes, k)
    BY <2>4, <2>5, <2>7, <2>8 DEF IsApplied
  <2>. QED
    BY <2>9
<1>. QED
  BY <1>4, <1>5

\* The device after an update.
LEMMA EmitFollows ==
    ASSUME Types, Announced, Follows, NEW o \in owed, Emit(o), NEW k \in Key
    PROVE  /\ Happened(k, device'.view[k])
           /\ device'.on /\ k \notin unheard =>
                Shows(device'.view[k], db.kv[k]) \/ \E p \in owed \ {o} : Brings(p, k)
<1>1. /\ device' \in Device /\ device'.on = device.on
      /\ device.on /\ "changes" \in DOMAIN o.call =>
           /\ o.call.changes \in Seq([key : Key, entry : Entry])
           /\ device'.view = Applied(device.view, o.call.changes)
      /\ ~(device.on /\ "changes" \in DOMAIN o.call) => device'.view = device.view
  BY EmitFields
<1>2. /\ Happened(k, device.view[k])
      /\ device.on /\ k \notin unheard =>
           Shows(device.view[k], db.kv[k]) \/ \E p \in owed : Brings(p, k)
  BY DEF Follows
<1>3. device.view \in [Key -> Entry] /\ device.view[k] \in Entry /\ db.kv[k] \in Entry
  BY RowsFields DEF Types
<1>4. CASE ~(device.on /\ "changes" \in DOMAIN o.call)
  <2>1. device.on => ~Brings(o, k)
    BY <1>4 DEF Brings
  <2>. QED
    BY <1>1, <1>2, <1>4, <2>1
<1>5. CASE device.on /\ "changes" \in DOMAIN o.call
  <2>1. PICK changes \in Seq([key : Key, entry : Entry]) : changes = o.call.changes
    BY <1>1, <1>5
  <2>2. TrueChanges(changes)
    BY <1>5, <2>1 DEF Announced
  <2>3. PICK after : after = Applied(device.view, changes)
    OBVIOUS
  <2>4. device'.view = after
    BY <1>1, <1>5, <2>1, <2>3
  <2>5. OneVersion(changes)
    BY <2>2 DEF TrueChanges, OneVersion
  <2>6. IsApplied(device.view, after, changes, k)
    BY <1>3, <2>3, <2>5, AppliedEffect
  <2>7. Happened(k, after[k])
    BY <1>2, <2>2, <2>6 DEF TrueChanges, IsApplied
  <2>8. after[k].version \in Int /\ after[k].version >= device.view[k].version
    <3>1. \A i \in DOMAIN changes : changes[i] \in [key : Key, entry : Entry]
      BY ElementOfSeq, LenProperties
    <3>. QED
      BY <1>3, <2>6, <3>1 DEF Entry, IsApplied
  <2>9. CASE Shows(device.view[k], db.kv[k])
    <3>1. after[k].version = db.kv[k].version
      BY <1>3, <2>7, <2>8, <2>9 DEF Happened, Entry, Shows
    <3>2. Shows(after[k], db.kv[k])
      BY <2>7, <3>1 DEF Happened
    <3>. QED
      BY <2>4, <2>7, <3>2
  <2>10. CASE Brings(o, k)
    <3>1. PICK i \in DOMAIN changes : IsLast(changes, k, i) /\ Shows(changes[i].entry, db.kv[k])
      BY <2>1, <2>10 DEF Brings
    <3>2. changes[i].entry.version >= device.view[k].version
      BY <1>2, <1>3, <3>1 DEF Happened, Entry, Shows
    <3>3. Shows(after[k], db.kv[k])
      BY <2>6, <3>1, <3>2 DEF IsApplied
    <3>. QED
      BY <2>4, <2>7, <3>3
  <2>11. CASE ~Shows(device.view[k], db.kv[k]) /\ ~Brings(o, k)
    BY <1>1, <1>2, <2>4, <2>7, <2>11
  <2>. QED
    BY <2>9, <2>10, <2>11
<1>. QED
  BY <1>4, <1>5

\* A batch brings what it writes.
LEMMA CommitBrings ==
    ASSUME Types, NEW q, CommitsTo(q), NEW keys, Concerns(q, keys), NEW k \in keys
    PROVE  \E n \in Outgoing(q.calls) :
             /\ "changes" \in DOMAIN n.call
             /\ \E i \in DOMAIN n.call.changes :
                  IsLast(n.call.changes, k, i) /\ Shows(n.call.changes[i].entry, db'.kv[k])
<1>0. k \in Key
  BY ConcernsKeys
<1>2. CASE keys # {}
  <2>1. PICK batch \in Seq(Mutation) :
          IsMutated(db, q, batch) /\ keys = {batch[i].key : i \in DOMAIN batch}
    BY <1>2 DEF Concerns
  <2>2. PICK c : c = Changes(batch)
    OBVIOUS
  <2>3. /\ DOMAIN c = DOMAIN batch
        /\ \A i \in DOMAIN batch : c[i].key = batch[i].key /\ c[i].entry = News(batch[i])
    BY <2>2, ChangesFields
  <2>4. PICK after : after = Mutate(db.kv, batch)
    OBVIOUS
  <2>5. db'.kv = after /\ db.kv \in [Key -> Entry]
    BY <2>1, <2>4, RowsFields DEF IsMutated, CommitsTo, Types
  <2>6. \E i \in DOMAIN batch : batch[i].key = k
    BY <2>1
  <2>7. PICK i \in DOMAIN batch :
          /\ batch[i].key = k
          /\ \A j \in DOMAIN batch : batch[j].key = k => j <= i
          /\ after[k] = After(batch[i])
    BY <1>0, <2>4, <2>5, <2>6, MutateEffect
  <2>8. IsLast(c, k, i) /\ i \in DOMAIN c /\ Shows(c[i].entry, db'.kv[k])
    <3>1. batch[i] \in Mutation
      BY ElementOfSeq, LenProperties
    <3>2. Shows(News(batch[i]), After(batch[i]))
      BY <3>1, NewsFields
    <3>. QED
      BY <2>3, <2>5, <2>7, <3>2 DEF IsLast
  <2>9. PICK z \in BOOLEAN : z = FALSE
    OBVIOUS
  <2>10. PICK d : d = [user |-> Owner, changes |-> c]
    OBVIOUS
  <2>11. q.calls = <<d>>
    BY <2>1, <2>2, <2>10 DEF IsMutated
  <2>12. PICK n : n = [id |-> <<budget.requests, 1>>, call |-> d, numbered |-> z]
    OBVIOUS
  <2>13. n \in Outgoing(q.calls)
    <3>1. 1 \in DOMAIN q.calls /\ q.calls[1] = d
      BY <2>11
    <3>2. n = [id |-> <<budget.requests, 1>>, call |-> q.calls[1], numbered |-> FALSE]
      BY <2>9, <2>12, <3>1, Zenon
    <3>. QED
      BY <3>1, <3>2, Zenon DEF Outgoing
  <2>14. n.call = d /\ "changes" \in DOMAIN d /\ d.changes = c
    BY <2>10, <2>12
  <2>15. /\ "changes" \in DOMAIN n.call
         /\ \E j \in DOMAIN n.call.changes :
              IsLast(n.call.changes, k, j) /\ Shows(n.call.changes[j].entry, db'.kv[k])
    BY <2>8, <2>14
  <2>. QED
    BY <2>13, <2>15, Zenon
<1>. QED
  BY <1>2

\* ... and leaves the other keys alone.
LEMMA CommitKeeps ==
    ASSUME Types, NEW q, CommitsTo(q), NEW keys, Concerns(q, keys), NEW k \in Key \ keys
    PROVE  db'.kv[k] = db.kv[k]
<1>1. CASE FriendDraft(q)
  <2>1. PICK op \in {"add", "remove"}, u \in User, v \in User : Effect(op, db, q, u, v)
    BY <1>1 DEF FriendDraft
  <2>2. q.kv = db.kv
    BY <2>1, Zenon DEF Effect, Reached
  <2>. QED
    BY <2>2 DEF CommitsTo
<1>2. CASE ~FriendDraft(q)
  <2>1. PICK batch \in Seq(Mutation) :
          IsMutated(db, q, batch) /\ keys = {batch[i].key : i \in DOMAIN batch}
    BY <1>2 DEF Concerns
  <2>2. PICK after : after = Mutate(db.kv, batch)
    OBVIOUS
  <2>3. db'.kv = after /\ db.kv \in [Key -> Entry]
    BY <2>1, <2>2, RowsFields DEF IsMutated, CommitsTo, Types
  <2>4. \A i \in DOMAIN batch : batch[i].key # k
    BY <2>1
  <2>5. after[k] = db.kv[k]
    BY <2>2, <2>3, <2>4, MutateEffect
  <2>. QED
    BY <2>3, <2>5
<1>. QED
  BY <1>1, <1>2

\* Notifications that stay owed, whether numbered or not, bring what they brought.
LEMMA BringsStays ==
    ASSUME NEW k \in Key, db'.kv[k] = db.kv[k], \A o \in owed : \E n \in owed' : n.call = o.call,
           \E o \in owed : Brings(o, k)
    PROVE  \E n \in owed' : Brings(n, k)'
<1>1. PICK o \in owed : Brings(o, k)
  OBVIOUS
<1>2. PICK n \in owed' : n.call = o.call
  OBVIOUS
<1>3. /\ "changes" \in DOMAIN n.call
      /\ \E i \in DOMAIN n.call.changes :
           IsLast(n.call.changes, k, i) /\ Shows(n.call.changes[i].entry, db'.kv[k])
  BY <1>1, <1>2 DEF Brings
<1>4. Brings(n, k)'
  BY <1>3 DEF Brings, IsLast, Shows, Stored
<1>. QED
  BY <1>4

\* Emitting does not change the store.
LEMMA EmitKeeps ==
    ASSUME NEW o \in owed, Emit(o)
    PROVE  owed' = owed \ {o} /\ db' = db /\ unheard' = unheard
BY Zenon DEF Emit

\* A step that keeps the device and forgets no notification.
LEMMA DeviceFollows ==
    ASSUME Types, Snapshots, Follows, [Next]_vars, device' = device,
           \A o \in owed : \E n \in owed' : n.call = o.call,
           \A k \in Key \ unheard' :
              (k \notin unheard /\ db'.kv[k] = db.kv[k]) \/ \E n \in owed' : Brings(n, k)'
    PROVE  Follows'
<1>1. ASSUME NEW k \in Key
      PROVE  /\ device.view[k].version <= db'.kv[k].version
             /\ device.view[k].version = db'.kv[k].version => Shows(device.view[k], db'.kv[k])
             /\ device.on /\ k \notin unheard' =>
                  Shows(device.view[k], db'.kv[k]) \/ \E n \in owed' : Brings(n, k)'
  <2>1. /\ Happened(k, device.view[k])
        /\ device.on /\ k \notin unheard =>
             Shows(device.view[k], db.kv[k]) \/ \E o \in owed : Brings(o, k)
    BY DEF Follows
  <2>2. device.view[k] \in Entry
    BY DEF Types
  <2>3. /\ device.view[k].version <= db'.kv[k].version
        /\ device.view[k].version = db'.kv[k].version => Shows(device.view[k], db'.kv[k])
    BY <2>1, <2>2, HappenedStays
  <2>4. CASE k \notin unheard /\ db'.kv[k] = db.kv[k]
    <3>1. (\E o \in owed : Brings(o, k)) => \E n \in owed' : Brings(n, k)'
      BY <2>4, BringsStays
    <3>. QED
      BY <2>1, <2>3, <2>4, <3>1
  <2>5. CASE \E n \in owed' : Brings(n, k)'
    BY <2>3, <2>5
  <2>6. CASE k \in unheard'
    BY <2>3, <2>6
  <2>. QED
    BY <2>4, <2>5, <2>6
<1>. QED
  BY <1>1 DEF Follows, Happened, Shows, Stored

\* A device follows the store.
LEMMA FollowsNext ==
    ASSUME Types, Snapshots, Versions, Announced, Follows, [Next]_vars
    PROVE  Follows'
<1>1. ASSUME NEW r \in Request, Commit(r) \/ LoseAnswer(r)
      PROVE  Follows'
  <2>0. Applies(r)
    BY <1>1, Zenon DEF Commit, LoseAnswer
  <2>1. PICK keys : keys = Touched(request[r].op)
    OBVIOUS
  <2>2. PICK q : CommitsTo(q) /\ Concerns(q, keys) /\ Deferred(request[r]) = Outgoing(q.calls)
    BY <2>0, <2>1, AppliesMeans
  <2>3. ASSUME NEW k \in keys, owed' = owed \union Outgoing(q.calls)
        PROVE  \E n \in owed' : Brings(n, k)'
    <3>1. PICK n \in Outgoing(q.calls) :
             /\ "changes" \in DOMAIN n.call
             /\ \E i \in DOMAIN n.call.changes :
                  IsLast(n.call.changes, k, i) /\ Shows(n.call.changes[i].entry, db'.kv[k])
      BY <2>2, CommitBrings
    <3>2. Brings(n, k)'
      BY <3>1 DEF Brings, IsLast, Shows, Stored
    <3>. QED
      BY <2>3, <3>2
  <2>4. device' = device
    BY <2>0, Zenon DEF Applies
  <2>5. \A k \in Key \ keys : db'.kv[k] = db.kv[k]
    BY <2>2, CommitKeeps
  <2>6. CASE Commit(r)
    <3>1. owed' = owed \union Outgoing(q.calls) /\ unheard' = unheard \ keys
      BY <2>1, <2>2, <2>6, Zenon DEF Commit
    <3>2. \A o \in owed : \E n \in owed' : n.call = o.call
      BY <3>1
    <3>3. \A k \in Key \ unheard' :
            (k \notin unheard /\ db'.kv[k] = db.kv[k]) \/ \E n \in owed' : Brings(n, k)'
      BY <2>3, <2>5, <3>1
    <3>. QED
      BY <2>4, <3>2, <3>3, DeviceFollows
  <2>7. CASE LoseAnswer(r)
    <3>1. owed' = owed /\ unheard' = unheard \union keys
      BY <2>1, <2>7, Zenon DEF LoseAnswer
    <3>2. \A o \in owed : \E n \in owed' : n.call = o.call
      BY <3>1
    <3>3. \A k \in Key \ unheard' :
            (k \notin unheard /\ db'.kv[k] = db.kv[k]) \/ \E n \in owed' : Brings(n, k)'
      BY <2>5, <3>1
    <3>. QED
      BY <2>4, <3>2, <3>3, DeviceFollows
  <2>. QED
    BY <1>1, <2>6, <2>7
<1>2. ASSUME device' = device, unheard' = unheard, owed' = owed, db'.kv = db.kv
      PROVE  Follows'
  <2>1. \A o \in owed : \E n \in owed' : n.call = o.call
    BY <1>2
  <2>2. \A k \in Key \ unheard' :
          (k \notin unheard /\ db'.kv[k] = db.kv[k]) \/ \E n \in owed' : Brings(n, k)'
    BY <1>2
  <2>. QED
    BY <1>2, <2>1, <2>2, DeviceFollows
<1>3. ASSUME NEW r \in Request, Submit(r) \/ Answer(r) \/ Retry(r) \/ Fail(r)
      PROVE  Follows'
  <2>1. UNCHANGED <<db, owed, device, unheard>>
    BY <1>3, Zenon DEF Submit, Answer, Retry, Fail
  <2>. QED
    BY <1>2, <2>1
<1>4. ASSUME NEW o \in owed, AllocateUserSeq(o)
      PROVE  Follows'
  <2>1. PICK m \in Owed : m.call = o.call /\ owed' = (owed \ {o}) \union {m}
    BY <1>4, AllocateFields
  <2>2. db'.kv = db.kv
    BY <1>4, AllocateFields
  <2>3. device' = device /\ unheard' = unheard
    BY <1>4, Zenon DEF AllocateUserSeq
  <2>4. \A p \in owed : \E n \in owed' : n.call = p.call
    BY <2>1
  <2>5. \A k \in Key \ unheard' :
          (k \notin unheard /\ db'.kv[k] = db.kv[k]) \/ \E n \in owed' : Brings(n, k)'
    BY <2>2, <2>3
  <2>. QED
    BY <2>3, <2>4, <2>5, DeviceFollows
<1>5. ASSUME NEW o \in owed, Emit(o)
      PROVE  Follows'
  <2>1. owed' = owed \ {o} /\ db' = db /\ unheard' = unheard
    BY <1>5, EmitKeeps
  <2>2. ASSUME NEW k \in Key
        PROVE  /\ device'.view[k].version <= db'.kv[k].version
               /\ device'.view[k].version = db'.kv[k].version =>
                    Shows(device'.view[k], db'.kv[k])
               /\ device'.on /\ k \notin unheard' =>
                    Shows(device'.view[k], db'.kv[k]) \/ \E n \in owed' : Brings(n, k)'
    <3>1. /\ Happened(k, device'.view[k])
          /\ device'.on /\ k \notin unheard =>
               Shows(device'.view[k], db.kv[k]) \/ \E p \in owed \ {o} : Brings(p, k)
      BY <1>5, EmitFollows
    <3>2. ASSUME NEW p \in owed', Brings(p, k)
          PROVE  Brings(p, k)'
      BY <2>1, <3>2 DEF Brings, IsLast, Shows, Stored
    <3>. QED
      BY <2>1, <3>1, <3>2 DEF Happened
  <2>. QED
    BY <2>2 DEF Follows, Happened, Shows, Stored
<1>6. CASE Crash
  <2>1. ~device'.on /\ device'.view = device.view /\ db' = db
    BY <1>6, CrashFields
  <2>. QED
    BY <2>1 DEF Follows, Happened, Shows, Stored
<1>7. CASE Join
  <2>1. /\ device' \in Device /\ db' = db
        /\ \A k \in Key : device'.view[k] \in {NoEntry, db.kv[k]}
        /\ unheard' = {k \in Key : device'.view[k] # db.kv[k]}
    BY <1>7, JoinFields
  <2>2. ASSUME NEW k \in Key
        PROVE  /\ device'.view[k].version <= db'.kv[k].version
               /\ device'.view[k].version = db'.kv[k].version =>
                    Shows(device'.view[k], db'.kv[k])
               /\ k \notin unheard' => Shows(device'.view[k], db'.kv[k])
    <3>1. db.kv[k] \in Entry
      BY RowsFields DEF Types
    <3>2. db.kv[k].version \in Int
      BY <3>1 DEF Entry
    <3>3. /\ db.kv[k].version >= -1 /\ (db.kv[k].version = -1 => db.kv[k] = NoEntry)
          /\ db.kv[k].value # Empty
      BY DEF Versions
    <3>4. NoEntry.version = -1
      BY DEF NoEntry
    <3>5. Shows(db.kv[k], db.kv[k])
      BY <3>3 DEF Shows, Stored
    <3>6. CASE device'.view[k] = NoEntry /\ db.kv[k] # NoEntry
      BY <2>1, <3>2, <3>3, <3>4, <3>6
    <3>7. CASE device'.view[k] = db.kv[k]
      BY <2>1, <3>2, <3>5, <3>7
    <3>. QED
      BY <2>1, <3>6, <3>7
  <2>. QED
    BY <2>2 DEF Follows, Happened, Shows, Stored
<1>8. ASSUME ReadFeed \/ UNCHANGED vars
      PROVE  Follows'
  <2>1. UNCHANGED <<db, owed, device, unheard>>
    BY <1>8, Zenon DEF ReadFeed, vars
  <2>. QED
    BY <1>2, <2>1
<1>9. ASSUME NEW u \in User, NEW v \in User, DayPasses(u, v)
      PROVE  Follows'
  <2>1. db'.kv = db.kv /\ owed' = owed /\ device' = device /\ unheard' = unheard
    BY <1>9, DayFields
  <2>. QED
    BY <1>2, <2>1
<1>. QED
  BY <1>1, <1>3, <1>4, <1>5, <1>6, <1>7, <1>8, <1>9, Zenon DEF Next

-----------------------------------------------------------------------------
(* The feed.                                                               *)

\* The items newer than one item.
Newer(items, i) == {j \in items : j.counter > i.counter}

\* A newer item of a set has fewer newer ones.
LEMMA NewerFewer ==
    ASSUME NEW B \in SUBSET Item, IsFiniteSet(B), NEW i \in Item, NEW g \in Item,
           i.counter >= g.counter
    PROVE  /\ Cardinality(Newer(B, i)) \in Nat /\ Cardinality(Newer(B, g)) \in Nat
           /\ Cardinality(Newer(B, i)) <= Cardinality(Newer(B, g))
<1>1. Newer(B, i) \subseteq B /\ Newer(B, g) \subseteq B
  BY DEF Newer
<1>2. IsFiniteSet(Newer(B, i)) /\ IsFiniteSet(Newer(B, g))
  BY <1>1, FS_Subset
<1>3. Newer(B, i) \subseteq Newer(B, g)
  BY DEF Newer, Item
<1>. QED
  BY <1>2, <1>3, FS_Subset, FS_CardinalityType

\* The newest are closed under newer ones.
LEMMA NewestClosed ==
    ASSUME NEW B \in SUBSET Item, IsFiniteSet(B), NEW n \in Nat,
           NEW i \in B, NEW g \in Newest(B, n), i.counter >= g.counter
    PROVE  i \in Newest(B, n)
<1>1. g \in B /\ Cardinality(Newer(B, g)) < n
  BY DEF Newest, Newer
<1>2. /\ Cardinality(Newer(B, i)) \in Nat /\ Cardinality(Newer(B, g)) \in Nat
      /\ Cardinality(Newer(B, i)) <= Cardinality(Newer(B, g))
  BY <1>1, NewerFewer
<1>3. Cardinality(Newer(B, i)) < n
  BY <1>1, <1>2
<1>. QED
  BY <1>3 DEF Newest, Newer

\* A nonempty finite set of items below a bound has a newest one.
LEMMA NewestExists ==
    ASSUME NEW B \in SUBSET Item, B # {}, NEW c \in Nat, \A i \in B : i.counter < c
    PROVE  \E m \in B : \A j \in B : j.counter <= m.counter
<1>1. PICK S : S = {i.counter : i \in B}
  OBVIOUS
<1>2. S \in SUBSET Nat /\ S # {}
  BY <1>1 DEF Item
<1>3. \A x \in S : x <= c
  BY <1>1, <1>2
<1>4. PICK x \in S : \A y \in S : y <= x
  BY <1>2, <1>3, MaxExists
<1>5. PICK m \in B : x = m.counter
  BY <1>1
<1>. QED
  BY <1>1, <1>4, <1>5

\* If no more than n are found when one more is asked for, all were found.
LEMMA NewestAll ==
    ASSUME NEW B \in SUBSET Item, IsFiniteSet(B), NEW c \in Nat, \A i \in B : i.counter < c,
           NEW n \in Nat, Cardinality(Newest(B, n + 1)) <= n
    PROVE  Newest(B, n + 1) = B /\ Newest(B, n) = B
<1>1. PICK F : F = Newest(B, n + 1)
  OBVIOUS
<1>2. F \subseteq B /\ IsFiniteSet(F)
  <2>1. F \subseteq B
    BY <1>1 DEF Newest
  <2>. QED
    BY <2>1, FS_Subset
<1>3. F = B
  <2>1. CASE B \ F # {}
    <3>1. PICK R : R = B \ F
      OBVIOUS
    <3>2. R \in SUBSET Item /\ R # {} /\ \A i \in R : i.counter < c
      BY <2>1, <3>1
    <3>3. PICK m \in R : \A j \in R : j.counter <= m.counter
      BY <3>2, NewestExists
    <3>4. Newer(B, m) \subseteq F
      <4>1. ASSUME NEW j \in B, j.counter > m.counter, j \notin F
            PROVE  FALSE
        <5>1. j \in R /\ j \in Item /\ m \in Item
          BY <3>1, <3>2, <4>1
        <5>2. j.counter <= m.counter
          BY <3>3, <5>1
        <5>. QED
          BY <4>1, <5>1, <5>2 DEF Item
      <4>. QED
        BY <4>1 DEF Newer
    <3>5. Cardinality(Newer(B, m)) \in Nat /\ Cardinality(F) \in Nat
          /\ Cardinality(Newer(B, m)) <= Cardinality(F)
      BY <1>2, <3>4, FS_Subset, FS_CardinalityType
    <3>6. ~(Cardinality(Newer(B, m)) < n + 1)
      BY <1>1, <3>1 DEF Newest, Newer
    <3>. QED
      BY <1>1, <3>5, <3>6
  <2>2. CASE B \ F = {}
    BY <1>2, <2>2
  <2>. QED
    BY <2>1, <2>2
<1>4. ASSUME NEW i \in B
      PROVE  i \in Newest(B, n)
  <2>1. Newer(B, i) \subseteq B \ {i}
    BY DEF Newer, Item
  <2>2. IsFiniteSet(B \ {i}) /\ Cardinality(B \ {i}) = Cardinality(B) - 1
    BY FS_RemoveElement
  <2>3. Cardinality(Newer(B, i)) <= Cardinality(B \ {i}) /\ Cardinality(Newer(B, i)) \in Nat
    BY <2>1, <2>2, FS_Subset, FS_CardinalityType
  <2>4. Cardinality(B) \in Nat /\ Cardinality(B) <= n
    BY <1>1, <1>3, FS_CardinalityType
  <2>5. Cardinality(Newer(B, i)) < n
    BY <2>2, <2>3, <2>4
  <2>. QED
    BY <2>5 DEF Newest, Newer
<1>5. Newest(B, n) \subseteq B
  BY DEF Newest
<1>. QED
  BY <1>1, <1>3, <1>4, <1>5

\* What a page of the feed promises.
IsPage(items, cursor, page, more) ==
    /\ page \subseteq items
    /\ more => page # {}
    /\ ~more => \A i \in items : i.counter < cursor => i \in page
    /\ \A i \in items : \A g \in page :
         i.counter < cursor /\ i.counter >= g.counter => i \in page

\* feedGet keeps it.
LEMMA FeedGetPage ==
    ASSUME NEW items \in SUBSET Item, IsFiniteSet(items), NEW cursor \in Nat
    PROVE  \E page, more :
             /\ FeedGet(items, cursor) = [items |-> page, hasMore |-> more]
             /\ IsPage(items, cursor, page, more)
<1>1. PICK B : B = Before(items, cursor)
  OBVIOUS
<1>2. B \in SUBSET Item /\ B \subseteq items /\ IsFiniteSet(B) /\ \A i \in B : i.counter < cursor
  <2>1. B \in SUBSET Item /\ B \subseteq items /\ \A i \in B : i.counter < cursor
    BY <1>1 DEF Before
  <2>. QED
    BY <2>1, FS_Subset
<1>3. PICK F : F = Newest(B, PageSize + 1)
  OBVIOUS
<1>4. PICK G : G = Newest(F, PageSize)
  OBVIOUS
<1>5. PICK more : more = (Cardinality(F) > PageSize)
  OBVIOUS
<1>6. FeedGet(items, cursor) = [items |-> G, hasMore |-> more]
  BY <1>1, <1>3, <1>4, <1>5, Zenon DEF FeedGet
<1>7. PageSize \in Nat /\ PageSize + 1 \in Nat /\ PageSize > 0
  BY PageAssumption
<1>8. F \subseteq B /\ F \in SUBSET Item /\ IsFiniteSet(F) /\ G \subseteq F
  <2>1. F \subseteq B /\ G \subseteq F
    BY <1>3, <1>4 DEF Newest
  <2>. QED
    BY <1>2, <2>1, FS_Subset
<1>9. Cardinality(F) \in Nat
  BY <1>8, FS_CardinalityType
<1>10. ASSUME Cardinality(F) > PageSize
       PROVE  G # {}
  <2>1. F # {}
    BY <1>7, <1>10, FS_EmptySet
  <2>2. PICK m \in F : \A j \in F : j.counter <= m.counter
    BY <1>2, <1>8, <2>1, NewestExists
  <2>3. Newer(F, m) = {}
    BY <1>8, <2>2 DEF Newer, Item
  <2>4. Cardinality(Newer(F, m)) = 0
    BY <2>3, FS_EmptySet
  <2>5. Cardinality(Newer(F, m)) < PageSize
    BY <1>7, <2>4
  <2>6. m \in G
    BY <1>4, <2>5 DEF Newest, Newer
  <2>. QED
    BY <2>6
<1>11. ASSUME ~(Cardinality(F) > PageSize), NEW i \in items, i.counter < cursor
       PROVE  i \in G
  <2>1. i \in B
    BY <1>1, <1>11 DEF Before
  <2>2. Cardinality(Newest(B, PageSize + 1)) <= PageSize
    BY <1>3, <1>7, <1>9, <1>11
  <2>3. F = B /\ Newest(B, PageSize) = B
    BY <1>2, <1>3, <1>7, <2>2, NewestAll
  <2>. QED
    BY <1>4, <2>1, <2>3
<1>12. ASSUME NEW i \in items, NEW g \in G, i.counter < cursor, i.counter >= g.counter
       PROVE  i \in G
  <2>1. i \in B
    BY <1>1, <1>12 DEF Before
  <2>2. g \in Newest(B, PageSize + 1) /\ g \in Newest(F, PageSize)
    BY <1>3, <1>4, <1>8
  <2>3. i \in F
    BY <1>2, <1>3, <1>7, <1>12, <2>1, <2>2, NewestClosed
  <2>4. i \in Newest(F, PageSize)
    BY <1>7, <1>8, <1>12, <2>2, <2>3, NewestClosed
  <2>. QED
    BY <1>4, <2>4
<1>13. G \subseteq items
  BY <1>2, <1>8
<1>14. more => G # {}
  BY <1>5, <1>10, Zenon
<1>15. ~more => \A i \in items : i.counter < cursor => i \in G
  BY <1>5, <1>11, Zenon
<1>16. IsPage(items, cursor, G, more)
  BY <1>12, <1>13, <1>14, <1>15, Zenon DEF IsPage
<1>. QED
  BY <1>6, <1>16

\* What the feed gets is newer than all it had.
LEMMA FeedSteps ==
    ASSUME Types, Snapshots, [Next]_vars, NEW x \in User, NEW i \in db'.feed[x]
    PROVE  i \in db.feed[x] \/ i.counter = db.feedSeq[x] + 1
<1>1. CASE \E r \in Request : Applies(r)
  <2>1. PICK q : CommitsTo(q) /\ (FriendDraft(q) \/ BatchDraft(q))
    BY <1>1, CommitMeans
  <2>2. CASE db'.feed[x] = db.feed[x]
    BY <2>2
  <2>3. ASSUME NEW key \in RepeatKey, db'.feed[x] = Posted(db.feed[x], db.feedSeq[x], key)
        PROVE  i \in db.feed[x] \/ i.counter = db.feedSeq[x] + 1
    <3>1. i \in db.feed[x] \/ i = [counter |-> db.feedSeq[x] + 1, key |-> key]
      BY <2>3 DEF Posted
    <3>. QED
      BY <3>1
  <2>. QED
    BY <2>1, <2>2, <2>3, CommitFeeds
<1>2. CASE \E u, v \in User : DayPasses(u, v)
  <2>1. db'.feed = db.feed
    BY <1>2, DayFields
  <2>. QED
    BY <2>1
<1>3. CASE StoreKept
  BY <1>3 DEF StoreKept
<1>. QED
  BY <1>1, <1>2, <1>3, StoreSteps

\* A step that is not the reader's.
LEMMA OtherPages ==
    ASSUME Types, Snapshots, Pages, [Next]_vars, reader' = reader
    PROVE  Pages'
<1>0. Owner \in User
  BY AccountsAssumption
<1>1. db.feedSeq[Owner] \in Nat /\ db'.feedSeq[Owner] \in Nat
      /\ db.feedSeq[Owner] <= db'.feedSeq[Owner]
  BY <1>0, FeedGrows
<1>2. reader.top \in Nat
  BY DEF Pages
<1>3. reader.at # "new" => reader.top <= db.feedSeq[Owner] + 1
  BY DEF Pages
<1>4. ASSUME reader.at # "new", NEW i \in db'.feed[Owner], i.counter < reader.top
      PROVE  i \in db.feed[Owner]
  BY <1>0, <1>1, <1>2, <1>3, <1>4, FeedSteps
<1>5. reader.at # "new" => reader.top <= db'.feedSeq[Owner] + 1
  BY <1>1, <1>2, <1>3
<1>6. reader.at = "paging" =>
        \A i \in db'.feed[Owner] :
            i.counter < reader.top /\ i.counter >= reader.cursor => i \in reader.got
  BY <1>4 DEF Pages
<1>7. reader.at = "end" =>
        \A i \in db'.feed[Owner] : i.counter < reader.top => i \in reader.got
  BY <1>4 DEF Pages
<1>. QED
  BY <1>5, <1>6, <1>7 DEF Pages

\* The reader after a page.
LeastOr(S, c) == IF S = {} THEN c ELSE CHOOSE x \in S : \A e \in S : x <= e

Turned(start, items, more) ==
    [at |-> IF more THEN "paging" ELSE "end",
     top |-> IF reader.at = "new" THEN start ELSE reader.top,
     cursor |-> LeastOr({i.counter : i \in items}, reader.cursor),
     got |-> reader.got \union items]

\* The reader's step.
LEMMA ReadPages ==
    ASSUME Types, Feeds, Pages, ReadFeed
    PROVE  Pages'
<1>1. PICK items : items = db.feed[Owner]
  OBVIOUS
<1>2. PICK start : start = db.feedSeq[Owner] + 1
  OBVIOUS
<1>3. /\ items \in SUBSET Item /\ IsFiniteSet(items) /\ start \in Nat
      /\ \A i \in items : i.counter < start
  <2>1. Owner \in User
    BY AccountsAssumption
  <2>2. items \in SUBSET Item /\ db.feedSeq[Owner] \in Nat
    BY <1>1, <2>1, RowsFields DEF Types
  <2>3. IsFiniteSet(items) /\ \A i \in items : i.counter <= db.feedSeq[Owner]
    BY <1>1, <2>1 DEF Feeds
  <2>. QED
    BY <1>2, <2>2, <2>3 DEF Item
<1>4. reader.top \in Nat /\ reader.cursor \in Nat /\ reader.got \subseteq Item
      /\ reader.at \in {"new", "paging", "end"}
  BY DEF Pages
<1>5. PICK cur \in Nat : cur = IF reader.at = "new" THEN start ELSE reader.cursor
  BY <1>3, <1>4
<1>6. PICK page, more :
        /\ FeedGet(items, cur) = [items |-> page, hasMore |-> more]
        /\ IsPage(items, cur, page, more)
  BY <1>3, FeedGetPage
<1>7. PICK last : last = {i.counter : i \in page}
  OBVIOUS
<1>8. PICK at : at = IF more THEN "paging" ELSE "end"
  OBVIOUS
<1>9. PICK top : top = IF reader.at = "new" THEN start ELSE reader.top
  OBVIOUS
<1>10. PICK cursor : cursor = LeastOr(last, reader.cursor)
  OBVIOUS
<1>11. PICK got : got = reader.got \union page
  OBVIOUS
<1>12. PICK f : f = FeedGet(items, cur)
  OBVIOUS
<1>13. f.items = page /\ f.hasMore = more
  BY <1>6, <1>12
<1>14. reader.at # "end" /\ db' = db
  BY Zenon DEF ReadFeed
<1>15. reader' = [at |-> at, top |-> top, cursor |-> cursor, got |-> got]
  <2>1. f = FeedGet(db.feed[Owner],
                    IF reader.at = "new" THEN db.feedSeq[Owner] + 1 ELSE reader.cursor)
    BY <1>1, <1>2, <1>5, <1>12
  <2>2. reader' = Turned(
            db.feedSeq[Owner] + 1,
            FeedGet(db.feed[Owner],
                    IF reader.at = "new" THEN db.feedSeq[Owner] + 1 ELSE reader.cursor).items,
            FeedGet(db.feed[Owner],
                    IF reader.at = "new" THEN db.feedSeq[Owner] + 1 ELSE reader.cursor).hasMore)
    BY Zenon DEF ReadFeed, Turned, LeastOr
  <2>3. reader' = Turned(start, f.items, f.hasMore)
    BY <1>2, <2>1, <2>2, Zenon
  <2>4. reader' = Turned(start, page, more)
    BY <1>13, <2>3, Zenon
  <2>. QED
    BY <2>4, <1>7, <1>8, <1>9, <1>10, <1>11, Zenon DEF Turned
<1>17. at \in {"paging", "end"} /\ (at = "paging" => more) /\ (at = "end" => ~more)
  <2>1. CASE more
    <3>1. at = "paging"
      BY <1>8, <2>1, Zenon
    <3>. QED
      BY <2>1, <3>1
  <2>2. CASE ~more
    <3>1. at = "end"
      BY <1>8, <2>2, Zenon
    <3>. QED
      BY <2>2, <3>1
  <2>. QED
    BY <2>1, <2>2
<1>18. top \in Nat /\ top <= start
  BY <1>2, <1>3, <1>4, <1>9 DEF Pages
<1>19. page \subseteq items /\ page \subseteq Item /\ got \subseteq Item
  BY <1>3, <1>4, <1>6, <1>11 DEF IsPage
<1>20. last \in SUBSET Nat
  BY <1>7, <1>19 DEF Item
<1>21. cursor \in Nat /\ (page # {} => \E g \in page : cursor = g.counter)
  <2>1. CASE last = {}
    BY <1>4, <1>7, <1>10, <2>1 DEF LeastOr
  <2>2. CASE last # {}
    <3>1. \E c \in last : \A e \in last : c <= e
      BY <1>20, <2>2, MinExists
    <3>2. cursor \in last
      BY <1>10, <2>2, <3>1 DEF LeastOr
    <3>. QED
      BY <1>7, <1>20, <3>2
  <2>. QED
    BY <2>1, <2>2
<1>16. /\ reader' \in [at : {"new", "paging", "end"}, top : Nat, cursor : Nat, got : SUBSET Item]
       /\ reader'.at = at /\ reader'.top = top /\ reader'.cursor = cursor /\ reader'.got = got
  BY <1>15, <1>17, <1>18, <1>19, <1>21
<1>22. ASSUME NEW i \in items, i.counter < top, ~(i.counter < cur)
       PROVE  i \in got
  <2>1. CASE reader.at = "new"
    BY <1>3, <1>5, <1>22, <2>1
  <2>2. CASE reader.at = "paging"
    <3>1. i.counter \in Nat /\ cur = reader.cursor /\ top = reader.top
      BY <1>3, <1>5, <1>9, <2>2 DEF Item
    <3>2. i.counter >= reader.cursor /\ i.counter < reader.top
      BY <1>4, <1>22, <3>1
    <3>3. i \in reader.got
      BY <1>1, <2>2, <3>2 DEF Pages
    <3>. QED
      BY <1>11, <3>3
  <2>. QED
    BY <1>4, <1>14, <2>1, <2>2
<1>23. ASSUME at = "paging", NEW i \in items, i.counter < top, i.counter >= cursor
       PROVE  i \in got
  <2>1. CASE i.counter < cur
    <3>1. page # {}
      BY <1>6, <1>17, <1>23, Zenon DEF IsPage
    <3>2. PICK g \in page : cursor = g.counter
      BY <1>21, <3>1
    <3>3. i \in page
      BY <1>6, <1>23, <2>1, <3>2 DEF IsPage
    <3>. QED
      BY <1>11, <3>3
  <2>. QED
    BY <1>22, <1>23, <2>1
<1>24. ASSUME at = "end", NEW i \in items, i.counter < top
       PROVE  i \in got
  <2>1. CASE i.counter < cur
    <3>1. i \in page
      BY <1>6, <1>17, <1>24, <2>1, Zenon DEF IsPage
    <3>. QED
      BY <1>11, <3>1
  <2>. QED
    BY <1>22, <1>24, <2>1
<1>. QED
  BY <1>1, <1>2, <1>14, <1>16, <1>17, <1>18, <1>19, <1>21, <1>23, <1>24 DEF Pages

\* Paging misses nothing.
LEMMA PagesNext ==
    ASSUME Types, Snapshots, Feeds, Pages, [Next]_vars
    PROVE  Pages'
<1>1. ReadFeed \/ reader' = reader
  <2>1. ASSUME NEW r \in Request,
                   Submit(r) \/ Commit(r) \/ LoseAnswer(r) \/ Answer(r) \/ Retry(r) \/ Fail(r)
        PROVE  reader' = reader
    BY <2>1, Zenon DEF Submit, Commit, LoseAnswer, Applies, Answer, Retry, Fail
  <2>2. ASSUME NEW o \in owed, AllocateUserSeq(o) \/ Emit(o)
        PROVE  reader' = reader
    BY <2>2, Zenon DEF AllocateUserSeq, Emit
  <2>3. ASSUME NEW u \in User, NEW v \in User, DayPasses(u, v)
        PROVE  reader' = reader
    BY <2>3, Zenon DEF DayPasses
  <2>4. ASSUME Crash \/ Join \/ UNCHANGED vars
        PROVE  reader' = reader
    BY <2>4, Zenon DEF Crash, Join, vars
  <2>. QED
    BY <2>1, <2>2, <2>3, <2>4, Zenon DEF Next
<1>. QED
  BY <1>1, ReadPages, OtherPages

-----------------------------------------------------------------------------
(* The invariant, and what it gives.                                       *)

\* The first state.
LEMMA InitInv ==
    ASSUME Init
    PROVE  IInv
<1>1. PICK K : K = [k \in Key |-> NoEntry]
  OBVIOUS
<1>2. PICK R : R = [u \in User |-> [v \in User |-> NoRow]]
  OBVIOUS
<1>3. PICK F : F = [u \in User |-> {}]
  OBVIOUS
<1>4. PICK Z : Z = [u \in User |-> 0]
  OBVIOUS
<1>5. db = [kv |-> K, rel |-> R, feed |-> F, feedSeq |-> Z, seq |-> Z]
  BY <1>1, <1>2, <1>3, <1>4, Zenon DEF Init
<1>6. NoEntry \in Entry /\ NoRow \in Row /\ NoEntry.version = -1 /\ NoRow.status = "none"
  BY DEF NoEntry, Entry, NoRow, Row, Relationship, Notified
<1>7. /\ K \in [Key -> Entry] /\ R \in [User -> [User -> Row]]
      /\ F \in [User -> SUBSET Item] /\ Z \in [User -> Nat]
  BY <1>1, <1>2, <1>3, <1>4, <1>6
<1>8. db \in Rows /\ db.kv = K /\ db.rel = R /\ db.feed = F /\ db.feedSeq = Z
  BY <1>5, <1>7 DEF Rows
<1>9. PICK on \in BOOLEAN : device = [on |-> on, view |-> K]
  <2>1. PICK on \in {budget.service = "kv", FALSE} :
          device = [on |-> on, view |-> K]
    BY <1>1, Zenon DEF Init
  <2>2. on \in BOOLEAN
    BY <2>1, Zenon
  <2>. QED
    BY <2>1, <2>2, Zenon
<1>10. device \in Device /\ device.view = K
  BY <1>7, <1>9 DEF Device
<1>11. request = [r \in Request |-> Idle] /\ owed = {} /\ unheard = {} /\ budget \in Bounds
  BY AccountsAssumption DEF Init
<1>12. noticed \in [User -> [User -> Nat]] /\ \A u, v \in User : noticed[u][v] = 0
  <2>1. noticed = [u \in User |-> [v \in User |-> 0]]
    BY Zenon DEF Init
  <2>. QED
    BY <2>1
<1>13. Types
  <2>1. request \in [Request -> {Idle} \union Attempt]
    BY <1>11
  <2>. QED
    BY <1>8, <1>10, <1>11, <1>12, <2>1 DEF Types, Device
<1>14. Snapshots
  BY <1>11 DEF Snapshots
<1>15. Feeds
  <2>1. \A u \in User : db.feed[u] = {}
    BY <1>3, <1>8
  <2>2. IsFiniteSet({})
    BY FS_EmptySet
  <2>. QED
    BY <2>1, <2>2 DEF Feeds
<1>16. Versions
  <2>1. \A k \in Key : db.kv[k] = NoEntry
    BY <1>1, <1>8, Zenon
  <2>2. NoEntry.version >= -1 /\ NoEntry.value # Empty
    BY KvAssumption DEF NoEntry
  <2>. QED
    BY <2>1, <2>2, Zenon DEF Versions
<1>17. Pairs
  <2>1. Agree("none", "none")
    BY DEF Agree
  <2>2. \A u, v \in User : db.rel[u][v].status = "none"
    BY <1>2, <1>6, <1>8
  <2>3. {"none", "none"} \in AgreeingPairs
    BY <2>1, AgreeMeans
  <2>. QED
    BY <2>2, <2>3 DEF Pairs
<1>18. Cooldown
  BY <1>12 DEF Cooldown
<1>19. Announced
  BY <1>11 DEF Announced
<1>20. Follows
  <2>1. \A k \in Key : db.kv[k] = NoEntry /\ device.view[k] = NoEntry
    BY <1>1, <1>8, <1>10, Zenon
  <2>2. NoEntry.version <= NoEntry.version /\ Shows(NoEntry, NoEntry)
    BY DEF NoEntry, Shows, Stored
  <2>. QED
    BY <2>1, <2>2, Zenon DEF Follows, Happened
<1>21. Pages
  <2>1. reader = [at |-> "new", top |-> 0, cursor |-> 0, got |-> {}]
    BY Zenon DEF Init
  <2>. QED
    BY <2>1 DEF Pages
<1>. QED
  BY <1>13, <1>14, <1>15, <1>16, <1>17, <1>18, <1>19, <1>20, <1>21 DEF IInv

\* Every step.
LEMMA NextInv ==
    ASSUME IInv, [Next]_vars
    PROVE  IInv'
<1>1. /\ Types /\ Snapshots /\ Feeds /\ Versions /\ Pairs /\ Cooldown /\ Announced
      /\ Follows /\ Pages
  BY DEF IInv
<1>2. Types' /\ Snapshots' /\ Feeds' /\ Versions'
  BY <1>1, TypesNext, SnapshotsNext, FeedsNext, VersionsNext
<1>3. Pairs' /\ Cooldown'
  BY <1>1, PairsNext, CooldownNext
<1>4. Announced' /\ Follows' /\ Pages'
  BY <1>1, AnnouncedNext, FollowsNext, PagesNext
<1>. QED
  BY <1>2, <1>3, <1>4 DEF IInv

\* The inductive invariant holds in every reachable state.
THEOREM Invariance == Spec => []IInv
<1>1. Init => IInv
  BY InitInv
<1>2. IInv /\ [Next]_vars => IInv'
  BY NextInv
<1>. QED
  BY <1>1, <1>2, PTL DEF Spec

\* A request that ends with a change of the store has changed it as if it had run
\* alone.
LEMMA StepRuns ==
    ASSUME IInv, [Next]_vars, NEW r \in Request,
           request[r] # Idle, request'[r] = Idle, StoreOf(db') # StoreOf(db)
    PROVE  /\ MayRun(db, request[r].op)
           /\ StoreOf(db') = StoreOf(Run(db, request[r].op))
<1>0. Types /\ Snapshots
  BY DEF IInv
<1>1. CASE \E x \in Request : Applies(x)
  <2>1. PICK x \in Request : Applies(x)
    BY <1>1
  <2>2. PICK t : t = request[x]
    OBVIOUS
  <2>3. ~ReadOnly(t) /\ ~Collides(t) /\ db' = Merged(t) /\ t # Idle
        /\ request' = [request EXCEPT ![x] = Idle]
    BY <2>1, <2>2, Zenon DEF Applies
  <2>4. x = r
    <3>1. request \in [Request -> {Idle} \union Attempt]
      BY <1>0 DEF Types
    <3>. QED
      BY <2>3, <3>1
  <2>5. t \in Attempt /\ GoodSnapshot(t) /\ db \in Rows
    BY <1>0, <2>2, <2>3, AttemptOf DEF Types
  <2>. QED
    BY <2>2, <2>3, <2>4, <2>5, CommitRuns
<1>2. CASE \E u, v \in User : DayPasses(u, v)
  BY <1>0, <1>2, DayFields
<1>3. CASE StoreKept
  BY <1>3 DEF StoreKept, StoreOf
<1>. QED
  BY <1>0, <1>1, <1>2, <1>3, StoreSteps

\* Whatever overlaps, a commit of inTx leaves the store as the whole request would
\* have left it if it had run alone on the store as it is.
THEOREM OneAfterTheOtherHolds == Spec => OneAfterTheOther
<1>1. IInv /\ [Next]_vars =>
        [\A r \in Request :
            request[r] # Idle /\ request'[r] = Idle /\ StoreOf(db') # StoreOf(db)
            => /\ MayRun(db, request[r].op)
               /\ StoreOf(db') = StoreOf(Run(db, request[r].op))]_vars
  BY StepRuns
<1>. QED
  BY <1>1, Invariance, PTL DEF Spec, OneAfterTheOther

\* The two rows of every pair agree, however friendAdd and friendRemove of the two
\* sides overlap, and the types of TypeOK hold.
THEOREM PairsAgreeHolds == Spec => []PairsAgree
<1>1. IInv => TypeOK
  <2>1. SUFFICES ASSUME IInv
                 PROVE  TypeOK
    OBVIOUS
  <2>2. Types /\ Pages
    BY <2>1 DEF IInv
  <2>. QED
    BY <2>2 DEF Types, Pages, TypeOK
<1>2. IInv => PairsAgree
  BY <1>1 DEF IInv, Pairs, PairsAgree
<1>. QED
  BY <1>2, Invariance, PTL

\* Neither of two users is told about the other more than once in 24 hours
\* (shouldSendNotification, relationshipSet).
THEOREM CooldownAlwaysHolds == Spec => []CooldownHolds
<1>1. IInv => CooldownHolds
  <2>1. SUFFICES ASSUME IInv, NEW u \in User, NEW v \in User
                 PROVE  noticed[u][v] <= 1
    BY DEF CooldownHolds
  <2>2. /\ noticed[u][v] \in Nat
        /\ noticed[u][v] <= IF db.rel[u][v].notified = "recent" THEN 1 ELSE 0
    BY <2>1 DEF IInv, Types, Cooldown
  <2>. QED
    BY <2>2
<1>. QED
  BY <1>1, Invariance, PTL

\* Nothing is announced that did not happen, and once nothing is owed a device that
\* keeps the highest version shows every key as it is (afterTx, allocateUserSeq), but
\* for the keys that its listing left out (kvList) or whose last commit went
\* unanswered (inTx).
THEOREM ReconcilesHolds == Spec => []Reconciles
<1>1. IInv => Reconciles
  <2>1. SUFFICES ASSUME IInv
                 PROVE  Reconciles
    OBVIOUS
  <2>2. Follows /\ Announced
    BY <2>1 DEF IInv
  <2>3. AnnouncedHappened
    BY <2>2 DEF AnnouncedHappened, Follows, Announced, Happened, TrueItem
  <2>. QED
    BY <2>2, <2>3 DEF Reconciles, Follows
<1>. QED
  BY <1>1, Invariance, PTL

\* At the end of paging every item of the feed has been seen or is newer than the
\* first page (feedGet).
THEOREM FeedPagesCompleteHolds == Spec => []FeedPagesComplete
<1>1. IInv => FeedPagesComplete
  BY DEF IInv, Pages, FeedPagesComplete
<1>. QED
  BY <1>1, Invariance, PTL
=============================================================================
