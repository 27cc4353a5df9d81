------------------------------ MODULE Accounts ------------------------------
(***************************************************************************)
(* The services that run in storage/inTx.ts: the key-value store of an     *)
(* account and the friend requests between accounts.                       *)
(*                                                                         *)
(* inTx runs a body in a SERIALIZABLE transaction.  The body reads one     *)
(* snapshot; a collision with another transaction ends the attempt with    *)
(* P2034 and, three times, starts another one; every other error is the    *)
(* caller's (status 500).  Notifications are put aside with afterTx and    *)
(* run, not awaited, after the commit: each draws a number from the        *)
(* account sequence and is emitted when that has been answered.            *)
(*                                                                         *)
(* PostgreSQL refuses a commit whose written rows were changed since the   *)
(* snapshot, and one of two transactions that each read what the other     *)
(* wrote.  The bodies here write rows of which they have read every        *)
(* sibling, so both rules together are: a transaction that writes commits  *)
(* only if the store rows it read are as it read them, and the Account     *)
(* rows it increments too.  Account.seq is incremented outside of them.    *)
(*                                                                         *)
(* Definitions whose name ends in Mut are deliberate defects of the        *)
(* definition that follows them: each one breaks a property below.         *)
(***************************************************************************)
EXTENDS KvStore, SocialGraph

CONSTANTS
    Owner,          \* the account whose key-value store is followed
    Request,        \* requests that can be handled at the same time
    Batch,          \* bound: the keys and values clients write together
    MaxRetries,     \* the three retries of inTx
    Budget          \* bound: what the behaviours considered may contain

\* Requests of one of the services, pages of the feed, times that a notification
\* becomes 24 hours old, and times the process dies.
Bounds ==
    [service : {"kv", "social"}, requests : Nat, pages : Nat, days : Nat, crashes : Nat]

ASSUME AccountsAssumption ==
    /\ Owner \in User
    /\ Batch \subseteq Seq([key : Key, value : Value \union {Null}])
    /\ MaxRetries \in Nat
    /\ Budget \subseteq Bounds

VARIABLES
    db,             \* the rows
    request,        \* the requests being handled
    owed,           \* notifications put aside by committed transactions
    device,         \* a client of Owner that follows kv-batch-update
    reader,         \* a client of Owner that pages back through the feed
    unheard,        \* keys whose last change the device was not told of
    noticed,        \* per relationship row: feed posts in its last 24 hours
    budget          \* what is left of the bounds

vars == <<db, request, owed, device, reader, unheard, noticed, budget>>

Rows ==
    [kv : [Key -> Entry],
     rel : [User -> [User -> Row]],
     feed : [User -> SUBSET Item],
     feedSeq : [User -> Nat],
     seq : [User -> Nat]]

Operation ==
    [op : {"mutate"}, batch : Seq(Mutation)]
    \union [op : {"add", "remove"}, from : User, to : User]

Idle == [at |-> "idle"]
Attempt == [at : {"open"}, op : Operation, seen : Rows, counter : 0 .. MaxRetries]

\* numbered: allocateUserSeq has answered; id tells equal bodies apart
Call == [user : User, item : Item]
        \union [user : User, changes : Seq([key : Key, entry : Entry])]
Owed == [id : Nat \X Nat, call : Call, numbered : BOOLEAN]

TypeOK ==
    /\ db \in Rows
    /\ request \in [Request -> {Idle} \union Attempt]
    /\ owed \subseteq Owed
    /\ device \in [on : BOOLEAN, view : [Key -> Entry]]
    /\ reader \in [at : {"new", "paging", "end"}, top : Nat, cursor : Nat, got : SUBSET Item]
    /\ unheard \subseteq Key
    /\ noticed \in [User -> [User -> Nat]]
    /\ budget \in Bounds

Init ==
    /\ budget \in Budget
    /\ db = [kv |-> [k \in Key |-> NoEntry],
             rel |-> [u \in User |-> [v \in User |-> NoRow]],
             feed |-> [u \in User |-> {}],
             feedSeq |-> [u \in User |-> 0],
             seq |-> [u \in User |-> 0]]
    /\ request = [r \in Request |-> Idle]
    /\ owed = {}
    /\ \E on \in {budget.service = "kv", FALSE} :
         device = [on |-> on, view |-> [k \in Key |-> NoEntry]]
    /\ unheard = {}
    /\ reader = [at |-> "new", top |-> 0, cursor |-> 0, got |-> {}]
    /\ noticed = [u \in User |-> [v \in User |-> 0]]
-----------------------------------------------------------------------------
(* The bodies, on a snapshot. *)

MayRun(d, o) == o.op # "mutate" \/ Mismatches(d.kv, o.batch) = {}

\* The rows after the body, and the notifications it puts aside.
Run(d, o) ==
    LET quiet == [calls |-> <<>>, kv |-> d.kv, rel |-> d.rel, feed |-> d.feed,
                  feedSeq |-> d.feedSeq, seq |-> d.seq]
    IN  CASE o.op = "add" -> FriendAdd(quiet, o.from, o.to)
          [] o.op = "remove" -> FriendRemove(quiet, o.from, o.to)
          [] o.op = "mutate" /\ MayRun(d, o) ->
               [quiet EXCEPT !.kv = Mutate(d.kv, o.batch),
                             !.calls = <<[user |-> Owner, changes |-> Changes(o.batch)]>>]
          [] OTHER -> quiet

\* The store rows the body reads.
Footprint(d, o) ==
    IF o.op = "mutate" THEN [k \in {o.batch[i].key : i \in DOMAIN o.batch} |-> d.kv[k]]
    ELSE <<d.rel[o.from][o.to], d.rel[o.to][o.from]>>

Account(d, u) == <<d.feedSeq[u], d.seq[u]>>

Throws(t) == t.op.op = "mutate" /\ MayRun(t.seen, t.op) /\ CreatesTwice(t.op.batch)

\* A version mismatch, or a friend request that changes nothing.
ReadOnly(t) == LET e == Run(t.seen, t.op) IN e.kv = t.seen.kv /\ e.rel = t.seen.rel

\* Defect: REPEATABLE READ, where only rows that are written collide.
CollidesMut(t) ==
    LET after == Run(t.seen, t.op) IN
    \/ \E u \in User : /\ after.feedSeq[u] # t.seen.feedSeq[u]
                       /\ Account(db, u) # Account(t.seen, u)
    \/ \E k \in Key : after.kv[k] # t.seen.kv[k] /\ db.kv[k] # t.seen.kv[k]
    \/ \E u, v \in User : /\ after.rel[u][v] # t.seen.rel[u][v]
                          /\ db.rel[u][v] # t.seen.rel[u][v]

Collides(t) ==
    \/ Footprint(db, t.op) # Footprint(t.seen, t.op)
    \/ \E u \in User : /\ Run(t.seen, t.op).feedSeq[u] # t.seen.feedSeq[u]
                       /\ Account(db, u) # Account(t.seen, u)

\* The rows the transaction wrote, the others as they are now.
Merged(t) ==
    LET after == Run(t.seen, t.op)
        Written(new, old, now) == IF new # old THEN new ELSE now
    IN  [kv |-> [k \in Key |-> Written(after.kv[k], t.seen.kv[k], db.kv[k])],
         rel |-> [u \in User |-> [v \in User |->
                    Written(after.rel[u][v], t.seen.rel[u][v], db.rel[u][v])]],
         feed |-> [u \in User |-> Written(after.feed[u], t.seen.feed[u], db.feed[u])],
         feedSeq |-> [u \in User |->
                    Written(after.feedSeq[u], t.seen.feedSeq[u], db.feedSeq[u])],
         seq |-> db.seq]
-----------------------------------------------------------------------------
(* inTx. *)

\* The versions a client may name: the current one, or the one before.
KnownVersions(k) == {db.kv[k].version, db.kv[k].version - 1} \ {-2}

Inputs ==
    IF budget.service = "social"
    THEN {o \in [op : {"add", "remove"}, from : User, to : User] : o.from # o.to}
    ELSE {[op |-> "mutate", batch |-> b] : b \in
            UNION {{[i \in DOMAIN w |-> [key |-> w[i].key, value |-> w[i].value,
                                         version |-> version[w[i].key]]] :
                      version \in {f \in [Key -> UNION {KnownVersions(k) : k \in Key}] :
                                     \A k \in Key : f[k] \in KnownVersions(k)}} :
                   w \in Batch}}

Submit(r) ==
    /\ request[r] = Idle
    /\ budget.requests > 0
    /\ \E o \in Inputs :
         request' = [request EXCEPT ![r] = [at |-> "open", op |-> o, seen |-> db, counter |-> 0]]
    /\ budget' = [budget EXCEPT !.requests = @ - 1]
    /\ UNCHANGED <<db, owed, device, reader, unheard, noticed>>

\* The notifications, made distinct by the number of the request.
Deferred(t) ==
    LET calls == Run(t.seen, t.op).calls
    IN  {[id |-> <<budget.requests, i>>, call |-> calls[i], numbered |-> FALSE] :
           i \in DOMAIN calls}

Posts(t, u, v) ==
    LET calls == Run(t.seen, t.op).calls
    IN  Cardinality({i \in DOMAIN calls :
            "item" \in DOMAIN calls[i] /\ calls[i].user = u /\ calls[i].item.key[2] = v})

\* The keys of a batch.
Touched(o) == IF o.op = "mutate" THEN {o.batch[i].key : i \in DOMAIN o.batch} ELSE {}

\* The database commits.
Applies(r) ==
    LET t == request[r] IN
    /\ t # Idle /\ ~Throws(t) /\ ~ReadOnly(t)
    /\ ~Collides(t)
    /\ db' = Merged(t)
    /\ noticed' = [u \in User |-> [v \in User |-> noticed[u][v] + Posts(t, u, v)]]
    /\ request' = [request EXCEPT ![r] = Idle]
    /\ UNCHANGED <<device, reader, budget>>

Commit(r) ==
    /\ Applies(r)
    /\ owed' = owed \union Deferred(request[r])
    /\ unheard' = unheard \ Touched(request[r].op)

\* The answer to COMMIT is lost: inTx throws, and the callbacks never run.
LoseAnswer(r) ==
    /\ Applies(r)
    /\ unheard' = unheard \union Touched(request[r].op)
    /\ UNCHANGED owed

\* Nothing was written: the answer is about the snapshot.
Answer(r) ==
    /\ request[r] # Idle
    /\ ReadOnly(request[r]) \/ Throws(request[r])
    /\ request' = [request EXCEPT ![r] = Idle]
    /\ UNCHANGED <<db, owed, device, reader, unheard, noticed, budget>>

RetriesLeft(t) == t.counter < MaxRetries

\* Defect: notifications are sent from within the transaction.
RetryMut(r) ==
    LET t == request[r] IN
    /\ t # Idle /\ db # t.seen
    /\ request' = [request EXCEPT ![r] =
         IF RetriesLeft(t)
         THEN [t EXCEPT !.seen = db, !.counter = t.counter + 1] ELSE Idle]
    /\ owed' = owed \union Deferred(t)
    /\ UNCHANGED <<db, device, reader, unheard, noticed, budget>>

(***************************************************************************)
(* P2034: a collision, or one that the database suspects.  A new attempt   *)
(* with a new snapshot and no notifications, or the error after the        *)
(* retries.                                                                *)
(***************************************************************************)
Retry(r) ==
    LET t == request[r] IN
    /\ t # Idle /\ db # t.seen
    /\ request' = [request EXCEPT ![r] =
         IF RetriesLeft(t)
         THEN [t EXCEPT !.seen = db, !.counter = t.counter + 1] ELSE Idle]
    /\ UNCHANGED <<db, owed, device, reader, unheard, noticed, budget>>

\* Any other error before the commit: a lost connection, the time limit, or a
\* key that another transaction has created meanwhile (P2002).
Fail(r) ==
    /\ request[r] # Idle
    /\ request' = [request EXCEPT ![r] = Idle]
    /\ UNCHANGED <<db, owed, device, reader, unheard, noticed, budget>>

(* The callbacks. *)

AllocateUserSeq(o) ==
    /\ ~o.numbered
    /\ db' = [db EXCEPT !.seq[o.call.user] = @ + 1]
    /\ owed' = (owed \ {o}) \union {[o EXCEPT !.numbered = TRUE]}
    /\ UNCHANGED <<request, device, reader, unheard, noticed, budget>>

\* A device keeps the highest version of every key, of equal ones the last.
Applied(view, changes) ==
    [k \in Key |->
        LET news == {i \in DOMAIN changes :
                       changes[i].key = k /\ changes[i].entry.version >= view[k].version}
        IN  IF news = {} THEN view[k]
            ELSE changes[CHOOSE i \in news : \A j \in news : j <= i].entry]

Emit(o) ==
    /\ o.numbered
    /\ owed' = owed \ {o}
    /\ device' = IF device.on /\ "changes" \in DOMAIN o.call
                 THEN [device EXCEPT !.view = Applied(@, o.call.changes)] ELSE device
    /\ UNCHANGED <<db, request, reader, unheard, noticed, budget>>

\* allocateUserSeq is rejected and nobody handles it, or the process dies for
\* another reason: requests, callbacks and connections are gone.
Crash ==
    /\ budget.crashes > 0
    /\ budget' = [budget EXCEPT !.crashes = @ - 1]
    /\ request' = [r \in Request |-> Idle]
    /\ owed' = {}
    /\ device' = [device EXCEPT !.on = FALSE]
    /\ UNCHANGED <<db, reader, unheard, noticed>>
-----------------------------------------------------------------------------
(* Clients and time. *)

\* A device connects and then lists the store.
Join ==
    /\ ~device.on /\ budget.service = "kv"
    /\ device' = [on |-> TRUE, view |-> KvList(db.kv)]
    /\ unheard' = {k \in Key : KvList(db.kv)[k] # db.kv[k]}
    /\ UNCHANGED <<db, request, owed, reader, noticed, budget>>

\* A page of the feed: the first one, or the one before the last item seen.
ReadFeed ==
    LET start == db.feedSeq[Owner] + 1
        page == FeedGet(db.feed[Owner], IF reader.at = "new" THEN start ELSE reader.cursor)
        last == {i.counter : i \in page.items}
    IN  /\ budget.pages > 0 /\ reader.at # "end"
        /\ budget' = [budget EXCEPT !.pages = @ - 1]
        /\ reader' =
             [at |-> IF page.hasMore THEN "paging" ELSE "end",
              top |-> IF reader.at = "new" THEN start ELSE reader.top,
              cursor |-> IF last = {} THEN reader.cursor
                         ELSE CHOOSE c \in last : \A e \in last : c <= e,
              got |-> reader.got \union page.items]
        /\ UNCHANGED <<db, request, owed, device, unheard, noticed>>

\* 24 hours have passed since u was told about v.  No row changes by that, so
\* it is seen between the requests.
DayPasses(u, v) ==
    /\ budget.days > 0
    /\ db.rel[u][v].notified = "recent"
    /\ \A r \in Request : request[r] = Idle
    /\ db' = [db EXCEPT !.rel[u][v].notified = "old"]
    /\ noticed' = [noticed EXCEPT ![u][v] = 0]
    /\ budget' = [budget EXCEPT !.days = @ - 1]
    /\ UNCHANGED <<request, owed, device, reader, unheard>>
-----------------------------------------------------------------------------
Next ==
    \/ \E r \in Request :
         \/ Submit(r) \/ Commit(r) \/ LoseAnswer(r) \/ Answer(r) \/ Retry(r) \/ Fail(r)
    \/ \E o \in owed : AllocateUserSeq(o) \/ Emit(o)
    \/ Crash
    \/ Join
    \/ ReadFeed
    \/ \E u, v \in User : DayPasses(u, v)

Spec == Init /\ [][Next]_vars
-----------------------------------------------------------------------------
(***************************************************************************)
(* All or nothing, one after the other.  Whatever overlaps, a commit       *)
(* leaves the store as the whole request would have left it if it had run  *)
(* alone on the store as it is (inTx; "All mutations succeed or all fail", *)
(* kvMutate.ts).                                                           *)
(***************************************************************************)
StoreOf(d) == <<d.kv, d.rel, d.feed, d.feedSeq>>

OneAfterTheOther ==
    [][\A r \in Request :
         request[r] # Idle /\ request'[r] = Idle /\ StoreOf(db') # StoreOf(db)
         => /\ MayRun(db, request[r].op)
            /\ StoreOf(db') = StoreOf(Run(db, request[r].op))]_vars

(***************************************************************************)
(* The two rows of a pair agree: friendship is mutual, a request is        *)
(* pending or declined on the other side, and never do two requests cross, *)
(* although each side writes after having read the other's row (friendAdd, *)
(* friendRemove).                                                          *)
(***************************************************************************)
AgreeingPairs ==
    {{"none"}, {"friend"}, {"rejected"}, {"requested", "pending"}, {"requested", "rejected"},
     {"rejected", "pending"}, {"rejected", "none"}}

PairsAgree ==
    /\ TypeOK
    /\ \A u, v \in User :
         u # v => {db.rel[u][v].status, db.rel[v][u].status} \in AgreeingPairs

(***************************************************************************)
(* The 24 hours: however often two users add and remove one another, also  *)
(* at the same time, neither is told about the other more than once in     *)
(* that time (shouldSendNotification, relationshipSet).                    *)
(***************************************************************************)
CooldownHolds == \A u, v \in User : noticed[u][v] <= 1

\* A device shows a row, which holds no value where an empty one was announced.
Shows(entry, row) == entry.version = row.version /\ Stored(entry.value) = row.value

\* A device never holds a version the store has not reached or another value
\* for the current one, and a feed item that is about to be announced is in the
\* feed or was replaced by a newer one.
AnnouncedHappened ==
    /\ \A k \in Key :
         /\ device.view[k].version <= db.kv[k].version
         /\ device.view[k].version = db.kv[k].version => Shows(device.view[k], db.kv[k])
    /\ \A o \in owed : "item" \in DOMAIN o.call =>
         \E i \in db.feed[o.call.user] :
             /\ i.key = o.call.item.key
             /\ i.counter >= o.call.item.counter

(***************************************************************************)
(* Devices reconcile.  Nothing is announced that did not happen, and       *)
(* although updates are numbered and emitted out of the order of the       *)
(* commits (afterTx, allocateUserSeq), once none is owed a device that     *)
(* keeps the highest version shows every key as it is, but for the keys    *)
(* whose last change it was never told of: those its first listing left out*)
(* (deleted ones, and all after the limit, kvList.ts) and those whose last *)
(* transaction was committed without an answer (inTx.ts).                  *)
(***************************************************************************)
Reconciles ==
    /\ AnnouncedHappened
    /\ device.on /\ owed = {} =>
         \A k \in Key \ unheard : Shows(device.view[k], db.kv[k])

(***************************************************************************)
(* Paging back through the feed misses nothing, although items move to the *)
(* top meanwhile: at the end every item of the feed has been seen or is    *)
(* newer than the first page (feedGet).                                    *)
(***************************************************************************)
FeedPagesComplete ==
    reader.at = "end" =>
        \A i \in db.feed[Owner] : i.counter < reader.top => i \in reader.got
=============================================================================
