---------------------------- MODULE SocialGraph ----------------------------
(***************************************************************************)
(* Friend requests and the feed they post to, as operators on the rows     *)
(* (sources/app/social/, sources/app/feed/).  A state of the rows is a     *)
(* record d: rel[u][v] is u's row of UserRelationship about v, feed[u] the *)
(* items of u, feedSeq[u] the counter of its Account row, and calls the    *)
(* notifications that afterTx has put aside.  Accounts runs them inside    *)
(* transactions.                                                           *)
(*                                                                         *)
(* Definitions whose name ends in Mut are deliberate defects of the        *)
(* definition that follows them: each one breaks a property of Accounts.   *)
(***************************************************************************)
EXTENDS Naturals, FiniteSets, Sequences

CONSTANTS
    User,           \* accounts
    PageSize        \* limit of a page of the feed

ASSUME PageAssumption == PageSize \in Nat \ {0}

Relationship == {"none", "requested", "pending", "friend", "rejected"}

\* lastNotifiedAt: not set, less than 24 hours ago, or longer
Notified == {"never", "recent", "old"}

\* A row that does not exist reads like one with status none.
Row == [status : Relationship, notified : Notified]
NoRow == [status |-> "none", notified |-> "never"]

RepeatKey == {"friend_request", "friend_accepted"} \X User
Item == [counter : Nat, key : RepeatKey]

\* Defect: the time of the last notification is not carried over.
RelationshipSetMut(d, from, to, status) ==
    [d EXCEPT !.rel[from][to] = [status |-> status, notified |-> "never"]]

\* relationshipSet keeps lastNotifiedAt.
RelationshipSet(d, from, to, status) ==
    [d EXCEPT !.rel[from][to].status = status]

ShouldSendNotification(row) == row.status # "rejected" /\ row.notified # "recent"

\* feedPost: the item replaces the one with its repeat key, under a new counter.
FeedPost(d, u, key) ==
    LET item == [counter |-> d.feedSeq[u] + 1, key |-> key]
    IN  [d EXCEPT !.feedSeq[u] = item.counter,
                  !.feed[u] = {i \in d.feed[u] : i.key # key} \union {item},
                  !.calls = Append(@, [user |-> u, item |-> item])]

\* Tells u about v, unless it was told less than 24 hours ago.
Notify(d, u, v, kind) ==
    IF ShouldSendNotification(d.rel[u][v])
    THEN FeedPost([d EXCEPT !.rel[u][v].notified = "recent"], u, <<kind, v>>)
    ELSE d

Befriended(d, u, v) ==
    RelationshipSet(RelationshipSet(d, v, u, "friend"), u, v, "friend")

Requested(d, u, v) ==
    LET asked == RelationshipSet(d, u, v, "requested")
    IN  IF d.rel[v][u].status = "none" THEN RelationshipSet(asked, v, u, "pending")
        ELSE asked

FriendAdd(d, u, v) ==
    IF d.rel[v][u].status = "requested"
    THEN Notify(Notify(Befriended(d, u, v), u, v, "friend_accepted"),
                v, u, "friend_accepted")
    ELSE IF d.rel[u][v].status \in {"none", "rejected"}
    THEN Notify(Requested(d, u, v), v, u, "friend_request")
    ELSE d

FriendRemove(d, u, v) ==
    LET mine == d.rel[u][v].status
        theirs == d.rel[v][u].status
    IN  IF mine = "requested" THEN RelationshipSet(d, u, v, "rejected")
        ELSE IF mine = "friend" THEN
            RelationshipSet(RelationshipSet(d, v, u, "requested"), u, v, "pending")
        ELSE IF mine = "pending" THEN
            LET gone == RelationshipSet(d, u, v, "none")
            IN  IF theirs = "rejected" THEN gone ELSE RelationshipSet(gone, v, u, "none")
        ELSE d

\* The n newest of a set of items.
Newest(items, n) ==
    {i \in items : Cardinality({j \in items : j.counter > i.counter}) < n}

Before(items, cursor) == {i \in items : i.counter < cursor}

\* Defect: the page is fetched without the extra item that shows there are more.
FeedGetMut(items, cursor) ==
    LET fetched == Newest(Before(items, cursor), PageSize)
    IN  [items |-> Newest(fetched, PageSize), hasMore |-> Cardinality(fetched) > PageSize]

\* feedGet with a `before' cursor: newest first, one more than the page is fetched.
FeedGet(items, cursor) ==
    LET fetched == Newest(Before(items, cursor), PageSize + 1)
    IN  [items |-> Newest(fetched, PageSize), hasMore |-> Cardinality(fetched) > PageSize]
=============================================================================
