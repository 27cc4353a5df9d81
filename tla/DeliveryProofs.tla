---------------------------- MODULE DeliveryProofs ----------------------------
(***************************************************************************)
(* Proofs about Delivery and EventRouter, for any processes, sockets and   *)
(* scenarios: whom rooms reach, that nobody hears anything twice, and that *)
(* neither a late eviction nor a shutdown leaves the wrong socket behind.  *)
(***************************************************************************)
EXTENDS Delivery, TLAPS

-----------------------------------------------------------------------------
(* The inductive invariant, in parts.                                      *)

\* A socket that has been through its handshake keeps its process and lease;
\* it is connected only while its process is up, and hears nothing before it
\* joined.
Placed ==
    \A s \in Socket :
        /\ conn[s].lease \in {None, s}
        /\ conn[s].state = "new" => conn[s].lease = None
        /\ conn[s].state \in {"admitted", "joined"} =>
             conn[s].at \in Pod /\ pod[conn[s].at] = "up"
        /\ conn[s].state \in {"new", "admitted"} => got[s] = {}

Ids == {e.id : e \in sent}

\* The number of an event or publication is used once, and a socket comes and
\* goes once.
Fresh ==
    /\ \A n \in Nat : <<"event", n>> \in Ids => n > plan.events
    /\ \A n \in Nat : <<"durable", n>> \in Ids => n > plan.publications
    /\ \A s \in Socket :
         /\ <<"online", s>> \in Ids => conn[s].state \notin {"new", "admitted"}
         /\ <<"offline", s>> \in Ids => conn[s].state \notin {"new", "admitted", "joined"}

FilterTypes ==
    {"all-interested-in-session", "user-scoped-only", "machine-scoped-only",
     "all-user-authenticated-connections"}

\* What was sent has an identity of its own.
Sent ==
    /\ \A e, f \in sent : e.id = f.id => e = f
    /\ \A e \in sent : IF "note" \in DOMAIN e THEN e.user = e.note.user
                       ELSE e.filter.type \in FilterTypes

\* The message m brings what was sent as e.
Brings(m, e) ==
    /\ m.id = e.id
    /\ IF "note" \in DOMAIN e THEN m.rooms = DurableRooms(e.note) /\ m.origin = e.note.origin
       ELSE m.rooms = RecipientRooms(e.user, e.filter)

IsMessage(m) == m = [id |-> m.id, rooms |-> m.rooms, origin |-> m.origin]

\* Whom an eviction names: a lease that was displaced for good.
Displaced(m) ==
    \E l, t \in Socket :
        /\ m.rooms = {RuntimeConnectionLeaseRoom(Scope[t].user, Scope[t].session, l)}
        /\ l # lease.holder /\ conn[l].state # "new"

\* What is on its way was sent, once to each process, and is not there yet.
OnItsWay ==
    /\ \A w \in wire :
         /\ w = [to |-> w.to, act |-> w.act, msg |-> w.msg] /\ IsMessage(w.msg)
         /\ IF w.act = "evict" THEN Displaced(w.msg)
            ELSE /\ \E e \in sent : Brings(w.msg, e)
                 /\ \A s \in Socket : conn[s].at = w.to => w.msg.id \notin got[s]
    /\ \A v, w \in wire :
         v.act # "evict" /\ w.act # "evict" /\ v.to = w.to /\ v.msg.id = w.msg.id => v = w

\* Why a socket may hear what was sent as e (the walk over the connections).
Entitled(c, s, e) ==
    /\ Scope[s].user = e.user
    /\ IF "note" \in DOMAIN e
       THEN s # e.note.origin /\ ShouldSendDurable(c, e.note)
       ELSE ShouldSendToConnection(c, e.filter)

IInv ==
    /\ IsPlan(plan)
    /\ TypeOK
    /\ Placed
    /\ Fresh
    /\ Sent
    /\ OnItsWay
    /\ NobodyElse
    /\ AtMostOnce
-----------------------------------------------------------------------------
(* Rooms and the walk over the connections (EventRouter).                  *)

ConnectionTypes == {"user-scoped", "session-scoped", "machine-scoped"}

\* The rooms of a connection.
LEMMA OwnRooms ==
    ASSUME NEW c, c.type \in ConnectionTypes, NEW r, r \in ConnectionRooms(c)
    PROVE  /\ ~c.replayOnly
           /\ \/ r = AccountRoom(c.user, "all", None, None)
              \/ c.type = "user-scoped" /\ r = AccountRoom(c.user, "user", None, None)
              \/ c.type = "session-scoped" /\ r = AccountRoom(c.user, "session", c.session, c.lease)
              \/ c.type = "machine-scoped" /\ r = AccountRoom(c.user, "machine", c.machine, None)
<1>1. CASE c.type = "user-scoped"
  BY <1>1 DEF ConnectionRooms
<1>2. CASE c.type = "session-scoped"
  BY <1>2 DEF ConnectionRooms, RuntimeConnectionLeaseRoom
<1>3. CASE c.type = "machine-scoped"
  BY <1>3 DEF ConnectionRooms
<1> QED
  BY <1>1, <1>2, <1>3 DEF ConnectionTypes

\* getRecipientRooms reaches only whom shouldSendToConnection would choose, of
\* the account the event is for.
THEOREM RoomsReachTheWalk ==
    ASSUME NEW c, c.type \in ConnectionTypes, NEW user, NEW f, f.type \in FilterTypes,
           ConnectionRooms(c) \intersect RecipientRooms(user, f) # {}
    PROVE  c.user = user /\ ShouldSendToConnection(c, f)
<1>1. PICK r : r \in ConnectionRooms(c) /\ r \in RecipientRooms(user, f)
  OBVIOUS
<1>2. /\ ~c.replayOnly
      /\ \/ r = AccountRoom(c.user, "all", None, None)
         \/ c.type = "user-scoped" /\ r = AccountRoom(c.user, "user", None, None)
         \/ c.type = "session-scoped" /\ r = AccountRoom(c.user, "session", c.session, c.lease)
         \/ c.type = "machine-scoped" /\ r = AccountRoom(c.user, "machine", c.machine, None)
  BY <1>1, OwnRooms
<1>3. CASE f.type = "all-interested-in-session"
  <2>1. r = AccountRoom(user, "user", None, None)
        \/ r = AccountRoom(user, "session", f.session, None)
    BY <1>1, <1>3 DEF RecipientRooms
  <2>2. c.user = user /\ (c.type = "user-scoped"
                          \/ (c.type = "session-scoped" /\ c.session = f.session))
    BY <1>2, <2>1 DEF AccountRoom
  <2> QED
    BY <1>2, <1>3, <2>2 DEF ShouldSendToConnection
<1>4. CASE f.type = "user-scoped-only"
  <2>1. r = AccountRoom(user, "user", None, None)
    BY <1>1, <1>4 DEF RecipientRooms
  <2>2. c.user = user /\ c.type = "user-scoped"
    BY <1>2, <2>1 DEF AccountRoom
  <2> QED
    BY <1>4, <2>2 DEF ShouldSendToConnection
<1>5. CASE f.type = "machine-scoped-only"
  <2>1. r = AccountRoom(user, "user", None, None)
        \/ r = AccountRoom(user, "machine", f.machine, None)
    BY <1>1, <1>5 DEF RecipientRooms
  <2>2. c.user = user /\ (c.type = "user-scoped"
                          \/ (c.type = "machine-scoped" /\ c.machine = f.machine))
    BY <1>2, <2>1 DEF AccountRoom
  <2> QED
    BY <1>5, <2>2 DEF ShouldSendToConnection
<1>6. CASE f.type = "all-user-authenticated-connections"
  <2>1. r = AccountRoom(user, "all", None, None)
    BY <1>1, <1>6 DEF RecipientRooms
  <2>2. c.user = user
    BY <1>2, <2>1 DEF AccountRoom
  <2> QED
    BY <1>2, <1>6, <2>2 DEF ShouldSendToConnection
<1> QED
  BY <1>3, <1>4, <1>5, <1>6 DEF FilterTypes

\* Conversely, it reaches all of them, except the runtimes that hold a lease:
\* those hear of their session through durable notifications.
THEOREM WalkIsInTheRooms ==
    ASSUME NEW c, c.type \in ConnectionTypes, NEW user, NEW f, f.type \in FilterTypes,
           c.user = user, ShouldSendToConnection(c, f), ~c.replayOnly,
           f.type = "all-interested-in-session" /\ c.type = "session-scoped" => c.lease = None
    PROVE  ConnectionRooms(c) \intersect RecipientRooms(user, f) # {}
<1>1. AccountRoom(c.user, "all", None, None) \in ConnectionRooms(c)
  BY DEF ConnectionRooms
<1>2. CASE c.type = "user-scoped"
  <2>1. AccountRoom(c.user, "user", None, None) \in ConnectionRooms(c)
    BY <1>2 DEF ConnectionRooms
  <2> QED
    BY <1>1, <2>1 DEF RecipientRooms, FilterTypes
<1>3. CASE c.type = "session-scoped"
  <2>1. CASE f.type = "all-interested-in-session"
    <3>1. AccountRoom(c.user, "session", c.session, None) \in ConnectionRooms(c)
      BY <1>3, <2>1 DEF ConnectionRooms
    <3> QED
      BY <1>3, <2>1, <3>1 DEF RecipientRooms, ShouldSendToConnection
  <2>2. CASE f.type = "all-user-authenticated-connections"
    BY <1>1, <2>2 DEF RecipientRooms
  <2> QED
    BY <1>3, <2>1, <2>2 DEF ShouldSendToConnection, FilterTypes
<1>4. CASE c.type = "machine-scoped"
  <2>1. CASE f.type = "machine-scoped-only"
    <3>1. AccountRoom(c.user, "machine", c.machine, None) \in ConnectionRooms(c)
      BY <1>4 DEF ConnectionRooms
    <3> QED
      BY <1>4, <2>1, <3>1 DEF RecipientRooms, ShouldSendToConnection
  <2>2. CASE f.type = "all-user-authenticated-connections"
    BY <1>1, <2>2 DEF RecipientRooms
  <2> QED
    BY <1>4, <2>1, <2>2 DEF ShouldSendToConnection, FilterTypes
<1> QED
  BY <1>2, <1>3, <1>4 DEF ConnectionTypes

\* A durable notification reaches only whom the walk would choose.
LEMMA DurableReach ==
    ASSUME NEW c, c.type \in ConnectionTypes, NEW n,
           ConnectionRooms(c) \intersect DurableRooms(n) # {}
    PROVE  c.user = n.user /\ ShouldSendDurable(c, n)
<1>1. PICK r : r \in ConnectionRooms(c) /\ r \in DurableRooms(n)
  OBVIOUS
<1>2. /\ ~c.replayOnly
      /\ \/ r = AccountRoom(c.user, "all", None, None)
         \/ c.type = "user-scoped" /\ r = AccountRoom(c.user, "user", None, None)
         \/ c.type = "session-scoped" /\ r = AccountRoom(c.user, "session", c.session, c.lease)
         \/ c.type = "machine-scoped" /\ r = AccountRoom(c.user, "machine", c.machine, None)
  BY <1>1, OwnRooms
<1>3. CASE r = AccountRoom(n.user, "user", None, None)
  <2>1. c.user = n.user /\ c.type = "user-scoped"
    BY <1>2, <1>3 DEF AccountRoom
  <2> QED
    BY <2>1 DEF ShouldSendDurable
<1>4. CASE n.lease # None /\ r = AccountRoom(n.user, "session", n.session, n.lease)
  <2>1. /\ c.user = n.user /\ c.type = "session-scoped" /\ c.session = n.session
        /\ c.lease = n.lease
    BY <1>2, <1>4 DEF AccountRoom
  <2> QED
    BY <1>2, <1>4, <2>1 DEF ShouldSendDurable
<1>5. CASE n.legacy /\ r = AccountRoom(n.user, "session", n.session, None)
  <2>1. /\ c.user = n.user /\ c.type = "session-scoped" /\ c.session = n.session
        /\ c.lease = None
    BY <1>2, <1>5 DEF AccountRoom
  <2> QED
    BY <1>2, <1>5, <2>1 DEF ShouldSendDurable
<1> QED
  BY <1>1, <1>3, <1>4, <1>5 DEF DurableRooms, RuntimeConnectionLeaseRoom

\* The rooms of a durable notification are exactly those of the connections
\* that the walk would choose: the observers, and the runtime it names.
THEOREM DurableRoomsAreTheWalk ==
    ASSUME NEW c, c.type \in ConnectionTypes, c.type = "user-scoped" => ~c.replayOnly,
           NEW n, n.legacy => n.lease = None
    PROVE  ConnectionRooms(c) \intersect DurableRooms(n) # {}
           <=> c.user = n.user /\ ShouldSendDurable(c, n)
<1>1. ConnectionRooms(c) \intersect DurableRooms(n) # {}
      => c.user = n.user /\ ShouldSendDurable(c, n)
  BY DurableReach
<1>2. ASSUME c.user = n.user, ShouldSendDurable(c, n)
      PROVE  ConnectionRooms(c) \intersect DurableRooms(n) # {}
  <2>1. CASE c.type = "user-scoped"
    <3>1. AccountRoom(c.user, "user", None, None) \in ConnectionRooms(c)
      BY <2>1 DEF ConnectionRooms
    <3> QED
      BY <1>2, <3>1 DEF DurableRooms
  <2>2. CASE /\ c.type = "session-scoped" /\ ~c.replayOnly /\ c.session = n.session
             /\ c.lease # None /\ c.lease = n.lease
    <3>1. AccountRoom(c.user, "session", c.session, c.lease) \in ConnectionRooms(c)
      BY <2>2 DEF ConnectionRooms, RuntimeConnectionLeaseRoom
    <3> QED
      BY <1>2, <2>2, <3>1 DEF DurableRooms, RuntimeConnectionLeaseRoom
  <2>3. CASE /\ c.type = "session-scoped" /\ ~c.replayOnly /\ c.session = n.session
             /\ c.lease = None /\ n.legacy
    <3>1. AccountRoom(c.user, "session", c.session, None) \in ConnectionRooms(c)
      BY <2>3 DEF ConnectionRooms
    <3> QED
      BY <1>2, <2>3, <3>1 DEF DurableRooms
  <2> QED
    BY <1>2, <2>1, <2>2, <2>3 DEF ShouldSendDurable
<1> QED
  BY <1>1, <1>2
-----------------------------------------------------------------------------
(* Facts about the model's operators.                                      *)

\* The positions of the stages of a shutdown.
LEMMA StageFacts ==
    /\ DOMAIN Stages = 1 .. 6
    /\ Stage = {"up", "socketsClosed", "rpcClosed", "dispatcherStopped", "busStopped",
                "gone"}
    /\ Position("up") = 1 /\ Position("busStopped") = 5
    /\ \A x \in Stage \ {"gone"} : After(x) \in Stage \ {"up"}
    /\ After("up") = "socketsClosed"
<1>1. DOMAIN Stages = 1 .. 6
  BY DEF Stages
<1>2. /\ Stages[1] = "up" /\ Stages[2] = "socketsClosed" /\ Stages[3] = "rpcClosed"
      /\ Stages[4] = "dispatcherStopped" /\ Stages[5] = "busStopped" /\ Stages[6] = "gone"
  BY DEF Stages
<1>3. ASSUME NEW i \in 1 .. 6
      PROVE  i = 1 \/ i = 2 \/ i = 3 \/ i = 4 \/ i = 5 \/ i = 6
  OBVIOUS
<1>4. Stage = {"up", "socketsClosed", "rpcClosed", "dispatcherStopped", "busStopped",
               "gone"}
  <2>1. \A x \in Stage : \E i \in 1 .. 6 : x = Stages[i]
    BY <1>1 DEF Stage
  <2>2. \A i \in 1 .. 6 : Stages[i] \in Stage
    BY <1>1 DEF Stage
  <2>3. \A x \in Stage : x \in {"up", "socketsClosed", "rpcClosed", "dispatcherStopped",
                                "busStopped", "gone"}
    BY <1>2, <1>3, <2>1, Zenon
  <2>4. 1 \in 1 .. 6 /\ 2 \in 1 .. 6 /\ 3 \in 1 .. 6 /\ 4 \in 1 .. 6 /\ 5 \in 1 .. 6
        /\ 6 \in 1 .. 6
    OBVIOUS
  <2> QED
    BY <1>2, <2>2, <2>3, <2>4, Zenon
<1>5. ASSUME NEW j \in 1 .. 6
      PROVE  Position(Stages[j]) = j
  <2>1. ASSUME NEW i \in 1 .. 6, Stages[i] = Stages[j]
        PROVE  i = j
    <3>1. i = 1 \/ i = 2 \/ i = 3 \/ i = 4 \/ i = 5 \/ i = 6
      BY <1>3
    <3>2. j = 1 \/ j = 2 \/ j = 3 \/ j = 4 \/ j = 5 \/ j = 6
      BY <1>3
    <3>3. CASE j = 1
      BY <1>2, <2>1, <3>1, <3>3
    <3>4. CASE j = 2
      BY <1>2, <2>1, <3>1, <3>4
    <3>5. CASE j = 3
      BY <1>2, <2>1, <3>1, <3>5
    <3>6. CASE j = 4
      BY <1>2, <2>1, <3>1, <3>6
    <3>7. CASE j = 5
      BY <1>2, <2>1, <3>1, <3>7
    <3>8. CASE j = 6
      BY <1>2, <2>1, <3>1, <3>8
    <3> QED
      BY <3>2, <3>3, <3>4, <3>5, <3>6, <3>7, <3>8
  <2>2. j \in DOMAIN Stages
    BY <1>1
  <2> QED
    BY <1>1, <2>1, <2>2 DEF Position
<1>6. /\ Position("up") = 1 /\ Position("socketsClosed") = 2 /\ Position("rpcClosed") = 3
      /\ Position("dispatcherStopped") = 4 /\ Position("busStopped") = 5
  <2>1. 1 \in 1 .. 6 /\ 2 \in 1 .. 6 /\ 3 \in 1 .. 6 /\ 4 \in 1 .. 6 /\ 5 \in 1 .. 6
    OBVIOUS
  <2> QED
    BY <1>2, <1>5, <2>1, Zenon
<1>7. /\ After("up") = "socketsClosed" /\ After("socketsClosed") = "rpcClosed"
      /\ After("rpcClosed") = "dispatcherStopped"
      /\ After("dispatcherStopped") = "busStopped" /\ After("busStopped") = "gone"
  <2>1. 1 + 1 = 2 /\ 2 + 1 = 3 /\ 3 + 1 = 4 /\ 4 + 1 = 5 /\ 5 + 1 = 6
    OBVIOUS
  <2> QED
    BY <1>2, <1>6, <2>1, Zenon DEF After
<1>8. \A x \in Stage \ {"gone"} : After(x) \in Stage \ {"up"}
  BY <1>4, <1>7
<1> QED
  BY <1>1, <1>4, <1>6, <1>7, <1>8

Budgeted == {"events", "messages", "publications", "leaves", "faults"}

\* Spending changes one bound and leaves the scopes alone.
LEMMA Spent ==
    ASSUME IsPlan(plan), NEW what \in Budgeted, Spend(what)
    PROVE  /\ IsPlan(plan') /\ plan'.scope = plan.scope
           /\ plan'.events \in Nat /\ plan'.publications \in Nat
           /\ plan'.events <= plan.events /\ plan'.publications <= plan.publications
           /\ what = "events" => plan.events \in Nat /\ plan.events > plan'.events
           /\ what = "publications" =>
                plan.publications \in Nat /\ plan.publications > plan'.publications
<1> DEFINE q == plan
<1>1. /\ plan = [scope |-> q.scope, events |-> q.events, messages |-> q.messages,
                 publications |-> q.publications, leaves |-> q.leaves, stops |-> q.stops,
                 faults |-> q.faults]
      /\ \A s \in Socket : IsScope(q.scope[s])
      /\ q.events \in Nat /\ q.messages \in Nat /\ q.publications \in Nat
      /\ q.leaves \in Nat /\ q.stops \in Nat /\ q.faults \in Nat
  BY DEF IsPlan
<1>2. plan[what] > 0 /\ plan' = [plan EXCEPT ![what] = plan[what] - 1]
  BY DEF Spend
<1>3. CASE what = "events"
  <2>1. /\ plan' = [scope |-> q.scope, events |-> q.events - 1, messages |-> q.messages, publications |-> q.publications,
                    leaves |-> q.leaves, stops |-> q.stops, faults |-> q.faults]
        /\ q.events > 0
    BY <1>1, <1>2, <1>3, Zenon
  <2> QED
    BY <1>1, <1>3, <2>1 DEF IsPlan
<1>4. CASE what = "messages"
  <2>1. /\ plan' = [scope |-> q.scope, events |-> q.events, messages |-> q.messages - 1, publications |-> q.publications,
                    leaves |-> q.leaves, stops |-> q.stops, faults |-> q.faults]
        /\ q.messages > 0
    BY <1>1, <1>2, <1>4, Zenon
  <2> QED
    BY <1>1, <1>4, <2>1 DEF IsPlan
<1>5. CASE what = "publications"
  <2>1. /\ plan' = [scope |-> q.scope, events |-> q.events, messages |-> q.messages, publications |-> q.publications - 1,
                    leaves |-> q.leaves, stops |-> q.stops, faults |-> q.faults]
        /\ q.publications > 0
    BY <1>1, <1>2, <1>5, Zenon
  <2> QED
    BY <1>1, <1>5, <2>1 DEF IsPlan
<1>6. CASE what = "leaves"
  <2>1. /\ plan' = [scope |-> q.scope, events |-> q.events, messages |-> q.messages, publications |-> q.publications,
                    leaves |-> q.leaves - 1, stops |-> q.stops, faults |-> q.faults]
        /\ q.leaves > 0
    BY <1>1, <1>2, <1>6, Zenon
  <2> QED
    BY <1>1, <1>6, <2>1 DEF IsPlan
<1>7. CASE what = "faults"
  <2>1. /\ plan' = [scope |-> q.scope, events |-> q.events, messages |-> q.messages, publications |-> q.publications,
                    leaves |-> q.leaves, stops |-> q.stops, faults |-> q.faults - 1]
        /\ q.faults > 0
    BY <1>1, <1>2, <1>7, Zenon
  <2> QED
    BY <1>1, <1>7, <2>1 DEF IsPlan
<1> QED
  BY <1>3, <1>4, <1>5, <1>6, <1>7 DEF Budgeted

\* A socket's connection is its scope with its lease.
LEMMA ConnectionIs ==
    ASSUME IsPlan(plan), NEW s \in Socket, NEW l
    PROVE  LET c == [Scope[s] EXCEPT !.lease = l]
           IN  /\ c.type = Scope[s].type /\ c.type \in ConnectionTypes
               /\ c.user = Scope[s].user /\ c.session = Scope[s].session
               /\ c.machine = Scope[s].machine /\ c.replayOnly = Scope[s].replayOnly
               /\ c.lease = l
<1> DEFINE d == Scope[s]
<1>1. /\ d = [type |-> d.type, user |-> d.user, session |-> d.session,
              machine |-> d.machine, lease |-> d.lease, claims |-> d.claims,
              replayOnly |-> d.replayOnly, home |-> d.home]
      /\ d.type \in ConnectionTypes
  BY DEF IsPlan, IsScope, Scope, ConnectionTypes
<1> HIDE DEF d
<1>2. LET c == [d EXCEPT !.lease = l]
      IN  /\ c.type = d.type /\ c.type \in ConnectionTypes
          /\ c.user = d.user /\ c.session = d.session
          /\ c.machine = d.machine /\ c.replayOnly = d.replayOnly
          /\ c.lease = l
  BY <1>1
<1> QED
  BY <1>2 DEF d

\* Whoever is reached by what was sent is entitled to it.
LEMMA ReachedAreEntitled ==
    ASSUME IsPlan(plan), NEW s \in Socket, NEW l, NEW m, NEW e, Brings(m, e), s # m.origin,
           IF "note" \in DOMAIN e THEN e.user = e.note.user ELSE e.filter.type \in FilterTypes,
           ConnectionRooms([Scope[s] EXCEPT !.lease = l]) \intersect m.rooms # {}
    PROVE  Entitled([Scope[s] EXCEPT !.lease = l], s, e)
<1>1. PICK c : c = [Scope[s] EXCEPT !.lease = l]
  OBVIOUS
<1>2. c.user = Scope[s].user /\ c.type \in ConnectionTypes
  BY <1>1, ConnectionIs
<1>3. ConnectionRooms(c) \intersect m.rooms # {}
  BY <1>1
<1>4. CASE "note" \in DOMAIN e
  <2>1. m.rooms = DurableRooms(e.note) /\ m.origin = e.note.origin /\ e.user = e.note.user
    BY <1>4 DEF Brings
  <2>2. c.user = e.note.user /\ ShouldSendDurable(c, e.note)
    BY <1>2, <1>3, <2>1, DurableReach
  <2> QED
    BY <1>1, <1>2, <1>4, <2>1, <2>2 DEF Entitled
<1>5. CASE "note" \notin DOMAIN e
  <2>1. m.rooms = RecipientRooms(e.user, e.filter) /\ e.filter.type \in FilterTypes
    BY <1>5 DEF Brings
  <2>2. c.user = e.user /\ ShouldSendToConnection(c, e.filter)
    BY <1>2, <1>3, <2>1, RoomsReachTheWalk
  <2> QED
    BY <1>1, <1>2, <1>5, <2>2 DEF Entitled
<1> QED
  BY <1>4, <1>5

\* The messages ms reach the sockets of process p: nobody hears one twice, and
\* nobody else hears it.
LEMMA Hear ==
    ASSUME IInv, NEW p, NEW ms, EmitLocal(p, ms), plan'.scope = plan.scope,
           sent \subseteq sent', Sent',
           \A e \in sent' \ sent : e.id \notin Ids,
           \A m \in ms : \E e \in sent' : Brings(m, e),
           \A m \in ms : \A s \in Socket : conn[s].at = p => m.id \notin got[s],
           \A s \in Socket : conn'[s].at = conn[s].at /\ conn'[s].lease = conn[s].lease
    PROVE  /\ AtMostOnce' /\ NobodyElse'
           /\ \A s \in Socket : got'[s] \subseteq Ids'
           /\ \A s \in Socket : conn'[s].state # "joined" => got'[s] = got[s]
           /\ \A s \in Socket : \A i \in got'[s] :
                i \in got[s] \/ (conn'[s].at = p /\ \E m \in ms : m.id = i)
<1>0. IsPlan(plan) /\ TypeOK /\ NobodyElse /\ dup = {}
  BY DEF IInv, AtMostOnce
<1> DEFINE heard(s) == {m \in ms : Reaches(conn', s, p, m.rooms, m.origin)}
<1>1. /\ got' = [s \in Socket |-> got[s] \union {m.id : m \in heard(s)}]
      /\ dup' = dup \union UNION {{<<s, m.id>> : m \in {m \in heard(s) : m.id \in got[s]}} :
                                    s \in Socket}
  BY DEF EmitLocal
<1>2. ASSUME NEW s \in Socket, NEW m \in ms, Reaches(conn', s, p, m.rooms, m.origin)
      PROVE  /\ conn'[s].state = "joined" /\ conn'[s].at = p /\ s # m.origin
             /\ ConnectionRooms([Scope[s] EXCEPT !.lease = conn'[s].lease])
                  \intersect m.rooms # {}
             /\ m.id \notin got[s]
  BY <1>2 DEF Reaches
<1>3. \A s \in Socket : \A i :
        i \in got'[s] <=> \/ i \in got[s]
                         \/ \E m \in ms : Reaches(conn', s, p, m.rooms, m.origin) /\ m.id = i
  BY <1>1
<1>4. AtMostOnce'
  <2>1. \A s \in Socket : {m \in heard(s) : m.id \in got[s]} = {}
    BY <1>2
  <2>2. \A s \in Socket : {<<s, m.id>> : m \in {m \in heard(s) : m.id \in got[s]}} = {}
    BY <2>1
  <2> QED
    BY <1>0, <1>1, <2>2, Zenon DEF AtMostOnce
<1> HIDE DEF heard
<1>5. \A s \in Socket : got[s] \subseteq Ids
  BY <1>0 DEF TypeOK, Ids
<1>6. \A s \in Socket : got'[s] \subseteq Ids'
  <2>1. \A e \in sent' : e.id \in Ids'
    BY DEF Ids
  <2>2. \A i \in Ids : i \in Ids'
    BY DEF Ids
  <2>3. \A m \in ms : m.id \in Ids'
    BY <2>1 DEF Brings
  <2> QED
    BY <1>2, <1>3, <1>5, <2>2, <2>3
<1>7. ASSUME NEW s \in Socket, conn'[s].state # "joined"
      PROVE  got'[s] = got[s]
  <2>1. \A m \in ms : ~Reaches(conn', s, p, m.rooms, m.origin)
    BY <1>2, <1>7
  <2>2. {m.id : m \in heard(s)} = {}
    BY <2>1 DEF heard
  <2>3. got'[s] = got[s] \union {m.id : m \in heard(s)}
    BY <1>1, Zenon
  <2> QED
    BY <2>2, <2>3
<1>8. ASSUME NEW s \in Socket, NEW i \in got'[s]
      PROVE  i \in got[s] \/ (conn'[s].at = p /\ \E m \in ms : m.id = i)
  <2>1. CASE i \notin got[s]
    <3>1. PICK m \in ms : Reaches(conn', s, p, m.rooms, m.origin) /\ m.id = i
      BY <1>3, <2>1, Zenon
    <3> QED
      BY <1>2, <3>1
  <2> QED
    BY <2>1
<1>9. NobodyElse'
  <2> SUFFICES ASSUME NEW s \in Socket, NEW e \in sent', e.id \in got'[s]
               PROVE  Entitled([Scope[s] EXCEPT !.lease = conn[s].lease], s, e)
    BY DEF NobodyElse, Entitled, Connection, Scope
  <2>1. CASE e.id \in got[s]
    <3>1. e \in sent
      BY <1>5, <2>1
    <3> QED
      BY <1>0, <2>1, <3>1 DEF NobodyElse, Entitled, Connection
  <2>2. CASE e.id \notin got[s]
    <3>1. PICK m \in ms : Reaches(conn', s, p, m.rooms, m.origin) /\ m.id = e.id
      BY <1>3, <2>2
    <3>2. PICK f \in sent' : Brings(m, f)
      BY <1>2, <3>1
    <3>3. f = e
      BY <3>1, <3>2 DEF Sent, Brings
    <3>4. IF "note" \in DOMAIN e THEN e.user = e.note.user ELSE e.filter.type \in FilterTypes
      BY DEF Sent
    <3>5. /\ s # m.origin
          /\ ConnectionRooms([Scope[s] EXCEPT !.lease = conn[s].lease]) \intersect m.rooms # {}
      BY <1>2, <3>1
    <3> QED
      BY <1>0, <3>2, <3>3, <3>4, <3>5, ReachedAreEntitled
  <2> QED
    BY <2>1, <2>2
<1> QED
  BY <1>4, <1>6, <1>7, <1>8, <1>9
-----------------------------------------------------------------------------
(* The steps.                                                              *)

\* Sockets that come and go keep their process and their lease.
Steady ==
    \A s \in Socket :
        /\ conn'[s].at = conn[s].at /\ conn'[s].lease = conn[s].lease
        /\ conn'[s].state = "new" <=> conn[s].state = "new"
        /\ conn'[s].state = "admitted" => conn[s].state = "admitted"
        /\ conn'[s].state = "joined" => conn[s].state \in {"admitted", "joined"}

\* The types of the connections, and where the connected ones are.
ConnTypes ==
    /\ pod \in [Pod -> Stage]
    /\ conn \in [Socket -> [state : {"new", "admitted", "joined", "left", "evicted"},
                            at : Pod \union {None}, lease : Socket \union {None}]]
    /\ lease \in [holder : Socket \union {None}, managed : BOOLEAN]
    /\ lease.holder # None => lease.managed /\ conn[lease.holder].lease = lease.holder
    /\ \A s \in Socket : conn[s].state \in {"admitted", "joined"} =>
         conn[s].at \in Pod /\ pod[conn[s].at] = "up"

\* An eviction that is on its way keeps naming a displaced lease.
LEMMA DisplacedStays ==
    ASSUME NEW m, Displaced(m), plan'.scope = plan.scope, None \notin Socket,
           lease'.holder \in {None, lease.holder},
           \A s \in Socket : conn[s].state # "new" => conn'[s].state # "new"
    PROVE  Displaced(m)'
BY DEF Displaced, Scope

\* Events are emitted: to the sockets of their process, and to the others.
LEMMA SendInv ==
    ASSUME IInv, NEW p \in Pod, NEW ms, NEW es, EmitLocal(p, ms),
           IsPlan(plan'), plan'.scope = plan.scope,
           sent' = sent \union es,
           \A e \in es : e.id \notin Ids /\ "note" \notin DOMAIN e /\ e.filter.type \in FilterTypes,
           \A e, f \in es : e.id = f.id => e = f,
           \A m \in ms : IsMessage(m) /\ \E e \in es : Brings(m, e),
           \A m, n \in ms : m.id = n.id => m = n,
           wire' \subseteq wire \union ToOthers(p, "emit", ms),
           ConnTypes', Steady, lease'.holder \in {None, lease.holder}, Fresh'
    PROVE  IInv'
<1> USE DeliveryAssumption
<1>0. IsPlan(plan) /\ TypeOK /\ Placed /\ Fresh /\ Sent /\ OnItsWay
  BY DEF IInv
<1>1. Sent'
  <2>1. \A e \in sent : e.id \in Ids
    BY DEF Ids
  <2> QED
    BY <1>0, <2>1 DEF Sent
<1>2. \A s \in Socket : got[s] \subseteq Ids
  BY <1>0 DEF TypeOK, Ids
<1>3. \A m \in ms : \A s \in Socket : m.id \notin got[s]
  BY <1>2 DEF Brings
<1>4. /\ \A e \in sent' \ sent : e.id \notin Ids
      /\ \A m \in ms : \E e \in sent' : Brings(m, e)
      /\ \A s \in Socket : conn'[s].at = conn[s].at /\ conn'[s].lease = conn[s].lease
      /\ sent \subseteq sent'
  BY DEF Steady
<1>5. /\ AtMostOnce' /\ NobodyElse'
      /\ \A s \in Socket : got'[s] \subseteq Ids'
      /\ \A s \in Socket : conn'[s].state # "joined" => got'[s] = got[s]
      /\ \A s \in Socket : \A i \in got'[s] :
           i \in got[s] \/ (conn'[s].at = p /\ \E m \in ms : m.id = i)
  BY <1>1, <1>3, <1>4, Hear
<1>6. ASSUME NEW w \in wire'
      PROVE  \/ w \in wire
             \/ /\ w = [to |-> w.to, act |-> w.act, msg |-> w.msg]
                /\ w.to \in Pod /\ w.to # p /\ w.act = "emit" /\ w.msg \in ms
  BY DEF ToOthers
<1>7. TypeOK'
  <2>1. \A w \in wire' : w.to \in Pod /\ w.act \in {"emit", "durable", "evict"}
    BY <1>0, <1>6 DEF TypeOK
  <2> QED
    BY <1>5, <2>1 DEF TypeOK, ConnTypes, Ids
<1>8. Placed'
  BY <1>0, <1>5 DEF Placed, ConnTypes, Steady
<1>9. OnItsWay'
  <2>1. ASSUME NEW w \in wire'
        PROVE  /\ w = [to |-> w.to, act |-> w.act, msg |-> w.msg] /\ IsMessage(w.msg)
               /\ w.act = "evict" => Displaced(w.msg)'
               /\ w.act # "evict" =>
                    /\ \E e \in sent' : Brings(w.msg, e)
                    /\ \A s \in Socket : conn'[s].at = w.to => w.msg.id \notin got'[s]
    <3>1. CASE w \in wire
      <4>1. /\ w = [to |-> w.to, act |-> w.act, msg |-> w.msg] /\ IsMessage(w.msg)
            /\ w.act = "evict" => Displaced(w.msg)
            /\ w.act # "evict" =>
                 /\ \E e \in sent : Brings(w.msg, e)
                 /\ \A s \in Socket : conn[s].at = w.to => w.msg.id \notin got[s]
        BY <1>0, <3>1 DEF OnItsWay
      <4>2. w.act = "evict" => Displaced(w.msg)'
        BY <4>1, DisplacedStays DEF Steady
      <4>3. w.act # "evict" => w.msg.id \in Ids
        BY <4>1 DEF Brings, Ids
      <4>4. \A m \in ms : m.id \notin Ids
        BY DEF Brings
      <4>5. ASSUME w.act # "evict", NEW s \in Socket, conn'[s].at = w.to
            PROVE  w.msg.id \notin got'[s]
        BY <1>4, <1>5, <4>1, <4>3, <4>4, <4>5
      <4> QED
        BY <4>1, <4>2, <4>5
    <3>2. CASE /\ w = [to |-> w.to, act |-> w.act, msg |-> w.msg]
               /\ w.to \in Pod /\ w.to # p /\ w.act = "emit" /\ w.msg \in ms
      BY <1>3, <1>4, <1>5, <3>2
    <3> QED
      BY <1>6, <3>1, <3>2
  <2>2. ASSUME NEW v \in wire', NEW w \in wire', v.act # "evict", w.act # "evict",
               v.to = w.to, v.msg.id = w.msg.id
        PROVE  v = w
    <3>1. ASSUME NEW x \in wire, x.act # "evict" PROVE x.msg.id \in Ids
      BY <1>0, <3>1 DEF OnItsWay, Brings, Ids
    <3>2. \A m \in ms : m.id \notin Ids
      BY DEF Brings
    <3>3. CASE v \in wire /\ w \in wire
      BY <1>0, <2>2, <3>3 DEF OnItsWay
    <3>4. CASE v \notin wire /\ w \notin wire
      <4>1. v.msg = w.msg /\ v.act = "emit" /\ w.act = "emit"
        BY <1>6, <2>2, <3>4
      <4> QED
        BY <1>6, <2>2, <3>4, <4>1
    <3> QED
      BY <1>6, <2>2, <3>1, <3>2, <3>3, <3>4
  <2> QED
    BY <2>1, <2>2 DEF OnItsWay
<1> QED
  BY <1>1, <1>5, <1>7, <1>8, <1>9 DEF IInv

\* What is sent anew leaves the identities unique.
LEMMA FreshStays ==
    ASSUME Fresh, Steady, IsPlan(plan), NEW J, \A i \in Ids' : i \in Ids \/ i \in J,
           plan'.events \in Nat, plan'.publications \in Nat,
           plan'.events <= plan.events, plan'.publications <= plan.publications,
           \A n \in Nat : <<"event", n>> \in J => n > plan'.events,
           \A n \in Nat : <<"durable", n>> \in J => n > plan'.publications,
           \A s \in Socket :
             /\ <<"online", s>> \in J => conn'[s].state \notin {"new", "admitted"}
             /\ <<"offline", s>> \in J => conn'[s].state \notin {"new", "admitted", "joined"}
    PROVE  Fresh'
<1>0. plan.events \in Nat /\ plan.publications \in Nat
  BY DEF IsPlan
<1>1. ASSUME NEW n \in Nat, <<"event", n>> \in Ids' PROVE n > plan'.events
  <2>1. <<"event", n>> \in Ids => n > plan.events
    BY DEF Fresh
  <2> QED
    BY <1>0, <1>1, <2>1
<1>2. ASSUME NEW n \in Nat, <<"durable", n>> \in Ids' PROVE n > plan'.publications
  <2>1. <<"durable", n>> \in Ids => n > plan.publications
    BY DEF Fresh
  <2> QED
    BY <1>0, <1>2, <2>1
<1>3. ASSUME NEW s \in Socket
      PROVE  /\ <<"online", s>> \in Ids' => conn'[s].state \notin {"new", "admitted"}
             /\ <<"offline", s>> \in Ids' => conn'[s].state \notin {"new", "admitted", "joined"}
  BY DEF Fresh, Steady
<1> QED
  BY <1>1, <1>2, <1>3 DEF Fresh

\* Steps by which nobody hears or says anything.
LEMMA QuietInv ==
    ASSUME IInv, UNCHANGED <<sent, got, dup>>, wire' \subseteq wire,
           IsPlan(plan'), plan'.scope = plan.scope,
           plan'.events <= plan.events, plan'.publications <= plan.publications,
           ConnTypes', Steady, lease'.holder \in {None, lease.holder}
    PROVE  IInv'
<1> USE DeliveryAssumption
<1>0. IsPlan(plan) /\ TypeOK /\ Placed /\ Fresh /\ Sent /\ OnItsWay /\ NobodyElse /\ AtMostOnce
  BY DEF IInv
<1>1. Sent' /\ AtMostOnce'
  BY <1>0 DEF Sent, AtMostOnce
<1>2. Fresh'
  <2>1. plan'.events \in Nat /\ plan'.publications \in Nat
    BY DEF IsPlan
  <2>2. PICK J : J = {}
    OBVIOUS
  <2>3. \A i \in Ids' : i \in Ids \/ i \in J
    BY DEF Ids
  <2>4. \A i : i \notin J
    BY <2>2
  <2> QED
    BY <1>0, <2>1, <2>3, <2>4, FreshStays
<1>3. TypeOK'
  BY <1>0 DEF TypeOK, ConnTypes
<1>4. Placed'
  BY <1>0 DEF Placed, ConnTypes, Steady
<1>5. NobodyElse'
  BY <1>0 DEF NobodyElse, Connection, Scope, Steady
<1>6. OnItsWay'
  <2>1. \A m : Displaced(m) => Displaced(m)'
    BY DisplacedStays DEF Steady
  <2> QED
    BY <1>0, <2>1 DEF OnItsWay, Steady
<1> QED
  BY <1>1, <1>2, <1>3, <1>4, <1>5, <1>6 DEF IInv

\* A notification or an event arrives at a process.
LEMMA ReceiveInv ==
    ASSUME IInv, NEW w \in wire, w.act # "evict", EmitLocal(w.to, {w.msg}),
           wire' = wire \ {w}, UNCHANGED <<pod, conn, lease, sent, plan>>
    PROVE  IInv'
<1> USE DeliveryAssumption
<1>0. IsPlan(plan) /\ TypeOK /\ Placed /\ Fresh /\ Sent /\ OnItsWay
  BY DEF IInv
<1>1. Sent' /\ Fresh' /\ Ids' = Ids
  BY <1>0 DEF Sent, Fresh, Ids
<1>2. /\ \E e \in sent : Brings(w.msg, e)
      /\ \A s \in Socket : conn[s].at = w.to => w.msg.id \notin got[s]
  BY <1>0 DEF OnItsWay
<1>3. PICK p : p = w.to
  OBVIOUS
<1>4. PICK ms : ms = {w.msg}
  OBVIOUS
<1>5. EmitLocal(p, ms)
  BY <1>3, <1>4
<1>6. /\ AtMostOnce' /\ NobodyElse'
      /\ \A s \in Socket : got'[s] \subseteq Ids'
      /\ \A s \in Socket : conn'[s].state # "joined" => got'[s] = got[s]
      /\ \A s \in Socket : \A i \in got'[s] :
           i \in got[s] \/ (conn'[s].at = p /\ \E m \in ms : m.id = i)
  BY <1>1, <1>2, <1>3, <1>4, <1>5, Hear
<1>7. TypeOK'
  BY <1>0, <1>6 DEF TypeOK, Ids
<1>8. Placed'
  BY <1>0, <1>6 DEF Placed
<1>9. OnItsWay'
  <2>1. \A m : Displaced(m) => Displaced(m)'
    BY DEF Displaced, Scope
  <2>2. ASSUME NEW v \in wire', v.act # "evict", NEW s \in Socket, conn'[s].at = v.to
        PROVE  v.msg.id \notin got'[s]
    <3>1. v \in wire /\ v # w /\ v.msg.id \notin got[s]
      BY <1>0, <2>2 DEF OnItsWay
    <3>2. v.to = w.to => v.msg.id # w.msg.id
      BY <1>0, <2>2, <3>1 DEF OnItsWay
    <3> QED
      BY <1>3, <1>4, <1>6, <2>2, <3>1, <3>2
  <2>3. ASSUME NEW v \in wire'
        PROVE  /\ v = [to |-> v.to, act |-> v.act, msg |-> v.msg] /\ IsMessage(v.msg)
               /\ v.act = "evict" => Displaced(v.msg)'
               /\ v.act # "evict" => \E e \in sent' : Brings(v.msg, e)
    BY <1>0, <2>1 DEF OnItsWay
  <2>4. \A v, x \in wire' :
          v.act # "evict" /\ x.act # "evict" /\ v.to = x.to /\ v.msg.id = x.msg.id => v = x
    BY <1>0 DEF OnItsWay
  <2> QED
    BY <2>2, <2>3, <2>4 DEF OnItsWay
<1> QED
  BY <1>0, <1>1, <1>6, <1>7, <1>8, <1>9 DEF IInv

\* Sockets that go keep their process and their lease.
LEMMA GoneSteady ==
    ASSUME TypeOK, NEW S, NEW state \in {"left", "evicted"}, Gone(S, state),
           \A s \in S : conn[s].state \in {"admitted", "joined"}
    PROVE  /\ Steady /\ lease'.holder \in {None, lease.holder}
           /\ conn' \in [Socket -> [state : {"new", "admitted", "joined", "left", "evicted"},
                                    at : Pod \union {None}, lease : Socket \union {None}]]
           /\ lease' \in [holder : Socket \union {None}, managed : BOOLEAN]
           /\ lease'.holder # None => lease'.managed /\ conn'[lease'.holder].lease = lease'.holder
           /\ \A s \in Socket : conn'[s].state = IF s \in S THEN state ELSE conn[s].state
<1> USE DeliveryAssumption
<1>1. \A s \in Socket : /\ conn[s] \in [state : {"new", "admitted", "joined", "left", "evicted"},
                                       at : Pod \union {None}, lease : Socket \union {None}]
                        /\ conn'[s] = IF s \in S THEN [conn[s] EXCEPT !.state = state] ELSE conn[s]
  BY DEF TypeOK, Gone
<1>2. \A s \in Socket :
        /\ conn'[s].at = conn[s].at /\ conn'[s].lease = conn[s].lease
        /\ conn'[s].state = IF s \in S THEN state ELSE conn[s].state
        /\ conn'[s] \in [state : {"new", "admitted", "joined", "left", "evicted"},
                         at : Pod \union {None}, lease : Socket \union {None}]
  BY <1>1
<1>3. DOMAIN conn' = Socket /\ conn' = [s \in Socket |-> conn'[s]]
  BY DEF Gone
<1>4. conn' \in [Socket -> [state : {"new", "admitted", "joined", "left", "evicted"},
                            at : Pod \union {None}, lease : Socket \union {None}]]
  BY <1>2, <1>3
<1>5. lease' = lease \/ lease' = [lease EXCEPT !.holder = None]
  BY DEF Gone
<1>6. /\ lease'.holder \in {None, lease.holder}
      /\ lease' \in [holder : Socket \union {None}, managed : BOOLEAN]
      /\ lease'.holder # None => lease' = lease
  BY <1>5 DEF TypeOK
<1>7. lease'.holder # None => lease'.managed /\ conn'[lease'.holder].lease = lease'.holder
  BY <1>2, <1>6 DEF TypeOK
<1>8. Steady
  BY <1>2 DEF Steady
<1> QED
  BY <1>2, <1>4, <1>6, <1>7, <1>8

\* The messages of the coming or going of machines.
Activity(kind, M) == {Event(<<kind, s>>, Scope[s].user, UserOnly) : s \in M}

\* What a machine's coming or going sends: one event each for the observers.
LEMMA ActivityMessages ==
    ASSUME NEW kind, NEW M \in SUBSET Socket, NEW ms, NEW es,
           ms = Activity(kind, M),
           es = Record(kind, M, UserOnly),
           \A s \in M : <<kind, s>> \notin Ids
    PROVE  /\ \A e \in es : /\ e.id \notin Ids /\ "note" \notin DOMAIN e
                            /\ e.filter.type \in FilterTypes
           /\ \A e, f \in es : e.id = f.id => e = f
           /\ \A m \in ms : IsMessage(m) /\ \E e \in es : Brings(m, e)
           /\ \A m, n \in ms : m.id = n.id => m = n
           /\ \A e \in es : \E s \in M : e.id = <<kind, s>>
<1> DEFINE rec(s) == [id |-> <<kind, s>>, user |-> Scope[s].user, filter |-> UserOnly,
                      audience |-> Audience(Scope[s].user, UserOnly)]
<1>1. \A e : e \in es <=> \E s \in M : e = rec(s)
  BY DEF Record
<1>2. \A m : m \in ms <=> \E s \in M : m = Event(<<kind, s>>, Scope[s].user, UserOnly)
  BY DEF Activity
<1>3. UserOnly.type \in FilterTypes
  BY DEF UserOnly, FilterTypes
<1>4. ASSUME NEW s \in M
      PROVE  /\ rec(s).id = <<kind, s>> /\ rec(s).user = Scope[s].user
             /\ rec(s).filter = UserOnly /\ "note" \notin DOMAIN rec(s)
  OBVIOUS
<1>5. ASSUME NEW s \in M
      PROVE  LET m == Event(<<kind, s>>, Scope[s].user, UserOnly)
             IN  IsMessage(m) /\ m.id = <<kind, s>> /\ m.rooms = RecipientRooms(Scope[s].user, UserOnly)
  BY DEF Event, IsMessage
<1> HIDE DEF rec
<1>6. \A s \in M : Brings(Event(<<kind, s>>, Scope[s].user, UserOnly), rec(s))
  BY <1>4, <1>5 DEF Brings
<1>7. \A s, t \in M : <<kind, s>> = <<kind, t>> => s = t
  OBVIOUS
<1>8. \A e \in es : \E s \in M : e.id = <<kind, s>>
  BY <1>1, <1>4
<1>9. \A e \in es : e.id \notin Ids /\ "note" \notin DOMAIN e /\ e.filter.type \in FilterTypes
  <2> SUFFICES ASSUME NEW e \in es
               PROVE  e.id \notin Ids /\ "note" \notin DOMAIN e /\ e.filter.type \in FilterTypes
    OBVIOUS
  <2>1. PICK s \in M : e = rec(s)
    BY <1>1
  <2>2. e.id = <<kind, s>> /\ e.filter = UserOnly /\ "note" \notin DOMAIN e
    BY <1>4, <2>1
  <2> QED
    BY <1>3, <2>2
<1>10. \A e, f \in es : e.id = f.id => e = f
  BY <1>1, <1>4, <1>7
<1>11. ASSUME NEW m \in ms PROVE IsMessage(m) /\ \E e \in es : Brings(m, e)
  <2>1. PICK s \in M : m = Event(<<kind, s>>, Scope[s].user, UserOnly)
    BY <1>2
  <2>2. rec(s) \in es
    BY <1>1
  <2> QED
    BY <1>5, <1>6, <2>1, <2>2
<1>12. \A m, n \in ms : m.id = n.id => m = n
  <2> SUFFICES ASSUME NEW m \in ms, NEW n \in ms, m.id = n.id
               PROVE  m = n
    OBVIOUS
  <2>1. PICK s \in M : m = Event(<<kind, s>>, Scope[s].user, UserOnly)
    BY <1>2
  <2>2. PICK t \in M : n = Event(<<kind, t>>, Scope[t].user, UserOnly)
    BY <1>2
  <2>3. m.id = <<kind, s>> /\ n.id = <<kind, t>>
    BY <1>5, <2>1, <2>2
  <2> QED
    BY <1>7, <2>1, <2>2, <2>3
<1> QED
  BY <1>8, <1>9, <1>10, <1>11, <1>12

\* Machines come or go, and the observers of their accounts are told.
LEMMA ActivityInv ==
    ASSUME IInv, NEW p \in Pod, NEW kind \in {"online", "offline"}, NEW M \in SUBSET Socket,
           NEW ms, ms = Activity(kind, M),
           EmitLocal(p, ms), sent' = sent \union Record(kind, M, UserOnly),
           wire' \subseteq wire \union ToOthers(p, "emit", ms),
           IsPlan(plan'), plan'.scope = plan.scope,
           plan'.events <= plan.events, plan'.publications <= plan.publications,
           ConnTypes', Steady, lease'.holder \in {None, lease.holder},
           \A s \in M : /\ kind = "online" => conn[s].state = "admitted" /\ conn'[s].state = "joined"
                        /\ kind = "offline" => conn[s].state = "joined" /\ conn'[s].state = "left"
    PROVE  IInv'
<1>0. IsPlan(plan) /\ Fresh
  BY DEF IInv
<1>1. PICK es : es = Record(kind, M, UserOnly)
  OBVIOUS
<1>2. \A s \in M : <<kind, s>> \notin Ids
  BY <1>0 DEF Fresh
<1>3. /\ \A e \in es : /\ e.id \notin Ids /\ "note" \notin DOMAIN e
                       /\ e.filter.type \in FilterTypes
      /\ \A e, f \in es : e.id = f.id => e = f
      /\ \A m \in ms : IsMessage(m) /\ \E e \in es : Brings(m, e)
      /\ \A m, n \in ms : m.id = n.id => m = n
      /\ \A e \in es : \E s \in M : e.id = <<kind, s>>
  BY <1>1, <1>2, ActivityMessages
<1>4. Fresh'
  <2>1. PICK J : J = {<<kind, s>> : s \in M}
    OBVIOUS
  <2>2. \A i \in Ids' : i \in Ids \/ i \in J
    <3>1. \A e \in es : e.id \in J
      BY <1>3, <2>1
    <3> QED
      BY <1>1, <3>1 DEF Ids
  <2>3. \A n : <<"event", n>> \notin J /\ <<"durable", n>> \notin J
    BY <2>1
  <2>4. ASSUME NEW s \in Socket
        PROVE  /\ <<"online", s>> \in J => conn'[s].state \notin {"new", "admitted"}
               /\ <<"offline", s>> \in J => conn'[s].state \notin {"new", "admitted", "joined"}
    BY <2>1
  <2>5. plan'.events \in Nat /\ plan'.publications \in Nat
    BY DEF IsPlan
  <2> QED
    BY <1>0, <2>2, <2>3, <2>4, <2>5, FreshStays
<1>5. sent' = sent \union es
  BY <1>1
<1> QED
  BY <1>3, <1>4, <1>5, SendInv

\* A message of an account goes out.
LEMMA EmitInv ==
    ASSUME IInv, NEW p \in Pod, NEW user, NEW f \in Filters, Emit(p, user, f)
    PROVE  IInv'
<1>0. IsPlan(plan) /\ TypeOK /\ Placed /\ Fresh
  BY DEF IInv
<1> DEFINE id == <<"event", plan.events>>
<1>1. PICK m : m = Event(id, user, f)
  OBVIOUS
<1>2. PICK ms : ms = {m}
  OBVIOUS
<1>3. PICK e : e = [id |-> id, user |-> user, filter |-> f, audience |-> Audience(user, f)]
  OBVIOUS
<1>4. PICK es : es = {e}
  OBVIOUS
<1>5. /\ Spend("events") /\ UNCHANGED <<pod, conn, lease, outbox, lost>>
      /\ EmitLocal(p, ms) /\ wire' = wire \union ToOthers(p, "emit", ms)
      /\ sent' = sent \union es
  BY <1>1, <1>2, <1>3, <1>4, Zenon DEF Emit
<1>6. "events" \in Budgeted
  BY DEF Budgeted
<1>7. /\ IsPlan(plan') /\ plan'.scope = plan.scope
      /\ plan'.events \in Nat /\ plan'.publications \in Nat
      /\ plan'.events <= plan.events /\ plan'.publications <= plan.publications
      /\ plan.events \in Nat /\ plan.events > plan'.events
  BY <1>0, <1>5, <1>6, Spent
<1>8. id \notin Ids
  BY <1>0, <1>7 DEF Fresh
<1>9. f.type \in FilterTypes
  BY DEF Filters, FilterTypes
<1>10. e.id = id /\ e.user = user /\ e.filter = f /\ "note" \notin DOMAIN e
  BY <1>3
<1>11. IsMessage(m) /\ m.id = id /\ m.rooms = RecipientRooms(user, f)
  BY <1>1 DEF Event, IsMessage
<1>12. Brings(m, e)
  BY <1>10, <1>11 DEF Brings
<1>13. ConnTypes' /\ Steady /\ lease'.holder \in {None, lease.holder}
  BY <1>0, <1>5 DEF ConnTypes, Steady, TypeOK, Placed
<1>14. Fresh'
  <2>1. PICK J : J = {id}
    OBVIOUS
  <2>2. \A i \in Ids' : i \in Ids \/ i \in J
    BY <1>4, <1>5, <1>10, <2>1 DEF Ids
  <2>3. /\ \A n \in Nat : <<"event", n>> \in J => n > plan'.events
        /\ \A n : <<"durable", n>> \notin J
        /\ \A s : <<"online", s>> \notin J /\ <<"offline", s>> \notin J
    BY <1>7, <2>1
  <2> QED
    BY <1>0, <1>7, <1>13, <2>2, <2>3, FreshStays
<1>15. /\ \A x \in es : /\ x.id \notin Ids /\ "note" \notin DOMAIN x
                        /\ x.filter.type \in FilterTypes
       /\ \A x, y \in es : x.id = y.id => x = y
       /\ \A x \in ms : IsMessage(x) /\ \E y \in es : Brings(x, y)
       /\ \A x, y \in ms : x.id = y.id => x = y
  <2> HIDE DEF id
  <2> QED
    BY <1>2, <1>4, <1>8, <1>9, <1>10, <1>11, <1>12
<1> QED
  BY <1>5, <1>7, <1>13, <1>14, <1>15, SendInv

\* A socket joins its rooms.
LEMMA JoinInv ==
    ASSUME IInv, NEW s \in Socket, Join(s)
    PROVE  IInv'
<1> USE DeliveryAssumption
<1>0. IsPlan(plan) /\ TypeOK /\ Placed
  BY DEF IInv
<1>1. PICK p : p = conn[s].at
  OBVIOUS
<1>2. PICK M : M = {x \in {s} : Scope[x].type = "machine-scoped"}
  OBVIOUS
<1>3. PICK ms : ms = Activity("online", M)
  OBVIOUS
<1>4. /\ conn[s].state = "admitted" /\ conn' = [conn EXCEPT ![s].state = "joined"]
      /\ UNCHANGED <<pod, lease, outbox, lost, plan>>
  BY DEF Join
<1>5. /\ EmitLocal(p, ms) /\ wire' = wire \union ToOthers(p, "emit", ms)
      /\ sent' = sent \union Record("online", M, UserOnly)
  BY <1>1, <1>2, <1>3, Zenon DEF Join, MachineActivity, Activity
<1>6. p \in Pod /\ M \in SUBSET Socket /\ \A x \in M : x = s
  BY <1>0, <1>1, <1>2, <1>4 DEF Placed
<1>7. /\ conn' \in [Socket -> [state : {"new", "admitted", "joined", "left", "evicted"},
                               at : Pod \union {None}, lease : Socket \union {None}]]
      /\ \A x \in Socket : /\ conn'[x].at = conn[x].at /\ conn'[x].lease = conn[x].lease
                           /\ conn'[x].state = IF x = s THEN "joined" ELSE conn[x].state
  BY <1>0, <1>4 DEF TypeOK
<1>8. Steady
  BY <1>4, <1>7 DEF Steady
<1>9. ConnTypes' /\ lease'.holder \in {None, lease.holder}
  BY <1>0, <1>4, <1>7 DEF ConnTypes, TypeOK, Placed
<1>10. /\ IsPlan(plan') /\ plan'.scope = plan.scope
       /\ plan'.events <= plan.events /\ plan'.publications <= plan.publications
  BY <1>0, <1>4 DEF IsPlan
<1>11. \A x \in M : conn[x].state = "admitted" /\ conn'[x].state = "joined"
  BY <1>4, <1>6, <1>7
<1> QED
  BY <1>3, <1>5, <1>6, <1>8, <1>9, <1>10, <1>11, ActivityInv

\* A socket disconnects.
LEMMA DisconnectInv ==
    ASSUME IInv, NEW s \in Socket, Disconnect(s)
    PROVE  IInv'
<1>0. IsPlan(plan) /\ TypeOK /\ Placed
  BY DEF IInv
<1>1. PICK p : p = conn[s].at
  OBVIOUS
<1>2. PICK M : M = {x \in {s} : Scope[x].type = "machine-scoped"}
  OBVIOUS
<1>3. PICK ms : ms = Activity("offline", M)
  OBVIOUS
<1>4. PICK S : S = {s}
  OBVIOUS
<1>5. /\ conn[s].state = "joined" /\ Spend("leaves") /\ Gone(S, "left")
      /\ UNCHANGED <<pod, outbox, lost>>
  BY <1>4 DEF Disconnect
<1>6. /\ EmitLocal(p, ms) /\ wire' = wire \union ToOthers(p, "emit", ms)
      /\ sent' = sent \union Record("offline", M, UserOnly)
  BY <1>1, <1>2, <1>3, Zenon DEF Disconnect, MachineActivity, Activity
<1>7. p \in Pod /\ M \in SUBSET Socket /\ \A x \in M : x = s
  BY <1>0, <1>1, <1>2, <1>5 DEF Placed
<1>8. \A x \in S : conn[x].state \in {"admitted", "joined"}
  BY <1>4, <1>5
<1>9. /\ Steady /\ lease'.holder \in {None, lease.holder}
      /\ conn' \in [Socket -> [state : {"new", "admitted", "joined", "left", "evicted"},
                               at : Pod \union {None}, lease : Socket \union {None}]]
      /\ lease' \in [holder : Socket \union {None}, managed : BOOLEAN]
      /\ lease'.holder # None => lease'.managed /\ conn'[lease'.holder].lease = lease'.holder
      /\ \A x \in Socket : conn'[x].state = IF x \in S THEN "left" ELSE conn[x].state
  BY <1>0, <1>5, <1>8, GoneSteady
<1>10. ConnTypes'
  BY <1>0, <1>5, <1>9 DEF ConnTypes, TypeOK, Placed, Steady
<1>11. "leaves" \in Budgeted
  BY DEF Budgeted
<1>12. /\ IsPlan(plan') /\ plan'.scope = plan.scope
       /\ plan'.events <= plan.events /\ plan'.publications <= plan.publications
  BY <1>0, <1>5, <1>11, Spent
<1>13. \A x \in M : conn[x].state = "joined" /\ conn'[x].state = "left"
  BY <1>4, <1>5, <1>7, <1>9
<1> QED
  BY <1>3, <1>6, <1>7, <1>9, <1>10, <1>12, <1>13, ActivityInv

\* A phase of the shutdown of a process.
LEMMA ShutdownInv ==
    ASSUME IInv, NEW p \in Pod, ShutdownPhase(p)
    PROVE  IInv'
<1>0. IsPlan(plan) /\ TypeOK /\ Placed
  BY DEF IInv
<1>1. PICK stage : stage = After(pod[p])
  OBVIOUS
<1>2. PICK S : S = IF stage = "socketsClosed" THEN SocketsOf(p) ELSE {}
  OBVIOUS
<1>3. PICK M : M = {s \in S : conn[s].state = "joined" /\ Scope[s].type = "machine-scoped"}
  OBVIOUS
<1>4. PICK ms : ms = Activity("offline", M)
  OBVIOUS
<1>5. /\ pod[p] # "gone"
      /\ pod[p] = "up" => plan.stops > 0
      /\ plan' = IF pod[p] = "up" THEN [plan EXCEPT !.stops = @ - 1] ELSE plan
      /\ pod' = [pod EXCEPT ![p] = stage]
      /\ Gone(S, "left")
  BY <1>1, <1>2, Zenon DEF ShutdownPhase
<1>6. /\ EmitLocal(p, ms)
      /\ sent' = sent \union Record("offline", M, UserOnly)
      /\ wire' = {w \in wire \union ToOthers(p, "emit", ms) : stage = "gone" => w.to # p}
  BY <1>1, <1>2, <1>3, <1>4, Zenon DEF ShutdownPhase, Activity
<1>7. wire' \subseteq wire \union ToOthers(p, "emit", ms)
  BY <1>6
<1>8. /\ \A s \in S : s \in Socket /\ conn[s].at = p /\ conn[s].state \in {"admitted", "joined"}
      /\ M \in SUBSET Socket
      /\ \A s \in M : s \in S /\ conn[s].state = "joined"
  BY <1>2, <1>3 DEF SocketsOf
<1>9. /\ Steady /\ lease'.holder \in {None, lease.holder}
      /\ conn' \in [Socket -> [state : {"new", "admitted", "joined", "left", "evicted"},
                               at : Pod \union {None}, lease : Socket \union {None}]]
      /\ lease' \in [holder : Socket \union {None}, managed : BOOLEAN]
      /\ lease'.holder # None => lease'.managed /\ conn'[lease'.holder].lease = lease'.holder
      /\ \A s \in Socket : conn'[s].state = IF s \in S THEN "left" ELSE conn[s].state
  BY <1>0, <1>5, <1>8, GoneSteady
<1>10. pod \in [Pod -> Stage] /\ pod[p] \in Stage \ {"gone"}
  BY <1>0, <1>5 DEF TypeOK
<1>11. stage \in Stage /\ (pod[p] = "up" => stage = "socketsClosed")
  BY <1>1, <1>10, StageFacts
<1>12. pod' \in [Pod -> Stage] /\ \A q \in Pod : q # p => pod'[q] = pod[q]
  BY <1>5, <1>10, <1>11
<1>13. ASSUME NEW s \in Socket, conn'[s].state \in {"admitted", "joined"}
       PROVE  conn'[s].at \in Pod /\ pod'[conn'[s].at] = "up"
  <2>1. s \notin S /\ conn[s].state \in {"admitted", "joined"} /\ conn'[s].at = conn[s].at
    BY <1>9, <1>13 DEF Steady
  <2>2. conn[s].at \in Pod /\ pod[conn[s].at] = "up"
    BY <1>0, <2>1 DEF Placed
  <2>3. conn[s].at # p
    BY <1>2, <1>11, <2>1, <2>2 DEF SocketsOf
  <2> QED
    BY <1>12, <2>1, <2>2, <2>3
<1>14. ConnTypes'
  BY <1>9, <1>12, <1>13 DEF ConnTypes
<1>15. /\ IsPlan(plan') /\ plan'.scope = plan.scope
       /\ plan'.events <= plan.events /\ plan'.publications <= plan.publications
  <2> DEFINE q == plan
  <2>1. /\ plan = [scope |-> q.scope, events |-> q.events, messages |-> q.messages,
                   publications |-> q.publications, leaves |-> q.leaves, stops |-> q.stops,
                   faults |-> q.faults]
        /\ \A s \in Socket : IsScope(q.scope[s])
        /\ q.events \in Nat /\ q.messages \in Nat /\ q.publications \in Nat
        /\ q.leaves \in Nat /\ q.stops \in Nat /\ q.faults \in Nat
    BY <1>0 DEF IsPlan
  <2>2. CASE pod[p] = "up"
    <3>1. plan' = [plan EXCEPT !.stops = plan.stops - 1] /\ plan.stops > 0
      BY <1>5, <2>2, Zenon
    <3>2. plan' = [scope |-> q.scope, events |-> q.events, messages |-> q.messages,
                   publications |-> q.publications, leaves |-> q.leaves, stops |-> q.stops - 1,
                   faults |-> q.faults]
      BY <2>1, <3>1, Zenon
    <3> QED
      BY <2>1, <3>1, <3>2 DEF IsPlan
  <2>3. CASE pod[p] # "up"
    BY <1>0, <1>5, <2>1, <2>3
  <2> QED
    BY <2>2, <2>3
<1>16. \A s \in M : conn[s].state = "joined" /\ conn'[s].state = "left"
  BY <1>8, <1>9
<1> QED
  BY <1>4, <1>6, <1>7, <1>8, <1>9, <1>14, <1>15, <1>16, ActivityInv

\* The room of a lease has one socket: the one that the lease was minted for.
LEMMA LeaseRoomReach ==
    ASSUME IsPlan(plan), Placed, None \notin Socket, NEW s \in Socket, NEW p, NEW user,
           NEW session, NEW l \in Socket, NEW origin, NEW rooms,
           rooms = {RuntimeConnectionLeaseRoom(user, session, l)},
           Reaches(conn, s, p, rooms, origin)
    PROVE  s = l /\ conn[s].state = "joined"
<1>1. PICK k : k = conn[s].lease
  OBVIOUS
<1>2. PICK c : c = [Scope[s] EXCEPT !.lease = k]
  OBVIOUS
<1>3. conn[s].state = "joined" /\ RuntimeConnectionLeaseRoom(user, session, l) \in ConnectionRooms(c)
  BY <1>1, <1>2 DEF Reaches
<1>4. c.type \in ConnectionTypes /\ c.lease = k
  BY <1>2, ConnectionIs
<1>5. c.lease = l
  BY <1>3, <1>4, OwnRooms DEF RuntimeConnectionLeaseRoom, AccountRoom
<1> QED
  BY <1>1, <1>3, <1>4, <1>5 DEF Placed

\* A notification, an event or an eviction arrives.
LEMMA HandleInv ==
    ASSUME IInv, NEW w \in wire, Handle(w)
    PROVE  IInv'
<1> USE DeliveryAssumption
<1>0. IsPlan(plan) /\ TypeOK /\ Placed /\ OnItsWay
  BY DEF IInv
<1>1. UNCHANGED <<pod, plan>> /\ wire' = wire \ {w} /\ sent' = sent
  BY Zenon DEF Handle, HandleMessage, HandleCommand
<1>2. plan'.events <= plan.events /\ plan'.publications <= plan.publications /\ IsPlan(plan')
      /\ plan'.scope = plan.scope
  BY <1>0, <1>1 DEF IsPlan
<1>3. CASE w.act # "evict" /\ UNCHANGED <<conn, lease>> /\ EmitLocal(w.to, {w.msg})
  BY <1>1, <1>3, ReceiveInv
<1>4. CASE UNCHANGED <<conn, lease, got, dup>>
  <2>1. ConnTypes' /\ Steady /\ lease'.holder \in {None, lease.holder}
    BY <1>0, <1>1, <1>4 DEF ConnTypes, Steady, TypeOK, Placed
  <2> QED
    BY <1>1, <1>2, <1>4, <2>1, QuietInv
<1>5. CASE /\ Gone({s \in Socket : Reaches(conn, s, w.to, w.msg.rooms, None)}, "evicted")
           /\ UNCHANGED <<got, dup>>
  <2>1. PICK S : S = {s \in Socket : Reaches(conn, s, w.to, w.msg.rooms, None)}
    OBVIOUS
  <2>2. Gone(S, "evicted") /\ \A s \in S : conn[s].state \in {"admitted", "joined"}
    BY <1>5, <2>1 DEF Reaches
  <2>3. /\ Steady /\ lease'.holder \in {None, lease.holder}
        /\ conn' \in [Socket -> [state : {"new", "admitted", "joined", "left", "evicted"},
                                 at : Pod \union {None}, lease : Socket \union {None}]]
        /\ lease' \in [holder : Socket \union {None}, managed : BOOLEAN]
        /\ lease'.holder # None => lease'.managed /\ conn'[lease'.holder].lease = lease'.holder
        /\ \A s \in Socket : conn'[s].state = IF s \in S THEN "evicted" ELSE conn[s].state
    BY <1>0, <2>2, GoneSteady
  <2>4. ConnTypes'
    BY <1>0, <1>1, <2>3 DEF ConnTypes, TypeOK, Placed, Steady
  <2> QED
    BY <1>1, <1>2, <1>5, <2>3, <2>4, QuietInv
<1> QED
  BY <1>3, <1>4, <1>5, Zenon DEF Handle, HandleMessage, HandleCommand

\* Redis drops a command, a message is committed, or a process is killed.
LEMMA FaultInv ==
    ASSUME IInv, \/ \E w \in wire : Lose(w)
                 \/ \E o, session, user : Commit(o, session, user)
                 \/ \E p \in Pod : Crash(p)
    PROVE  IInv'
<1>0. IsPlan(plan) /\ TypeOK /\ Placed
  BY DEF IInv
<1>1. ASSUME NEW what \in Budgeted, Spend(what)
      PROVE  /\ IsPlan(plan') /\ plan'.scope = plan.scope
             /\ plan'.events <= plan.events /\ plan'.publications <= plan.publications
  BY <1>0, <1>1, Spent
<1>2. "messages" \in Budgeted /\ "faults" \in Budgeted
  BY DEF Budgeted
<1>3. CASE \/ \E w \in wire : Lose(w)
           \/ \E o, session, user : Commit(o, session, user)
  <2>1. /\ UNCHANGED <<pod, conn, lease, sent, got, dup>> /\ wire' \subseteq wire
        /\ \E what \in Budgeted : Spend(what)
    BY <1>2, <1>3 DEF Lose, Commit
  <2>2. ConnTypes' /\ Steady /\ lease'.holder \in {None, lease.holder}
    BY <1>0, <2>1 DEF ConnTypes, Steady, TypeOK, Placed
  <2> QED
    BY <1>1, <2>1, <2>2, QuietInv
<1>4. CASE \E p \in Pod : Crash(p)
  <2>1. PICK p \in Pod : Crash(p)
    BY <1>4
  <2>2. /\ Spend("faults") /\ pod' = [pod EXCEPT ![p] = "gone"]
        /\ conn' = [s \in Socket |->
                      IF s \in SocketsOf(p) THEN [conn[s] EXCEPT !.state = "left"] ELSE conn[s]]
        /\ wire' = {w \in wire : w.to # p}
        /\ UNCHANGED <<lease, outbox, sent, got, dup, lost>>
    BY <2>1 DEF Crash
  <2>3. "gone" \in Stage
    BY StageFacts
  <2>4. pod' \in [Pod -> Stage] /\ \A q \in Pod : q # p => pod'[q] = pod[q]
    BY <1>0, <2>2, <2>3 DEF TypeOK
  <2>5. \A s \in Socket :
          /\ conn'[s].at = conn[s].at /\ conn'[s].lease = conn[s].lease
          /\ conn'[s].state = IF s \in SocketsOf(p) THEN "left" ELSE conn[s].state
    BY <1>0, <2>2 DEF TypeOK
  <2>6. conn' \in [Socket -> [state : {"new", "admitted", "joined", "left", "evicted"},
                              at : Pod \union {None}, lease : Socket \union {None}]]
    BY <1>0, <2>2 DEF TypeOK
  <2>7. Steady /\ lease'.holder \in {None, lease.holder}
    BY <2>2, <2>5 DEF Steady, SocketsOf
  <2>8. ConnTypes'
    <3>1. ASSUME NEW s \in Socket, conn'[s].state \in {"admitted", "joined"}
          PROVE  conn'[s].at \in Pod /\ pod'[conn'[s].at] = "up"
      BY <1>0, <2>4, <2>5, <3>1 DEF Placed, SocketsOf
    <3>2. /\ lease' \in [holder : Socket \union {None}, managed : BOOLEAN]
          /\ lease'.holder # None => lease'.managed /\ conn'[lease'.holder].lease = lease'.holder
      BY <1>0, <2>2, <2>5 DEF TypeOK
    <3> QED
      BY <2>4, <2>6, <3>1, <3>2 DEF ConnTypes
  <2>9. wire' \subseteq wire
    BY <2>2
  <2> QED
    BY <1>1, <1>2, <2>2, <2>7, <2>8, <2>9, QuietInv
<1> QED
  BY <1>3, <1>4

\* A message is published: every process that listens gets a copy.
LEMMA PublishInv ==
    ASSUME IInv, NEW p \in Pod, NEW n \in outbox, Publish(p, n)
    PROVE  IInv'
<1> USE DeliveryAssumption
<1>0. IsPlan(plan) /\ TypeOK /\ Placed /\ Fresh /\ Sent /\ OnItsWay /\ NobodyElse /\ AtMostOnce
  BY DEF IInv
<1>1. PICK id : id = <<"durable", plan.publications>>
  OBVIOUS
<1>2. PICK m : m = [id |-> id, rooms |-> DurableRooms(n), origin |-> n.origin]
  OBVIOUS
<1>3. PICK Q : Q = {q \in Pod : Until(q, "busStopped")}
  OBVIOUS
<1>4. PICK A : A = {s \in Socket : /\ conn[s].state = "joined" /\ s # n.origin
                                   /\ Scope[s].user = n.user
                                   /\ ShouldSendDurable(Connection(s), n)}
  OBVIOUS
<1>5. PICK e : e = [id |-> id, user |-> n.user, note |-> n, audience |-> A]
  OBVIOUS
<1>6. /\ Spend("publications") /\ UNCHANGED <<pod, conn, lease, got, dup, lost>>
      /\ sent' = sent \union {e}
  BY <1>1, <1>4, <1>5, Zenon DEF Publish
<1>7. wire' = wire \union {[to |-> q, act |-> "durable", msg |-> m] : q \in Q}
  BY <1>1, <1>2, <1>3, Zenon DEF Publish
<1>8. e.id = id /\ e.user = n.user /\ e.note = n /\ "note" \in DOMAIN e
  BY <1>5
<1>9. IsMessage(m) /\ m.id = id /\ m.rooms = DurableRooms(n) /\ m.origin = n.origin
  BY <1>2 DEF IsMessage
<1>10. Brings(m, e)
  BY <1>8, <1>9 DEF Brings
<1>11. "publications" \in Budgeted
  BY DEF Budgeted
<1>12. /\ IsPlan(plan') /\ plan'.scope = plan.scope
       /\ plan'.events \in Nat /\ plan'.publications \in Nat
       /\ plan'.events <= plan.events /\ plan'.publications <= plan.publications
       /\ plan.publications \in Nat /\ plan.publications > plan'.publications
  BY <1>0, <1>6, <1>11, Spent
<1>13. id \notin Ids
  BY <1>0, <1>1, <1>12 DEF Fresh
<1>14. Fresh'
  <2>1. PICK J : J = {id}
    OBVIOUS
  <2>2. \A i \in Ids' : i \in Ids \/ i \in J
    BY <1>6, <1>8, <2>1 DEF Ids
  <2>3. /\ \A k \in Nat : <<"durable", k>> \in J => k > plan'.publications
        /\ \A k : <<"event", k>> \notin J
        /\ \A s : <<"online", s>> \notin J /\ <<"offline", s>> \notin J
    BY <1>1, <1>12, <2>1
  <2>4. Steady
    BY <1>6 DEF Steady
  <2> QED
    BY <1>0, <1>12, <2>2, <2>3, <2>4, FreshStays
<1>15. \A f \in sent : f.id \in Ids
  BY DEF Ids
<1>16. Sent'
  BY <1>0, <1>6, <1>8, <1>13, <1>15 DEF Sent
<1>17. \A s \in Socket : id \notin got[s]
  BY <1>0, <1>13 DEF TypeOK, Ids
<1>18. ASSUME NEW w \in wire'
       PROVE  \/ w \in wire
              \/ /\ w = [to |-> w.to, act |-> w.act, msg |-> w.msg]
                 /\ w.to \in Pod /\ w.act = "durable" /\ w.msg = m
  BY <1>3, <1>7
<1>19. TypeOK'
  <2>1. \A w \in wire' : w.to \in Pod /\ w.act \in {"emit", "durable", "evict"}
    BY <1>0, <1>18 DEF TypeOK
  <2>2. \A s \in Socket : got'[s] \subseteq {f.id : f \in sent'}
    BY <1>0, <1>6 DEF TypeOK
  <2> QED
    BY <1>0, <1>6, <2>1, <2>2 DEF TypeOK
<1>20. Placed' /\ AtMostOnce'
  BY <1>0, <1>6 DEF Placed, AtMostOnce
<1>21. NobodyElse'
  <2> SUFFICES ASSUME NEW s \in Socket, NEW f \in sent', f.id \in got'[s]
               PROVE  Entitled(Connection(s), s, f)
    BY <1>6, <1>12 DEF NobodyElse, Entitled, Connection, Scope
  <2>1. f \in sent /\ f.id \in got[s]
    BY <1>6, <1>8, <1>17
  <2> QED
    BY <1>0, <2>1 DEF NobodyElse, Entitled
<1>22. OnItsWay'
  <2>1. \A x : Displaced(x) => Displaced(x)'
    BY <1>6, <1>12 DEF Displaced, Scope
  <2>2. ASSUME NEW w \in wire'
        PROVE  /\ w = [to |-> w.to, act |-> w.act, msg |-> w.msg] /\ IsMessage(w.msg)
               /\ w.act = "evict" => Displaced(w.msg)'
               /\ w.act # "evict" =>
                    /\ \E f \in sent' : Brings(w.msg, f)
                    /\ \A s \in Socket : conn'[s].at = w.to => w.msg.id \notin got'[s]
    <3>1. CASE w \in wire
      BY <1>0, <1>6, <2>1, <3>1 DEF OnItsWay
    <3>2. CASE /\ w = [to |-> w.to, act |-> w.act, msg |-> w.msg]
               /\ w.to \in Pod /\ w.act = "durable" /\ w.msg = m
      BY <1>6, <1>9, <1>10, <1>17, <3>2
    <3> QED
      BY <1>18, <3>1, <3>2
  <2>3. ASSUME NEW v \in wire', NEW w \in wire', v.act # "evict", w.act # "evict",
               v.to = w.to, v.msg.id = w.msg.id
        PROVE  v = w
    <3>1. ASSUME NEW x \in wire, x.act # "evict" PROVE x.msg.id \in Ids
      BY <1>0, <3>1 DEF OnItsWay, Brings, Ids
    <3>2. CASE v \in wire /\ w \in wire
      BY <1>0, <2>3, <3>2 DEF OnItsWay
    <3>3. CASE v \notin wire /\ w \notin wire
      BY <1>18, <2>3, <3>3
    <3> QED
      BY <1>9, <1>13, <1>18, <2>3, <3>1, <3>2, <3>3
  <2> QED
    BY <2>2, <2>3 DEF OnItsWay
<1> QED
  BY <1>12, <1>14, <1>16, <1>19, <1>20, <1>21, <1>22 DEF IInv

\* What a handshake does: the socket is admitted, and if it claims the session
\* the lease it displaces is named in an eviction.
LEMMA HandshakeFacts ==
    ASSUME IInv, NEW s \in Socket, Handshake(s)
    PROVE  /\ conn[s].state = "new" /\ Scope[s].home \in Pod /\ pod[Scope[s].home] = "up"
           /\ UNCHANGED <<pod, sent, got, dup, plan>>
           /\ \E l \in {None, s} :
                /\ conn' \in [Socket -> [state : {"new", "admitted", "joined", "left", "evicted"},
                                         at : Pod \union {None}, lease : Socket \union {None}]]
                /\ conn'[s] = [state |-> "admitted", at |-> Scope[s].home, lease |-> l]
                /\ l = None => lease' = lease /\ wire' = wire
                /\ l = s => lease' = Claimed(s)
           /\ \A x \in Socket \ {s} :
                /\ conn'[x].at = conn[x].at /\ conn'[x].lease = conn[x].lease
                /\ \/ conn'[x].state = conn[x].state
                   \/ /\ conn[x].state = "joined" /\ conn'[x].state = "evicted"
                      /\ x = lease.holder /\ lease' = Claimed(s)
           /\ lease.holder # None => lease.holder \in Socket \ {s}
           /\ \A w \in wire' :
                \/ w \in wire
                \/ /\ w = [to |-> w.to, act |-> "evict", msg |-> w.msg] /\ IsMessage(w.msg)
                   /\ w.to \in Pod /\ lease.holder # None /\ lease' = Claimed(s)
                   /\ w.msg.rooms = {RuntimeConnectionLeaseRoom(Scope[s].user, Scope[s].session,
                                                                lease.holder)}
<1> USE DeliveryAssumption
<1>0. IsPlan(plan) /\ TypeOK /\ Placed
  BY DEF IInv
<1>1. PICK p : p = Scope[s].home
  OBVIOUS
<1>2. PICK old : old = lease.holder
  OBVIOUS
<1>3. conn[s].state = "new" /\ pod[p] = "up" /\ UNCHANGED <<pod, sent, got, dup, plan>>
  BY <1>1 DEF Handshake
<1>4. p \in Pod
  BY <1>0, <1>1 DEF IsPlan, IsScope, Scope
<1>5. old # None => old \in Socket \ {s}
  BY <1>0, <1>2, <1>3 DEF TypeOK, Placed
<1>6. \A x \in Socket : conn[x] \in [state : {"new", "admitted", "joined", "left", "evicted"},
                                    at : Pod \union {None}, lease : Socket \union {None}]
  BY <1>0 DEF TypeOK
<1>7. CASE ~Scope[s].claims
  <2>1. /\ conn' = [conn EXCEPT ![s] = [state |-> "admitted", at |-> p, lease |-> None]]
        /\ UNCHANGED <<lease, wire>>
    BY <1>1, <1>7 DEF Handshake
  <2>2. conn' \in [Socket -> [state : {"new", "admitted", "joined", "left", "evicted"},
                              at : Pod \union {None}, lease : Socket \union {None}]]
    BY <1>0, <1>4, <2>1 DEF TypeOK
  <2>3. /\ conn'[s] = [state |-> "admitted", at |-> p, lease |-> None]
        /\ \A x \in Socket \ {s} : conn'[x] = conn[x]
    BY <1>0, <2>1 DEF TypeOK
  <2> QED
    BY <1>1, <1>2, <1>3, <1>4, <1>5, <2>1, <2>2, <2>3
<1>8. CASE Scope[s].claims
  <2>1. PICK E : E = IF old = None THEN {} ELSE InLeaseRoom(p, s, old)
    OBVIOUS
  <2>2. PICK m : m = [id |-> <<"evict", s>>, rooms |->
                        {RuntimeConnectionLeaseRoom(Scope[s].user, Scope[s].session, old)},
                      origin |-> None]
    OBVIOUS
  <2>3. /\ conn' = [x \in Socket |->
                      IF x = s THEN [state |-> "admitted", at |-> p, lease |-> s]
                      ELSE IF x \in E THEN [conn[x] EXCEPT !.state = "evicted"]
                      ELSE conn[x]]
        /\ lease' = Claimed(s)
        /\ wire' = wire \union (IF old = None THEN {} ELSE ToOthers(p, "evict", {m}))
    BY <1>1, <1>2, <1>8, <2>1, <2>2, Zenon DEF Handshake
  <2>4. \A x \in E : x = old /\ conn[x].state = "joined"
    <3>1. ASSUME NEW x \in E PROVE x = old /\ conn[x].state = "joined"
      <4>1. PICK R : R = {RuntimeConnectionLeaseRoom(Scope[s].user, Scope[s].session, old)}
        OBVIOUS
      <4>2. PICK u : u = Scope[s].user
        OBVIOUS
      <4>3. PICK y : y = Scope[s].session
        OBVIOUS
      <4>4. old # None /\ x \in Socket /\ Reaches(conn, x, p, R, None)
        BY <2>1, <4>1 DEF InLeaseRoom
      <4>5. R = {RuntimeConnectionLeaseRoom(u, y, old)}
        BY <4>1, <4>2, <4>3
      <4> QED
        BY <1>0, <1>5, <4>4, <4>5, LeaseRoomReach
    <3> QED
      BY <3>1
  <2>5. /\ conn'[s] = [state |-> "admitted", at |-> p, lease |-> s]
        /\ \A x \in Socket \ {s} :
             conn'[x] = IF x \in E THEN [conn[x] EXCEPT !.state = "evicted"] ELSE conn[x]
    BY <2>3
  <2>6. \A x \in Socket \ {s} :
          /\ conn'[x].at = conn[x].at /\ conn'[x].lease = conn[x].lease
          /\ conn'[x].state = IF x \in E THEN "evicted" ELSE conn[x].state
          /\ conn'[x] \in [state : {"new", "admitted", "joined", "left", "evicted"},
                           at : Pod \union {None}, lease : Socket \union {None}]
    <3> SUFFICES ASSUME NEW x \in Socket \ {s}
                 PROVE  /\ conn'[x].at = conn[x].at /\ conn'[x].lease = conn[x].lease
                        /\ conn'[x].state = IF x \in E THEN "evicted" ELSE conn[x].state
                        /\ conn'[x] \in
                             [state : {"new", "admitted", "joined", "left", "evicted"},
                              at : Pod \union {None}, lease : Socket \union {None}]
      OBVIOUS
    <3>1. conn[x] \in [state : {"new", "admitted", "joined", "left", "evicted"},
                       at : Pod \union {None}, lease : Socket \union {None}]
      BY <1>6
    <3>2. CASE x \in E
      <4>1. conn'[x] = [conn[x] EXCEPT !.state = "evicted"]
        BY <2>5, <3>2
      <4> QED
        BY <3>1, <3>2, <4>1
    <3>3. CASE x \notin E
      <4>1. conn'[x] = conn[x]
        BY <2>5, <3>3
      <4> QED
        BY <3>1, <3>3, <4>1
    <3> QED
      BY <3>2, <3>3
  <2>7. conn'[s] \in [state : {"new", "admitted", "joined", "left", "evicted"},
                      at : Pod \union {None}, lease : Socket \union {None}]
    BY <1>4, <2>5
  <2>8. conn' = [x \in Socket |-> conn'[x]]
    BY <2>3
  <2>9. conn' \in [Socket -> [state : {"new", "admitted", "joined", "left", "evicted"},
                              at : Pod \union {None}, lease : Socket \union {None}]]
    BY <2>6, <2>7, <2>8
  <2>10. /\ IsMessage(m)
         /\ m.rooms = {RuntimeConnectionLeaseRoom(Scope[s].user, Scope[s].session, old)}
    BY <2>2 DEF IsMessage
  <2>11. ASSUME NEW w \in wire', w \notin wire
         PROVE  /\ w = [to |-> w.to, act |-> "evict", msg |-> w.msg] /\ w.msg = m
                /\ w.to \in Pod /\ old # None
    BY <2>3, <2>11 DEF ToOthers
  <2>12. /\ s \in {None, s} /\ s # None
         /\ conn'[s] = [state |-> "admitted", at |-> Scope[s].home, lease |-> s]
    BY <1>1, <2>5
  <2>13. \A x \in Socket \ {s} :
           /\ conn'[x].at = conn[x].at /\ conn'[x].lease = conn[x].lease
           /\ \/ conn'[x].state = conn[x].state
              \/ /\ conn[x].state = "joined" /\ conn'[x].state = "evicted"
                 /\ x = lease.holder /\ lease' = Claimed(s)
    BY <1>2, <2>3, <2>4, <2>6
  <2>14. \A w \in wire' :
           \/ w \in wire
           \/ /\ w = [to |-> w.to, act |-> "evict", msg |-> w.msg] /\ IsMessage(w.msg)
              /\ w.to \in Pod /\ lease.holder # None /\ lease' = Claimed(s)
              /\ w.msg.rooms = {RuntimeConnectionLeaseRoom(Scope[s].user, Scope[s].session,
                                                           lease.holder)}
    BY <1>2, <2>3, <2>10, <2>11
  <2>15. /\ conn[s].state = "new" /\ Scope[s].home \in Pod /\ pod[Scope[s].home] = "up"
         /\ UNCHANGED <<pod, sent, got, dup, plan>>
         /\ lease.holder # None => lease.holder \in Socket \ {s}
    BY <1>1, <1>2, <1>3, <1>4, <1>5
  <2> QED
    BY <2>3, <2>9, <2>12, <2>13, <2>14, <2>15, Zenon
<1> QED
  BY <1>7, <1>8

\* A runtime or an observer is admitted.
LEMMA HandshakeInv ==
    ASSUME IInv, NEW s \in Socket, Handshake(s)
    PROVE  IInv'
<1> USE DeliveryAssumption
<1>0. IsPlan(plan) /\ TypeOK /\ Placed /\ Fresh /\ Sent /\ OnItsWay /\ NobodyElse /\ AtMostOnce
  BY DEF IInv
<1>1. /\ conn[s].state = "new" /\ Scope[s].home \in Pod /\ pod[Scope[s].home] = "up"
      /\ UNCHANGED <<pod, sent, got, dup, plan>>
      /\ lease.holder # None => lease.holder \in Socket \ {s}
  BY HandshakeFacts
<1>2. PICK l \in {None, s} :
        /\ conn' \in [Socket -> [state : {"new", "admitted", "joined", "left", "evicted"},
                                 at : Pod \union {None}, lease : Socket \union {None}]]
        /\ conn'[s] = [state |-> "admitted", at |-> Scope[s].home, lease |-> l]
        /\ l = None => lease' = lease /\ wire' = wire
        /\ l = s => lease' = Claimed(s)
  BY HandshakeFacts, Zenon
<1>3. \A x \in Socket \ {s} :
        /\ conn'[x].at = conn[x].at /\ conn'[x].lease = conn[x].lease
        /\ \/ conn'[x].state = conn[x].state
           \/ conn[x].state = "joined" /\ conn'[x].state = "evicted"
  <2> SUFFICES ASSUME NEW x \in Socket \ {s}
               PROVE  /\ conn'[x].at = conn[x].at /\ conn'[x].lease = conn[x].lease
                      /\ \/ conn'[x].state = conn[x].state
                         \/ conn[x].state = "joined" /\ conn'[x].state = "evicted"
    OBVIOUS
  <2>1. /\ conn'[x].at = conn[x].at /\ conn'[x].lease = conn[x].lease
        /\ \/ conn'[x].state = conn[x].state
           \/ /\ conn[x].state = "joined" /\ conn'[x].state = "evicted"
              /\ x = lease.holder /\ lease' = Claimed(s)
    BY HandshakeFacts, Zenon
  <2> QED
    BY <2>1
<1>4. conn'[s].state = "admitted" /\ conn'[s].at = Scope[s].home /\ conn'[s].lease = l
  BY <1>2
<1>5. got[s] = {} /\ conn[s].lease = None
  BY <1>0, <1>1 DEF Placed
<1>6. lease' = Claimed(s) => lease'.holder = s /\ lease'.managed
  BY DEF Claimed
<1>7. lease' \in [holder : Socket \union {None}, managed : BOOLEAN]
  <2>1. \A b \in BOOLEAN : [holder |-> s, managed |-> b] \in
                              [holder : Socket \union {None}, managed : BOOLEAN]
    OBVIOUS
  <2>2. TRUE \in BOOLEAN
    OBVIOUS
  <2>3. Claimed(s) \in [holder : Socket \union {None}, managed : BOOLEAN]
    BY <2>1, <2>2, Zenon DEF Claimed
  <2> QED
    BY <1>0, <1>2, <2>3 DEF TypeOK
<1>8. ASSUME NEW w \in wire', w \notin wire
      PROVE  /\ w = [to |-> w.to, act |-> w.act, msg |-> w.msg] /\ IsMessage(w.msg)
             /\ w.to \in Pod /\ w.act = "evict" /\ lease.holder # None /\ lease' = Claimed(s)
             /\ w.msg.rooms = {RuntimeConnectionLeaseRoom(Scope[s].user, Scope[s].session,
                                                          lease.holder)}
  <2>1. /\ w = [to |-> w.to, act |-> "evict", msg |-> w.msg] /\ IsMessage(w.msg)
        /\ w.to \in Pod /\ lease.holder # None /\ lease' = Claimed(s)
        /\ w.msg.rooms = {RuntimeConnectionLeaseRoom(Scope[s].user, Scope[s].session,
                                                     lease.holder)}
    BY <1>8, HandshakeFacts, Zenon
  <2>2. \A a, b : [to |-> a, act |-> "evict", msg |-> b].act = "evict"
    OBVIOUS
  <2>3. w.act = "evict"
    BY <2>1, <2>2, Zenon
  <2> QED
    BY <2>1, <2>3
<1>9. TypeOK'
  <2>1. \A w \in wire' : w.to \in Pod /\ w.act \in {"emit", "durable", "evict"}
    BY <1>0, <1>8 DEF TypeOK
  <2>2. lease'.holder # None => lease'.managed /\ conn'[lease'.holder].lease = lease'.holder
    <3>1. CASE l = None
      BY <1>0, <1>1, <1>2, <1>3, <3>1 DEF TypeOK
    <3>2. CASE l = s
      BY <1>2, <1>4, <1>6, <3>2
    <3> QED
      BY <3>1, <3>2
  <2> QED
    BY <1>0, <1>1, <1>2, <1>7, <2>1, <2>2 DEF TypeOK
<1>10. Placed'
  <2> SUFFICES ASSUME NEW x \in Socket
               PROVE  /\ conn'[x].lease \in {None, x}
                      /\ conn'[x].state = "new" => conn'[x].lease = None
                      /\ conn'[x].state \in {"admitted", "joined"} =>
                           conn'[x].at \in Pod /\ pod'[conn'[x].at] = "up"
                      /\ conn'[x].state \in {"new", "admitted"} => got'[x] = {}
    BY DEF Placed
  <2>1. CASE x = s
    BY <1>1, <1>2, <1>4, <1>5, <2>1
  <2>2. CASE x # s
    BY <1>0, <1>1, <1>3, <2>2 DEF Placed
  <2> QED
    BY <2>1, <2>2
<1>11. Fresh'
  <2>1. Ids' = Ids
    BY <1>1 DEF Ids
  <2>2. ASSUME NEW x \in Socket
        PROVE  /\ <<"online", x>> \in Ids' => conn'[x].state \notin {"new", "admitted"}
               /\ <<"offline", x>> \in Ids' => conn'[x].state \notin {"new", "admitted", "joined"}
    BY <1>0, <1>1, <1>3, <2>1 DEF Fresh
  <2> QED
    BY <1>0, <1>1, <2>1, <2>2 DEF Fresh
<1>12. Sent' /\ AtMostOnce'
  BY <1>0, <1>1 DEF Sent, AtMostOnce
<1>13. NobodyElse'
  <2> SUFFICES ASSUME NEW x \in Socket, NEW e \in sent, e.id \in got[x]
               PROVE  Entitled([Scope[x] EXCEPT !.lease = conn'[x].lease], x, e)
    BY <1>1 DEF NobodyElse, Entitled, Connection, Scope
  <2>1. x # s
    BY <1>5
  <2>2. conn'[x].lease = conn[x].lease
    BY <1>3, <2>1
  <2> QED
    BY <1>0, <2>2 DEF NobodyElse, Entitled, Connection
<1>14. OnItsWay'
  <2>1. \A x \in Socket : conn[x].state # "new" => x # s /\ conn'[x].state # "new"
    BY <1>1, <1>3
  <2>2. ASSUME NEW m, Displaced(m) PROVE Displaced(m)'
    <3>1. PICK k, t \in Socket :
            /\ m.rooms = {RuntimeConnectionLeaseRoom(Scope[t].user, Scope[t].session, k)}
            /\ k # lease.holder /\ conn[k].state # "new"
      BY <2>2 DEF Displaced
    <3>2. k # lease'.holder /\ conn'[k].state # "new"
      BY <1>2, <1>6, <2>1, <3>1
    <3> QED
      BY <1>1, <3>1, <3>2 DEF Displaced, Scope
  <2>3. ASSUME NEW w \in wire', w \notin wire PROVE Displaced(w.msg)'
    <3>1. PICK k \in Socket : k = lease.holder
      BY <1>1, <1>8, <2>3
    <3>2. k # s /\ lease'.holder = s /\ conn[k].state # "new"
      BY <1>0, <1>1, <1>6, <1>8, <2>3, <3>1 DEF TypeOK, Placed
    <3>3. conn'[k].state # "new"
      BY <2>1, <3>2
    <3> QED
      BY <1>1, <1>8, <2>3, <3>1, <3>2, <3>3 DEF Displaced, Scope
  <2>4. ASSUME NEW w \in wire', NEW x \in Socket, w.act # "evict", conn'[x].at = w.to
        PROVE  w.msg.id \notin got'[x]
    <3>1. w \in wire
      BY <1>8, <2>4
    <3> QED
      BY <1>0, <1>1, <1>3, <1>5, <2>4, <3>1 DEF OnItsWay
  <2>5. ASSUME NEW w \in wire'
        PROVE  /\ w = [to |-> w.to, act |-> w.act, msg |-> w.msg] /\ IsMessage(w.msg)
               /\ w.act = "evict" => Displaced(w.msg)'
               /\ w.act # "evict" => \E e \in sent' : Brings(w.msg, e)
    <3>1. CASE w \in wire
      BY <1>0, <1>1, <2>2, <3>1 DEF OnItsWay
    <3>2. CASE w \notin wire
      BY <1>8, <2>3, <3>2
    <3> QED
      BY <3>1, <3>2
  <2>6. \A v, w \in wire' :
          v.act # "evict" /\ w.act # "evict" /\ v.to = w.to /\ v.msg.id = w.msg.id => v = w
    BY <1>0, <1>8 DEF OnItsWay
  <2> QED
    BY <2>4, <2>5, <2>6 DEF OnItsWay
<1> QED
  BY <1>0, <1>1, <1>9, <1>10, <1>11, <1>12, <1>13, <1>14 DEF IInv
-----------------------------------------------------------------------------
(* The results.                                                            *)

\* Every step keeps the invariant.
LEMMA NextInv ==
    ASSUME IInv, [Next]_vars
    PROVE  IInv'
<1>1. CASE UNCHANGED vars
  BY <1>1 DEF vars, IInv, TypeOK, Placed, Fresh, Ids, Sent, OnItsWay, Displaced, NobodyElse,
              AtMostOnce, Connection, Scope
<1>2. CASE \E s \in Socket : Handshake(s) \/ Join(s) \/ Disconnect(s)
  BY <1>2, HandshakeInv, JoinInv, DisconnectInv
<1>3. CASE \E p \in Pod, u \in Account, f \in Filters : Emit(p, u, f)
  BY <1>3, EmitInv
<1>4. CASE \E s \in Socket, o \in Socket \union {None} : Commit(o, Scope[s].session, Scope[s].user)
  BY <1>4, FaultInv
<1>5. CASE \E p \in Pod, n \in outbox : Publish(p, n)
  BY <1>5, PublishInv
<1>6. CASE \E w \in wire : Handle(w)
  BY <1>6, HandleInv
<1>7. CASE (\E w \in wire : Lose(w)) \/ (\E p \in Pod : Crash(p))
  BY <1>7, FaultInv
<1>8. CASE \E p \in Pod : ShutdownPhase(p)
  BY <1>8, ShutdownInv
<1> QED
  BY <1>1, <1>2, <1>3, <1>4, <1>5, <1>6, <1>7, <1>8 DEF Next

(***************************************************************************)
(* The invariant holds: what is under way to a process was sent once, is   *)
(* not there yet, and an eviction under way names a displaced lease.       *)
(***************************************************************************)
THEOREM Invariance == Spec => []IInv
<1>1. Init => IInv
  <2> SUFFICES ASSUME Init PROVE IInv
    OBVIOUS
  <2> USE DeliveryAssumption
  <2>1. IsPlan(plan)
    BY DEF Init
  <2>2. "up" \in Stage
    BY StageFacts
  <2>3. \A s \in Socket : /\ conn[s] = [state |-> "new", at |-> None, lease |-> None]
                          /\ conn[s].state = "new" /\ conn[s].lease = None /\ got[s] = {}
    BY DEF Init
  <2>4. conn \in [Socket -> [state : {"new", "admitted", "joined", "left", "evicted"},
                             at : Pod \union {None}, lease : Socket \union {None}]]
    BY DEF Init
  <2>5. lease \in [holder : Socket \union {None}, managed : BOOLEAN] /\ lease.holder = None
    BY DEF Init
  <2>6. TypeOK
    BY <2>2, <2>3, <2>4, <2>5 DEF TypeOK, Init
  <2>7. Placed
    BY <2>3 DEF Placed
  <2>8. Fresh /\ Sent /\ OnItsWay /\ NobodyElse /\ AtMostOnce
    BY <2>3 DEF Init, Fresh, Ids, Sent, OnItsWay, NobodyElse, AtMostOnce
  <2> QED
    BY <2>1, <2>6, <2>7, <2>8 DEF IInv
<1>2. IInv /\ [Next]_vars => IInv'
  BY NextInv
<1> QED
  BY <1>1, <1>2, PTL DEF Spec

(***************************************************************************)
(* A socket receives one publication or event at most once, however many   *)
(* processes listen and whoever comes and goes (io.local in                *)
(* emitDurableSessionMessageLocal, the Redis adapter).                     *)
(***************************************************************************)
THEOREM AtMostOnceHolds == Spec => []AtMostOnce
<1>1. IInv => AtMostOnce
  BY DEF IInv
<1> QED
  BY <1>1, Invariance, PTL

(***************************************************************************)
(* Nobody hears what the walk over the connections would not have sent     *)
(* them (getConnectionRooms, getRecipientRooms,                            *)
(* emitDurableSessionMessageLocal).                                        *)
(***************************************************************************)
THEOREM NobodyElseHolds == Spec => []NobodyElse
<1>1. IInv => NobodyElse
  BY DEF IInv
<1> QED
  BY <1>1, Invariance, PTL

(***************************************************************************)
(* No connected socket is left behind a stopped bus                        *)
(* (shutdownSocketRuntime).                                                *)
(***************************************************************************)
THEOREM NoSocketBehindHolds == Spec => []NoSocketBehindStoppedBus
<1>1. IInv => NoSocketBehindStoppedBus
  <2> SUFFICES ASSUME IInv PROVE NoSocketBehindStoppedBus
    OBVIOUS
  <2>1. TypeOK /\ Placed
    BY DEF IInv
  <2>2. ASSUME NEW s \in Socket, conn[s].state \in {"admitted", "joined"}
        PROVE  Until(conn[s].at, "busStopped")
    BY <2>1, <2>2, StageFacts DEF Placed, Until
  <2> QED
    BY <2>1, <2>2 DEF NoSocketBehindStoppedBus
<1> QED
  BY <1>1, Invariance, PTL

(***************************************************************************)
(* A late eviction never disconnects the socket that holds the session:    *)
(* only a handshake that takes the session over does (socket.ts).          *)
(***************************************************************************)
THEOREM WinnerStaysHolds == Spec => WinnerStays
<1>1. ASSUME IInv, [Next]_vars, NEW s \in Socket,
             conn[s].state # "evicted", conn'[s].state = "evicted", s = lease.holder
      PROVE  lease'.holder \in Socket \ {s}
  <2> USE DeliveryAssumption
  <2>0. IsPlan(plan) /\ TypeOK /\ Placed /\ OnItsWay
    BY <1>1 DEF IInv
  <2>1. conn' # conn
    BY <1>1
  <2>2. CASE \E x \in Socket : Handshake(x)
    <3>1. PICK x \in Socket : Handshake(x)
      BY <2>2
    <3>2. /\ conn'[x].state = "admitted"
          /\ \A y \in Socket \ {x} :
               conn'[y].state = conn[y].state \/ lease' = Claimed(x)
      <4>0. IInv /\ Handshake(x)
        BY <1>1, <3>1
      <4>1. PICK l \in {None, x} :
              /\ conn' \in [Socket -> [state : {"new", "admitted", "joined", "left", "evicted"},
                                       at : Pod \union {None}, lease : Socket \union {None}]]
              /\ conn'[x] = [state |-> "admitted", at |-> Scope[x].home, lease |-> l]
              /\ l = None => lease' = lease /\ wire' = wire
              /\ l = x => lease' = Claimed(x)
        BY <3>1, <4>0, HandshakeFacts, Zenon
      <4>2. ASSUME NEW y \in Socket \ {x}
            PROVE  conn'[y].state = conn[y].state \/ lease' = Claimed(x)
        <5>1. /\ conn'[y].at = conn[y].at /\ conn'[y].lease = conn[y].lease
              /\ \/ conn'[y].state = conn[y].state
                 \/ /\ conn[y].state = "joined" /\ conn'[y].state = "evicted"
                    /\ y = lease.holder /\ lease' = Claimed(x)
          BY <3>1, <4>0, HandshakeFacts, Zenon
        <5> QED
          BY <5>1
      <4> QED
        BY <4>1, <4>2
    <3> QED
      BY <1>1, <3>2 DEF Claimed
  <2>3. CASE \E w \in wire : Handle(w)
    <3>1. PICK w \in wire : Handle(w)
      BY <2>3
    <3>2. /\ w.act = "evict"
          /\ Gone({x \in Socket : Reaches(conn, x, w.to, w.msg.rooms, None)}, "evicted")
      BY <2>1, <3>1, Zenon DEF Handle, HandleMessage, HandleCommand
    <3>3. conn'[s] # conn[s]
      BY <1>1
    <3>4. Reaches(conn, s, w.to, w.msg.rooms, None)
      BY <3>2, <3>3 DEF Gone
    <3>5. Displaced(w.msg)
      BY <2>0, <3>2 DEF OnItsWay
    <3>6. PICK l, t \in Socket :
            /\ w.msg.rooms = {RuntimeConnectionLeaseRoom(Scope[t].user, Scope[t].session, l)}
            /\ l # lease.holder
      BY <3>5 DEF Displaced
    <3>7. PICK R : R = w.msg.rooms
      OBVIOUS
    <3>8. PICK u : u = Scope[t].user
      OBVIOUS
    <3>9. PICK y : y = Scope[t].session
      OBVIOUS
    <3>10. PICK p : p = w.to
      OBVIOUS
    <3>11. R = {RuntimeConnectionLeaseRoom(u, y, l)} /\ Reaches(conn, s, p, R, None)
      BY <3>4, <3>6, <3>7, <3>8, <3>9, <3>10
    <3>12. s = l
      BY <2>0, <3>11, LeaseRoomReach
    <3> QED
      BY <1>1, <3>6, <3>12
  <2>4. ASSUME NEW S, Gone(S, "left") PROVE FALSE
    <3>1. conn'[s] \in {conn[s], [conn[s] EXCEPT !.state = "left"]}
      BY <2>4 DEF Gone
    <3>2. conn[s] \in [state : {"new", "admitted", "joined", "left", "evicted"},
                       at : Pod \union {None}, lease : Socket \union {None}]
      BY <2>0 DEF TypeOK
    <3>3. [conn[s] EXCEPT !.state = "left"].state = "left"
      BY <3>2
    <3> QED
      BY <1>1, <3>1, <3>3
  <2>5. \A x \in Socket : ~Disconnect(x)
    BY <2>4, Zenon DEF Disconnect
  <2>6. \A p \in Pod : ~ShutdownPhase(p)
    BY <2>4, Zenon DEF ShutdownPhase
  <2>7. \A x \in Socket : ~Join(x)
    <3> SUFFICES ASSUME NEW x \in Socket, Join(x) PROVE FALSE
      OBVIOUS
    <3>1. conn' = [conn EXCEPT ![x].state = "joined"]
      BY DEF Join
    <3>2. conn'[s].state \in {conn[s].state, "joined"}
      BY <2>0, <3>1 DEF TypeOK
    <3> QED
      BY <1>1, <3>2
  <2>8. \A p \in Pod : ~Crash(p)
    <3> SUFFICES ASSUME NEW p \in Pod, Crash(p) PROVE FALSE
      OBVIOUS
    <3>1. conn' = [x \in Socket |->
                     IF x \in SocketsOf(p) THEN [conn[x] EXCEPT !.state = "left"] ELSE conn[x]]
      BY DEF Crash
    <3>2. conn'[s].state \in {conn[s].state, "left"}
      BY <2>0, <3>1 DEF TypeOK
    <3> QED
      BY <1>1, <3>2
  <2>9. /\ \A p, u, f : ~Emit(p, u, f)
        /\ \A o, x, u : ~Commit(o, x, u)
        /\ \A p, n : ~Publish(p, n)
        /\ \A w : ~Lose(w)
    BY <2>1, Zenon DEF Emit, Commit, Publish, Lose
  <2>10. ~UNCHANGED vars
    BY <2>1 DEF vars
  <2> QED
    BY <1>1, <2>2, <2>3, <2>5, <2>6, <2>7, <2>8, <2>9, <2>10 DEF Next
<1>2. IInv /\ [Next]_vars =>
        [\A s \in Socket :
           /\ conn[s].state # "evicted" /\ conn'[s].state = "evicted"
           /\ s = lease.holder
           => lease'.holder \in Socket \ {s}]_vars
  BY <1>1
<1> QED
  BY <1>2, Invariance, PTL DEF Spec, WinnerStays
=============================================================================
