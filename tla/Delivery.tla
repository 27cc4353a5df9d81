------------------------------ MODULE Delivery ------------------------------
(***************************************************************************)
(* Events on their way to the sockets of several server processes.         *)
(*                                                                         *)
(* sources/app/api/socket.ts connects sockets and puts them into rooms;    *)
(* eventRouter.emit sends an event to rooms through the Socket.IO Redis    *)
(* adapter, which delivers to the sockets of its own process at once and   *)
(* to the others when they get the command; sessionMessageNotificationBus  *)
(* publishes a committed message to every process, each of which delivers  *)
(* it to its own sockets only; a runtime that claims a session evicts the  *)
(* socket it displaces; shutdownSocketRuntime.ts takes a process down.     *)
(*                                                                         *)
(* The account, the session or machine and the process of a socket are     *)
(* fixed by the scenario; who may claim a session is the concern of        *)
(* RuntimeLease, and which rows are published and when that of             *)
(* NotificationOutbox.  A lease is named by the socket it was minted for.  *)
(*                                                                         *)
(* Definitions whose name ends in Mut are deliberate defects of the        *)
(* definition that follows them: each one breaks a property below.         *)
(***************************************************************************)
EXTENDS EventRouter, Naturals, FiniteSets

CONSTANTS
    Pod,            \* server processes
    Socket,         \* sockets; a reconnecting client comes back as another one
    Scenarios       \* bound: scope of each socket, events, messages, publications, faults

\* What a client says of itself in its handshake, and the process it comes to
IsScope(c) ==
    /\ c = [type |-> c.type, user |-> c.user, session |-> c.session, machine |-> c.machine,
            lease |-> c.lease, claims |-> c.claims, replayOnly |-> c.replayOnly,
            home |-> c.home]
    /\ c.type \in {"user-scoped", "session-scoped", "machine-scoped"}
    /\ c.claims \in BOOLEAN /\ c.replayOnly \in BOOLEAN
    /\ c.home \in Pod

IsPlan(q) ==
    /\ q = [scope |-> q.scope, events |-> q.events, messages |-> q.messages,
            publications |-> q.publications, leaves |-> q.leaves, stops |-> q.stops,
            faults |-> q.faults]
    /\ \A s \in Socket : IsScope(q.scope[s])
    /\ {q.events, q.messages, q.publications, q.leaves, q.stops, q.faults} \subseteq Nat

ASSUME DeliveryAssumption ==
    /\ None \notin Pod \union Socket
    /\ \A q \in Scenarios : IsPlan(q)

VARIABLES
    pod,            \* stage of each process
    conn,           \* state, process and lease of each socket
    lease,          \* the lease columns of the session
    outbox,         \* committed message notifications, not marked delivered yet
    wire,           \* commands and notifications on their way to a process
    sent,           \* history: what was emitted or published, and for whom
    got,            \* history: what each socket received
    dup,            \* history: what a socket received twice
    lost,           \* history: what Redis dropped on the way to a process
    plan            \* the scenario, and what is left of its bounds

vars == <<pod, conn, lease, outbox, wire, sent, got, dup, lost, plan>>

\* shutdownSocketRuntime goes through the stages in this order.
Stages == <<"up", "socketsClosed", "rpcClosed", "dispatcherStopped", "busStopped", "gone">>
Stage == {Stages[i] : i \in DOMAIN Stages}
Position(stage) == CHOOSE i \in DOMAIN Stages : Stages[i] = stage
Until(p, stage) == Position(pod[p]) < Position(stage)

Scope == plan.scope
Connection(s) == [Scope[s] EXCEPT !.lease = conn[s].lease]

Account == {Scope[s].user : s \in Socket}
Filters ==
    {[type |-> t, session |-> None, machine |-> None] :
        t \in {"user-scoped-only", "all-user-authenticated-connections"}}
      \union {[type |-> "all-interested-in-session", session |-> x, machine |-> None] :
                x \in {Scope[s].session : s \in Socket} \ {None}}
      \union {[type |-> "machine-scoped-only", session |-> None, machine |-> x] :
                x \in {Scope[s].machine : s \in Socket} \ {None}}
UserOnly == [type |-> "user-scoped-only", session |-> None, machine |-> None]

TypeOK ==
    /\ pod \in [Pod -> Stage]
    /\ conn \in [Socket -> [state : {"new", "admitted", "joined", "left", "evicted"},
                            at : Pod \union {None}, lease : Socket \union {None}]]
    /\ lease \in [holder : Socket \union {None}, managed : BOOLEAN]
    /\ lease.holder # None => lease.managed /\ conn[lease.holder].lease = lease.holder
    /\ \A w \in wire : w.to \in Pod /\ w.act \in {"emit", "durable", "evict"}
    /\ \A s \in Socket : got[s] \subseteq {e.id : e \in sent}

Init ==
    /\ plan \in Scenarios
    /\ pod = [p \in Pod |-> "up"]
    /\ conn = [s \in Socket |-> [state |-> "new", at |-> None, lease |-> None]]
    /\ lease = [holder |-> None, managed |-> FALSE]
    /\ outbox = {} /\ wire = {} /\ sent = {}
    /\ got = [s \in Socket |-> {}]
    /\ dup = {} /\ lost = {}

Spend(what) ==
    /\ plan[what] > 0
    /\ plan' = [plan EXCEPT ![what] = @ - 1]
-----------------------------------------------------------------------------
(* Emitting. *)

\* Whether the rooms of an event or a notification reach a socket of process p.
Reaches(c, s, p, rooms, origin) ==
    /\ c[s].state = "joined" /\ c[s].at = p /\ s # origin
    /\ ConnectionRooms([Scope[s] EXCEPT !.lease = c[s].lease]) \intersect rooms # {}

\* The messages ms, each [id, rooms, origin], go to the sockets of process p.
EmitLocal(p, ms) ==
    LET heard(s) == {m \in ms : Reaches(conn', s, p, m.rooms, m.origin)}
    IN  /\ got' = [s \in Socket |-> got[s] \union {m.id : m \in heard(s)}]
        /\ dup' = dup \union UNION {{<<s, m.id>> : m \in {m \in heard(s) : m.id \in got[s]}} :
                                       s \in Socket}

\* Defect: an event stays in its process.
ToOthersMut(p, act, ms) == {}

\* What goes through the adapter: to the own process, and to the others later.
ToOthers(p, act, ms) ==
    {[to |-> q, act |-> act, msg |-> m] :
        q \in {q \in Pod \ {p} : Until(q, "gone")}, m \in ms}

Event(id, user, f) == [id |-> id, rooms |-> RecipientRooms(user, f), origin |-> None]

\* Whom the walk over the connections would have chosen.
Audience(user, f) ==
    {s \in Socket : /\ conn'[s].state = "joined" /\ Scope[s].user = user
                    /\ ShouldSendToConnection([Scope[s] EXCEPT !.lease = conn'[s].lease], f)}

\* Events with filter f of the accounts of the sockets of S, one for each.
Record(kind, S, f) ==
    {[id |-> <<kind, s>>, user |-> Scope[s].user, filter |-> f,
      audience |-> Audience(Scope[s].user, f)] : s \in S}

\* A machine's coming or going is broadcast to the observers of its account.
MachineActivity(p, kind, S) ==
    LET M == {s \in S : Scope[s].type = "machine-scoped"}
        ms == {Event(<<kind, s>>, Scope[s].user, UserOnly) : s \in M}
    IN  /\ EmitLocal(p, ms)
        /\ wire' = wire \union ToOthers(p, "emit", ms)
        /\ sent' = sent \union Record(kind, M, UserOnly)

\* emitUpdate and emitEphemeral, from a handler of process p.
Emit(p, user, f) ==
    LET id == <<"event", plan.events>>
        m == Event(id, user, f)
    IN  /\ Until(p, "gone")
        /\ Spend("events")
        /\ UNCHANGED conn
        /\ EmitLocal(p, {m})
        /\ wire' = wire \union ToOthers(p, "emit", {m})
        /\ sent' = sent \union {[id |-> id, user |-> user, filter |-> f,
                                 audience |-> Audience(user, f)]}
        /\ UNCHANGED <<pod, lease, outbox, lost>>
-----------------------------------------------------------------------------
(* Connecting. *)

\* Sockets of process p in the room of the lease l of the session of s.
InLeaseRoom(p, s, l) ==
    {x \in Socket : Reaches(conn, x, p, {RuntimeConnectionLeaseRoom(Scope[s].user,
                                                                    Scope[s].session, l)}, None)}

\* Sockets go; a lease that is still theirs becomes a tombstone, except a
\* replay's, whose incarnation is retired.
Gone(S, state) ==
    /\ conn' = [s \in Socket |-> IF s \in S THEN [conn[s] EXCEPT !.state = state] ELSE conn[s]]
    /\ lease' = IF lease.holder \in {s \in S : conn[s].state = "joined" /\ ~Scope[s].replayOnly}
                THEN [lease EXCEPT !.holder = None] ELSE lease

Claimed(s) == [holder |-> s, managed |-> TRUE]

(***************************************************************************)
(* The middleware: a runtime that names its incarnation, or a replay,      *)
(* claims the session and evicts the lease it displaces, in its own        *)
(* process at once.  Nothing is joined yet.                                *)
(***************************************************************************)
Handshake(s) ==
    LET p == Scope[s].home IN
    /\ conn[s].state = "new" /\ pod[p] = "up"
    /\ IF Scope[s].claims
       THEN LET old == lease.holder
                evicted == IF old = None THEN {} ELSE InLeaseRoom(p, s, old)
                m == [id |-> <<"evict", s>>, rooms |->
                        {RuntimeConnectionLeaseRoom(Scope[s].user, Scope[s].session, old)},
                      origin |-> None]
            IN  /\ conn' = [x \in Socket |->
                              IF x = s THEN [state |-> "admitted", at |-> p, lease |-> s]
                              ELSE IF x \in evicted THEN [conn[x] EXCEPT !.state = "evicted"]
                              ELSE conn[x]]
                /\ lease' = Claimed(s)
                /\ wire' = wire \union (IF old = None THEN {} ELSE ToOthers(p, "evict", {m}))
       ELSE /\ conn' = [conn EXCEPT ![s] = [state |-> "admitted", at |-> p, lease |-> None]]
            /\ UNCHANGED <<lease, wire>>
    /\ UNCHANGED <<pod, outbox, sent, got, dup, lost, plan>>

\* The connection callback: rooms are joined, a daemon is announced.
Join(s) ==
    /\ conn[s].state = "admitted"
    /\ conn' = [conn EXCEPT ![s].state = "joined"]
    /\ MachineActivity(conn[s].at, "online", {s})
    /\ UNCHANGED <<pod, lease, outbox, lost, plan>>

Disconnect(s) ==
    /\ conn[s].state = "joined"
    /\ Spend("leaves")
    /\ Gone({s}, "left")
    /\ MachineActivity(conn[s].at, "offline", {s})
    /\ UNCHANGED <<pod, outbox, lost>>
-----------------------------------------------------------------------------
(* Committed messages. *)

\* sessionMessageCreate captures the runtime the session has now: its lease
\* unless that has lapsed, or an untouched session's legacy runtime.
Commit(o, session, user) ==
    /\ Spend("messages")
    /\ \E target \in {None} \union
                     (IF lease.holder = None \/ Scope[lease.holder].replayOnly THEN {}
                      ELSE {lease.holder}) :
       \E legacy \in (IF lease.managed THEN {FALSE} ELSE BOOLEAN) :
           outbox' = outbox \union {[user |-> user, session |-> session, lease |-> target,
                                     legacy |-> legacy, origin |-> o, nr |-> plan.messages]}
    /\ UNCHANGED <<pod, conn, lease, wire, sent, got, dup, lost>>

(***************************************************************************)
(* A dispatcher publishes: every process that listens gets a copy, the     *)
(* publisher too.  The row is marked, or stays for another attempt though  *)
(* Redis has taken it (a publish that timed out).  A drain that outlasts   *)
(* its phase of the shutdown publishes until Redis is cut off.             *)
(***************************************************************************)
Publish(p, n) ==
    LET id == <<"durable", plan.publications>>
        m == [id |-> id, rooms |-> DurableRooms(n), origin |-> n.origin]
    IN  /\ Until(p, "gone")
        /\ Spend("publications")
        /\ wire' = wire \union {[to |-> q, act |-> "durable", msg |-> m] :
                                  q \in {q \in Pod : Until(q, "busStopped")}}
        /\ sent' = sent \union
             {[id |-> id, user |-> n.user, note |-> n,
               audience |-> {s \in Socket : /\ conn[s].state = "joined" /\ s # n.origin
                                            /\ Scope[s].user = n.user
                                            /\ ShouldSendDurable(Connection(s), n)}]}
        /\ outbox' \in {outbox, outbox \ {n}}
        /\ UNCHANGED <<pod, conn, lease, got, dup, lost>>

\* Defect: the notification is handed to the cluster instead of the own sockets.
HandleMessageMut(w) ==
    /\ w.act = "durable" /\ w \in wire
    /\ UNCHANGED <<conn, lease>>
    /\ EmitLocal(w.to, {w.msg})
    /\ wire' = (wire \ {w}) \union ToOthers(w.to, "emit", {w.msg})
    /\ UNCHANGED sent

\* The bus has a notification: it goes to the sockets of this process.
HandleMessage(w) ==
    /\ w.act = "durable" /\ w \in wire
    /\ wire' = wire \ {w}
    /\ UNCHANGED <<conn, lease, sent>>
    /\ IF Until(w.to, "busStopped") THEN EmitLocal(w.to, {w.msg}) ELSE UNCHANGED <<got, dup>>

\* The adapter has a command of another process.
HandleCommand(w) ==
    /\ w \in wire
    /\ \/ /\ w.act = "emit"
          /\ wire' = wire \ {w}
          /\ UNCHANGED <<conn, lease, sent>>
          /\ EmitLocal(w.to, {w.msg})
       \/ /\ w.act = "evict"
          /\ Gone({s \in Socket : Reaches(conn, s, w.to, w.msg.rooms, None)}, "evicted")
          /\ wire' = wire \ {w}
          /\ UNCHANGED <<got, dup, sent>>

Handle(w) ==
    /\ HandleMessage(w) \/ HandleCommand(w)
    /\ UNCHANGED <<pod, outbox, lost, plan>>

Lose(w) ==
    /\ Spend("faults")
    /\ wire' = wire \ {w}
    /\ lost' = lost \union {w.msg.id}
    /\ UNCHANGED <<pod, conn, lease, outbox, sent, got, dup>>
-----------------------------------------------------------------------------
(* The end of a process. *)

SocketsOf(p) == {s \in Socket : conn[s].at = p /\ conn[s].state \in {"admitted", "joined"}}

\* Defect: the bus is stopped before the sockets are closed.
AfterMut(stage) == IF stage = "up" THEN "busStopped" ELSE Stages[Position(stage) + 1]

After(stage) == Stages[Position(stage) + 1]

(***************************************************************************)
(* The next phase of shutdownSocketRuntime.  Each one does what counts     *)
(* here in its first, synchronous part, so that a phase that times out and *)
(* one that completes are the same: closing Socket.IO disconnects every    *)
(* socket, stopping the bus makes it deaf, a Redis client that does not    *)
(* quit is cut off.  A dispatcher that does not stop is allowed for in     *)
(* Publish.                                                                *)
(***************************************************************************)
ShutdownPhase(p) ==
    LET stage == After(pod[p])
        S == IF stage = "socketsClosed" THEN SocketsOf(p) ELSE {}
    IN  /\ pod[p] # "gone"
        /\ pod[p] = "up" => plan.stops > 0
        /\ plan' = IF pod[p] = "up" THEN [plan EXCEPT !.stops = @ - 1] ELSE plan
        /\ pod' = [pod EXCEPT ![p] = stage]
        /\ Gone(S, "left")
        /\ LET M == {s \in S : conn[s].state = "joined" /\ Scope[s].type = "machine-scoped"}
               ms == {Event(<<"offline", s>>, Scope[s].user, UserOnly) : s \in M}
           IN  /\ EmitLocal(p, ms)
               /\ sent' = sent \union Record("offline", M, UserOnly)
               /\ wire' = {w \in wire \union ToOthers(p, "emit", ms) : stage = "gone" => w.to # p}
        /\ UNCHANGED <<outbox, lost>>

\* The process is killed: no handler runs, the lease stays until it lapses.
Crash(p) ==
    /\ pod[p] # "gone"
    /\ Spend("faults")
    /\ pod' = [pod EXCEPT ![p] = "gone"]
    /\ conn' = [s \in Socket |->
                  IF s \in SocketsOf(p) THEN [conn[s] EXCEPT !.state = "left"] ELSE conn[s]]
    /\ wire' = {w \in wire : w.to # p}
    /\ UNCHANGED <<lease, outbox, sent, got, dup, lost>>
-----------------------------------------------------------------------------
Next ==
    \/ \E s \in Socket : Handshake(s) \/ Join(s) \/ Disconnect(s)
    \/ \E p \in Pod, u \in Account, f \in Filters : Emit(p, u, f)
    \/ \E s \in Socket, o \in Socket \union {None} :
         /\ Scope[s].session # None
         /\ o # None => conn[o].state = "joined" /\ Scope[o].user = Scope[s].user
         /\ Commit(o, Scope[s].session, Scope[s].user)
    \/ \E p \in Pod, n \in outbox : Publish(p, n)
    \/ \E w \in wire : Handle(w)
    \/ \E w \in wire : Lose(w)
    \/ \E p \in Pod : ShutdownPhase(p)
    \/ \E p \in Pod : Crash(p)

Spec == Init /\ [][Next]_vars

(***************************************************************************)
(* Fairness: what Redis has not dropped reaches the process, whose event   *)
(* loop runs its handler.                                                  *)
(***************************************************************************)
FairSpec == Spec /\ \A p \in Pod : WF_vars(\E w \in wire : w.to = p /\ Handle(w))
-----------------------------------------------------------------------------
(***************************************************************************)
(* However many processes listen, and whoever comes, goes or moves, a      *)
(* socket receives one publication or event at most once (the reason for   *)
(* io.local in emitDurableSessionMessageLocal).                            *)
(***************************************************************************)
AtMostOnce == dup = {}

(***************************************************************************)
(* Nobody else hears it: whatever a socket has received, the walk over the *)
(* connections would have sent it.  In particular a runtime hears only the *)
(* messages that were captured for its own lease, however late they are    *)
(* published, a replay transport and another account hear nothing, and the *)
(* sender of a message is spared its echo (getConnectionRooms,             *)
(* getRecipientRooms, emitDurableSessionMessageLocal).                     *)
(***************************************************************************)
NobodyElse ==
    \A s \in Socket : \A e \in sent :
        e.id \in got[s] =>
            /\ Scope[s].user = e.user
            /\ IF "note" \in DOMAIN e
               THEN s # e.note.origin /\ ShouldSendDurable(Connection(s), e.note)
               ELSE ShouldSendToConnection(Connection(s), e.filter)

(***************************************************************************)
(* An eviction, however late its command arrives, never disconnects the    *)
(* socket that holds the session: it names the displaced lease, not the    *)
(* session (the claim in socket.ts).                                       *)
(***************************************************************************)
WinnerStays ==
    [][\A s \in Socket :
         /\ conn[s].state # "evicted" /\ conn'[s].state = "evicted"
         /\ s = lease.holder
         => lease'.holder \in Socket \ {s}]_vars

(***************************************************************************)
(* No live socket is left behind a stopped bus (shutdownSocketRuntime): a  *)
(* socket that would no longer be told of new messages is not connected.   *)
(***************************************************************************)
NoSocketBehindStoppedBus ==
    /\ TypeOK
    /\ \A s \in Socket :
         conn[s].state \in {"admitted", "joined"} => Until(conn[s].at, "busStopped")

\* What the audience of an event may rely on: everyone but the leased runtimes,
\* which are not in their session's room.
ByRoom(e) ==
    {s \in e.audience :
        "filter" \in DOMAIN e /\ e.filter.type = "all-interested-in-session" =>
            conn[s].lease = None}

Reached(s, e) == e.id \in got[s] \cup lost \/ conn[s].state # "joined"

(***************************************************************************)
(* Everybody hears it: a socket that was connected when an event was       *)
(* emitted or a message published, and that the walk over the connections  *)
(* would choose, receives it unless Redis drops it or the socket goes      *)
(* first, whatever process the two are connected to (emit,                 *)
(* emitDurableSessionMessageLocal, handleMessage).                         *)
(***************************************************************************)
EverybodyHears == <>[](\A e \in sent : \A s \in ByRoom(e) : Reached(s, e))
=============================================================================
