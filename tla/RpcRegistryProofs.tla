-------------------------- MODULE RpcRegistryProofs --------------------------
(***************************************************************************)
(* Proofs about RpcRegistry, for any sockets, runtimes, callers, methods   *)
(* and limit of registrations: a registration is replaced only by a        *)
(* fresher one, none is left to itself, the last event of a socket wins,   *)
(* and a call is delivered at most once.                                   *)
(***************************************************************************)
EXTENDS RpcRegistry, SequenceTheorems, FiniteSetTheorems, TLAPS

-----------------------------------------------------------------------------
(* The inductive invariant, in parts.                                      *)

Client == [state : {"new", "up", "down"}, wants : [Method -> BOOLEAN],
           acked : [Method -> Nat]]

Busy(l) == l.at \in {"wait", "replied"}
Op(l) == Head(l.tail).op

RegisterOf(m) == [op |-> "register", method |-> m]
UnregisterOf(m) == [op |-> "unregister", method |-> m]

\* No more registrations than the limit.
Small(held) ==
    IsFiniteSet(Methods(held)) /\ Cardinality(Methods(held)) <= MaxRegistrations

\* No operation registers m from the i-th on.
NoRegister(tail, i, m) ==
    \A j \in DOMAIN tail : j >= i => tail[j] # RegisterOf(m)

\* A method whose last event is rpc-unregister is not held and will not be, or
\* its unregister is still queued, behind every register of it.
Obeys(held, tail, wants) ==
    \A m \in Method : ~wants[m] =>
        \/ held[m] = 0 /\ NoRegister(tail, 1, m)
        \/ \E i \in DOMAIN tail : tail[i] = UnregisterOf(m) /\ NoRegister(tail, i, m)

\* The close is the last operation, and nothing is held once it has run.
Closes(l, k) ==
    /\ l.closing => k.state = "down" /\ ~l.timer
    /\ l.closing /\ l.tail = <<>> => l.held = NoRegistrations
    /\ l.closing /\ l.tail # <<>> => l.tail[Len(l.tail)].op = "close"
    /\ \A i \in DOMAIN l.tail : l.tail[i].op = "close" => l.closing /\ i = Len(l.tail)

\* What the running operation has in hand.
Works(l) ==
    /\ l.tail = <<>> => l.at = "idle"
    /\ ~Busy(l) => l.sent = NoRegistrations
    /\ l.at # "idle" /\ Op(l) = "register" => ~AtLimit(l, Head(l.tail).method)
    /\ Busy(l) /\ Op(l) = "register" =>
         \A m \in Method : l.sent[m] # 0 <=> m = Head(l.tail).method
    /\ l.at # "idle" /\ Op(l) = "refresh" => l.at # "retry" /\ (Busy(l) => l.sent = l.held)
    /\ l.at # "idle" /\ Op(l) \in {"unregister", "close"} =>
         Busy(l) /\ \A m \in Method : l.sent[m] # 0 => l.held[m] = 0
    /\ l.at # "idle" /\ Op(l) = "close" => l.held = NoRegistrations
    /\ l.at # "idle" /\ Op(l) = "unregister" => l.held[Head(l.tail).method] = 0

\* A socket and its lifecycle object.
Proper(l, k) ==
    /\ l \in Lifecycle /\ k \in Client
    /\ k.state = "new" => l.tail = <<>> /\ ~l.timer
    /\ Small(l.held)
    /\ Obeys(l.held, l.tail, k.wants)
    /\ Closes(l, k)
    /\ Works(l)

\* Ownership that a fence statement did not see has not come since.
Asks(s) == life[s].at = "asked" => s \in Fenced /\ (life[s].saw \/ owner # s)

Types ==
    /\ redis \in [Method -> Entry]
    /\ pipe \in Seq(Command)
    /\ clock \in Nat
    /\ owner \in Fenced \union {None}
    /\ lock \in Fenced \union Caller \union {None}
    /\ life \in [Socket -> Lifecycle]
    /\ client \in [Socket -> Client]
    /\ uncertain \subseteq Socket \X Method \X Nat
    /\ budget \in [events : Nat, faults : Nat]

Sockets == \A s \in Socket : Proper(life[s], client[s]) /\ Asks(s)

\* Generations come from the clock, and a SET carries a newer one than all that
\* is stored or was written before it.
Gens ==
    \A m \in Method :
        /\ redis[m].gen <= clock /\ (redis[m].sock = None <=> redis[m].gen = 0)
        /\ redis[m] # Absent => client[redis[m].sock].state # "new"
        /\ \A s \in Socket : life[s].held[m] <= clock /\ life[s].sent[m] <= clock
        /\ \A i \in DOMAIN pipe : pipe[i].regs[m] <= clock
        /\ \A j \in DOMAIN pipe : pipe[j].op = "set" /\ pipe[j].regs[m] # 0 =>
             /\ redis[m].gen < pipe[j].regs[m]
             /\ \A i \in 1 .. j - 1 : pipe[i].regs[m] < pipe[j].regs[m]

CommandOf(l) ==
    CASE Op(l) = "register" -> "set" [] Op(l) = "refresh" -> "refresh" [] OTHER -> "delete"

\* Somebody waits for every live command, and the others are in doubt.
Commands ==
    /\ \A i \in DOMAIN pipe :
         LET c == pipe[i] l == life[c.sock] IN
         /\ client[c.sock].state # "new"
         /\ c.live => l.at = "wait" /\ l.sent = c.regs /\ c.op = CommandOf(l)
         /\ ~c.live => \A m \in Methods(c.regs) : <<c.sock, m, c.regs[m]>> \in uncertain
    /\ \A i, j \in DOMAIN pipe :
         pipe[i].live /\ pipe[j].live /\ pipe[i].sock = pipe[j].sock => i = j

\* An entry that no failure and no takeover has made doubtful.
Sure(m) ==
    /\ redis[m] # Absent
    /\ <<redis[m].sock, m, redis[m].gen>> \notin uncertain
    /\ redis[m].sock \in Fenced => owner = redis[m].sock

\* Its socket holds it or has it in hand, and a result says that it stands.
Tended(l, m, g) ==
    /\ \/ l.held[m] = g
       \/ l.sent[m] = g /\ (l.at = "wait" \/ (l.at = "replied" /\ Op(l) = "register"))
    /\ l.at = "replied" /\ l.sent[m] # 0 => l.sent[m] = g /\ m \in l.kept

Entries == \A m \in Method : Sure(m) => Tended(life[redis[m].sock], m, redis[m].gen)

\* A call that has not been sent is not delivered, and only one that is over
\* has an outcome.
Calls ==
    /\ call \in [Caller -> Call]
    /\ \A c \in Caller :
         /\ call[c].at \in {"idle", "resolved", "asked"} => call[c].delivered = 0
         /\ call[c].delivered <= 1
         /\ call[c].at # "done" => call[c].outcome = "none"
         /\ call[c].outcome = "not_started" => call[c].delivered = 0
         /\ call[c].at \in {"resolved", "asked"} => call[c].target.sock \in Socket

IInv == Types /\ Sockets /\ Gens /\ Commands /\ Entries /\ Calls

-----------------------------------------------------------------------------
(* What the operators on a lifecycle object do to its fields.              *)

\* An operation on a method names it, and no other operation is one.
LEMMA OperationFacts ==
    ASSUME NEW o \in Operation
    PROVE  /\ o.op \in {"register", "unregister", "refresh", "close"}
           /\ o.op \in {"register", "unregister"} => o.method \in Method
           /\ \A m \in Method : o = RegisterOf(m) <=> o.op = "register" /\ o.method = m
           /\ \A m \in Method : o = UnregisterOf(m) <=> o.op = "unregister" /\ o.method = m
<1>1. CASE o \in [op : {"register", "unregister"}, method : Method]
  BY <1>1 DEF RegisterOf, UnregisterOf
<1>2. CASE o \in [op : {"refresh", "close"}]
  BY <1>2 DEF RegisterOf, UnregisterOf
<1>. QED
  BY <1>1, <1>2 DEF Operation

\* The queued operations are operations.
LEMMA OperationsAreTyped ==
    /\ [op |-> "refresh"] \in Operation
    /\ [op |-> "close"] \in Operation
    /\ \A m \in Method : RegisterOf(m) \in Operation /\ UnregisterOf(m) \in Operation
BY DEF Operation, RegisterOf, UnregisterOf

\* Queued appends to the tail and changes nothing else.
LEMMA QueuedFields ==
    ASSUME NEW l \in Lifecycle, NEW o \in Operation, NEW q, q = Queued(l, o)
    PROVE  /\ q \in Lifecycle
           /\ q.held = l.held /\ q.timer = l.timer /\ q.closing = l.closing
           /\ q.at = l.at /\ q.saw = l.saw /\ q.sent = l.sent /\ q.kept = l.kept
           /\ q.tail = Append(l.tail, o)
<1>1. PICK t : t = Append(l.tail, o)
  OBVIOUS
<1>2. l.tail \in Seq(Operation)
  BY DEF Lifecycle
<1>3. t \in Seq(Operation)
  BY <1>1, <1>2, AppendProperties
<1>4. q = [l EXCEPT !.tail = t]
  BY <1>1 DEF Queued
<1>. QED
  BY <1>1, <1>3, <1>4 DEF Lifecycle

\* The empty map is a map of registrations.
LEMMA NoRegistrationsType == NoRegistrations \in [Method -> Nat]
BY DEF NoRegistrations

\* Finished takes the head off the queue and forgets what it had in hand.
LEMMA FinishedFields ==
    ASSUME NEW l \in Lifecycle, l.tail # <<>>, NEW q, q = Finished(l)
    PROVE  /\ q \in Lifecycle
           /\ q.held = l.held /\ q.timer = l.timer /\ q.closing = l.closing
           /\ q.at = "idle" /\ q.sent = NoRegistrations
           /\ q.tail = Tail(l.tail)
<1>1. PICK t : t = Tail(l.tail)
  OBVIOUS
<1>2. l.tail \in Seq(Operation)
  BY DEF Lifecycle
<1>3. t \in Seq(Operation)
  BY <1>1, <1>2, HeadTailProperties
<1>4. PICK z \in BOOLEAN : z = FALSE
  OBVIOUS
<1>5. PICK n \in [Method -> Nat] : n = NoRegistrations
  BY NoRegistrationsType
<1>6. q = [l EXCEPT !.tail = t, !.at = "idle", !.saw = z, !.sent = n, !.kept = {}]
  BY <1>1, <1>4, <1>5, Zenon DEF Finished
<1>. QED
  BY <1>1, <1>3, <1>5, <1>6 DEF Lifecycle

\* StopTimerIfIdle can only stop the timer.
LEMMA StopTimerFields ==
    ASSUME NEW l \in Lifecycle, NEW q, q = StopTimerIfIdle(l)
    PROVE  /\ q \in Lifecycle
           /\ q.held = l.held /\ q.closing = l.closing
           /\ q.at = l.at /\ q.saw = l.saw /\ q.sent = l.sent /\ q.kept = l.kept
           /\ q.tail = l.tail
           /\ q.timer => l.timer
<1>1. PICK z \in BOOLEAN : z = (l.timer /\ l.held # NoRegistrations)
  OBVIOUS
<1>2. q = [l EXCEPT !.timer = z]
  BY <1>1, Zenon DEF StopTimerIfIdle
<1>3. /\ q \in Lifecycle
      /\ q.held = l.held /\ q.closing = l.closing
      /\ q.at = l.at /\ q.saw = l.saw /\ q.sent = l.sent /\ q.kept = l.kept
      /\ q.tail = l.tail
      /\ q.timer = z
  BY <1>2 DEF Lifecycle
<1>. QED
  BY <1>1, <1>3

\* Awaiting notes the command that was written.
LEMMA AwaitingFields ==
    ASSUME NEW l \in Lifecycle, NEW S \in [Method -> Nat], NEW q, q = Awaiting(l, S)
    PROVE  /\ q \in Lifecycle
           /\ q.held = l.held /\ q.timer = l.timer /\ q.closing = l.closing
           /\ q.at = "wait" /\ q.sent = S
           /\ q.tail = l.tail
BY DEF Awaiting, Lifecycle

\* The removed method is taken out of the map, by close all of them.
LEMMA ForgottenFields ==
    ASSUME NEW l \in Lifecycle, l.tail # <<>>, Op(l) \in {"unregister", "close"},
           NEW q, q = Forgotten(l)
    PROVE  /\ q \in Lifecycle
           /\ q.held = IF Op(l) = "close" THEN NoRegistrations
                       ELSE [l.held EXCEPT ![Head(l.tail).method] = 0]
           /\ q.timer => l.timer
           /\ q.closing = l.closing /\ q.at = l.at /\ q.sent = l.sent
           /\ q.tail = l.tail
<1>1. PICK o : o = Head(l.tail)
  OBVIOUS
<1>2. o \in Operation /\ o.op = Op(l)
  BY <1>1, HeadTailProperties DEF Lifecycle, Op
<1>3. CASE Op(l) = "close"
  <2>1. q = [l EXCEPT !.held = NoRegistrations, !.cancelled = {}]
    BY <1>1, <1>2, <1>3, Zenon DEF Forgotten
  <2>2. PICK n \in [Method -> Nat] : n = NoRegistrations
    BY NoRegistrationsType
  <2>3. q = [l EXCEPT !.held = n, !.cancelled = {}]
    BY <2>1, <2>2, Zenon
  <2>. QED
    BY <1>3, <2>2, <2>3 DEF Lifecycle
<1>4. CASE Op(l) = "unregister"
  <2>1. q = StopTimerIfIdle([l EXCEPT !.held[o.method] = 0])
    BY <1>1, <1>2, <1>4 DEF Forgotten
  <2>2. PICK H : H = [l.held EXCEPT ![o.method] = 0]
    OBVIOUS
  <2>3. PICK p : p = [l EXCEPT !.held = H]
    OBVIOUS
  <2>4. l.held \in [Method -> Nat]
    BY DEF Lifecycle
  <2>5. H \in [Method -> Nat]
    BY <2>2, <2>4
  <2>6. /\ p \in Lifecycle
        /\ p.held = H /\ p.timer = l.timer /\ p.closing = l.closing
        /\ p.at = l.at /\ p.sent = l.sent /\ p.tail = l.tail
    BY <2>3, <2>5 DEF Lifecycle
  <2>7. [l EXCEPT !.held[o.method] = 0] = p
    BY <2>2, <2>3, Zenon
  <2>8. q = StopTimerIfIdle(p)
    BY <2>1, <2>7
  <2>9. /\ q \in Lifecycle
        /\ q.held = p.held /\ q.closing = p.closing
        /\ q.at = p.at /\ q.sent = p.sent /\ q.tail = p.tail
        /\ q.timer => p.timer
    BY <2>6, <2>8, StopTimerFields
  <2>. QED
    BY <1>1, <1>4, <2>2, <2>6, <2>9
<1>. QED
  BY <1>3, <1>4

\* unregister and close end like any operation.
LEMMA RemovalEndsFields ==
    ASSUME NEW l \in Lifecycle, l.tail # <<>>, Op(l) \in {"unregister", "close"},
           NEW q, q = RemovalEnds(l)
    PROVE  /\ q \in Lifecycle
           /\ q.held = l.held /\ q.timer = l.timer /\ q.closing = l.closing
           /\ q.at = "idle" /\ q.sent = NoRegistrations
           /\ q.tail = Tail(l.tail)
<1>1. PICK o : o = Head(l.tail)
  OBVIOUS
<1>2. o \in Operation /\ o.op = Op(l)
  BY <1>1, HeadTailProperties DEF Lifecycle, Op
<1>3. PICK p : p = IF o.op = "unregister" THEN Uncancelled(l, o.method) ELSE l
  OBVIOUS
<1>4. /\ p \in Lifecycle
      /\ p.held = l.held /\ p.timer = l.timer /\ p.closing = l.closing
      /\ p.tail = l.tail
  <2>1. CASE o.op = "unregister"
    <3>1. PICK C : C = l.cancelled \ {o.method}
      OBVIOUS
    <3>2. C \in SUBSET Method
      BY <3>1 DEF Lifecycle
    <3>3. p = [l EXCEPT !.cancelled = C]
      BY <1>3, <2>1, <3>1 DEF Uncancelled
    <3>. QED
      BY <3>2, <3>3 DEF Lifecycle
  <2>2. CASE o.op # "unregister"
    BY <1>3, <2>2
  <2>. QED
    BY <2>1, <2>2
<1>5. q = Finished(p)
  BY <1>1, <1>3 DEF RemovalEnds
<1>6. p.tail # <<>>
  BY <1>4
<1>7. /\ q \in Lifecycle
      /\ q.held = p.held /\ q.timer = p.timer /\ q.closing = p.closing
      /\ q.at = "idle" /\ q.sent = NoRegistrations
      /\ q.tail = Tail(p.tail)
  BY <1>4, <1>5, <1>6, FinishedFields
<1>. QED
  BY <1>4, <1>7

\* A successful install enters the new generation in the map.
LEMMA InstalledFields ==
    ASSUME NEW l \in Lifecycle, l.tail # <<>>, Op(l) = "register", NEW q, q = Installed(l)
    PROVE  /\ q \in Lifecycle
           /\ q.held = [l.held EXCEPT ![Head(l.tail).method] = l.sent[Head(l.tail).method]]
           /\ q.timer => l.timer \/ ~l.closing
           /\ q.closing = l.closing /\ q.at = l.at /\ q.sent = l.sent
           /\ q.tail = l.tail
<1>1. PICK m : m = Head(l.tail).method
  OBVIOUS
<1>2. m \in Method
  BY <1>1, HeadTailProperties, OperationFacts DEF Lifecycle, Op
<1>3. PICK z \in BOOLEAN : z = (l.timer \/ ~l.closing)
  OBVIOUS
<1>4. PICK H : H = [l.held EXCEPT ![m] = l.sent[m]]
  OBVIOUS
<1>5. H \in [Method -> Nat]
  BY <1>2, <1>4 DEF Lifecycle
<1>6. q = [l EXCEPT !.held[m] = l.sent[m], !.timer = l.timer \/ ~l.closing]
  BY <1>1 DEF Installed
<1>7. q = [l EXCEPT !.held = H, !.timer = z]
  BY <1>3, <1>4, <1>6, Zenon
<1>8. /\ q \in Lifecycle
      /\ q.held = H /\ q.timer = z /\ q.closing = l.closing
      /\ q.at = l.at /\ q.sent = l.sent /\ q.tail = l.tail
  BY <1>5, <1>7 DEF Lifecycle
<1>. QED
  BY <1>1, <1>3, <1>4, <1>8

\* A refresh drops what its script did not keep.
LEMMA SurvivingFields ==
    ASSUME NEW l \in Lifecycle, NEW q, q = Surviving(l)
    PROVE  /\ q \in Lifecycle
           /\ \A m \in Method :
                q.held[m] = IF l.sent[m] # 0 /\ m \notin l.kept THEN 0 ELSE l.held[m]
           /\ q.timer => l.timer
           /\ q.closing = l.closing /\ q.tail = l.tail
<1>1. PICK H : H = [m \in Method |-> IF m \in Methods(l.sent) \ l.kept THEN 0 ELSE l.held[m]]
  OBVIOUS
<1>2. l.held \in [Method -> Nat]
  BY DEF Lifecycle
<1>3. H \in [Method -> Nat]
  BY <1>1, <1>2
<1>4. \A m \in Method : H[m] = IF l.sent[m] # 0 /\ m \notin l.kept THEN 0 ELSE l.held[m]
  BY <1>1 DEF Methods
<1>5. PICK p : p = [l EXCEPT !.held = H]
  OBVIOUS
<1>6. q = StopTimerIfIdle(p)
  BY <1>1, <1>5 DEF Surviving
<1>7. /\ p \in Lifecycle
      /\ p.held = H /\ p.timer = l.timer /\ p.closing = l.closing /\ p.tail = l.tail
  BY <1>3, <1>5 DEF Lifecycle
<1>8. /\ q \in Lifecycle /\ q.held = p.held /\ q.closing = p.closing /\ q.tail = p.tail
      /\ q.timer => p.timer
  BY <1>6, <1>7, StopTimerFields
<1>. QED
  BY <1>4, <1>7, <1>8

\* close() stops the timer and queues the last operation, once.
LEMMA ClosingFields ==
    ASSUME NEW l \in Lifecycle, NEW q, q = Closing(l)
    PROVE  /\ q \in Lifecycle
           /\ q.held = l.held /\ q.closing
           /\ q.at = l.at /\ q.saw = l.saw /\ q.sent = l.sent /\ q.kept = l.kept
           /\ l.closing => q = l
           /\ ~l.closing => ~q.timer /\ q.tail = Append(l.tail, [op |-> "close"])
<1>1. CASE l.closing
  BY <1>1 DEF Closing
<1>2. CASE ~l.closing
  <2>1. PICK y \in BOOLEAN : y = TRUE
    OBVIOUS
  <2>2. PICK z \in BOOLEAN : z = FALSE
    OBVIOUS
  <2>3. PICK p : p = [l EXCEPT !.closing = y, !.timer = z]
    OBVIOUS
  <2>4. /\ p \in Lifecycle
        /\ p.held = l.held /\ p.timer = z /\ p.closing = y
        /\ p.at = l.at /\ p.saw = l.saw /\ p.sent = l.sent /\ p.kept = l.kept
        /\ p.tail = l.tail
    BY <2>3 DEF Lifecycle
  <2>5. PICK o \in Operation : o = [op |-> "close"]
    BY OperationsAreTyped
  <2>6. q = Queued(p, o)
    BY <1>2, <2>1, <2>2, <2>3, <2>5, Zenon DEF Closing
  <2>7. /\ q \in Lifecycle
        /\ q.held = p.held /\ q.timer = p.timer /\ q.closing = p.closing
        /\ q.at = p.at /\ q.saw = p.saw /\ q.sent = p.sent /\ q.kept = p.kept
        /\ q.tail = Append(p.tail, o)
    BY <2>4, <2>6, QueuedFields
  <2>8. q.timer = FALSE /\ q.closing = TRUE
    BY <2>1, <2>2, <2>4, <2>7, Zenon
  <2>9. q.held = l.held /\ q.tail = Append(l.tail, [op |-> "close"])
    BY <2>4, <2>5, <2>7
  <2>10. q.at = l.at /\ q.saw = l.saw /\ q.sent = l.sent /\ q.kept = l.kept
    BY <2>4, <2>7
  <2>. QED
    BY <1>2, <2>7, <2>8, <2>9, <2>10
<1>. QED
  BY <1>1, <1>2

\* A command that throws makes register retry, and ends the other operations.
LEMMA ThrownFields ==
    ASSUME NEW l \in Lifecycle, l.tail # <<>>, NEW q, q = Thrown(l)
    PROVE  /\ q \in Lifecycle
           /\ q.held = l.held /\ q.closing = l.closing /\ q.sent = NoRegistrations
           /\ q.timer => l.timer
           /\ Op(l) = "register" => q.tail = l.tail /\ q.at = "retry"
           /\ Op(l) # "register" => q.tail = Tail(l.tail) /\ q.at = "idle"
<1>1. Op(l) \in {"register", "refresh", "unregister", "close"}
  BY HeadTailProperties, OperationFacts DEF Lifecycle, Op
<1>2. CASE Op(l) = "register"
  <2>1. PICK n \in [Method -> Nat] : n = NoRegistrations
    BY NoRegistrationsType
  <2>2. PICK z \in BOOLEAN : z = FALSE
    OBVIOUS
  <2>3. q = [l EXCEPT !.at = "retry", !.saw = FALSE, !.sent = NoRegistrations, !.kept = {}]
    BY <1>2, Zenon DEF Thrown, Op
  <2>4. q = [l EXCEPT !.at = "retry", !.saw = z, !.sent = n, !.kept = {}]
    BY <2>1, <2>2, <2>3, Zenon
  <2>. QED
    BY <1>2, <2>1, <2>4 DEF Lifecycle
<1>3. CASE Op(l) = "refresh"
  <2>1. PICK p : p = Finished(l)
    OBVIOUS
  <2>2. q = StopTimerIfIdle(p)
    BY <1>3, <2>1 DEF Thrown, Op
  <2>3. /\ p \in Lifecycle
        /\ p.held = l.held /\ p.timer = l.timer /\ p.closing = l.closing
        /\ p.at = "idle" /\ p.sent = NoRegistrations
        /\ p.tail = Tail(l.tail)
    BY <2>1, FinishedFields
  <2>4. /\ q \in Lifecycle
        /\ q.held = p.held /\ q.closing = p.closing
        /\ q.at = p.at /\ q.sent = p.sent /\ q.tail = p.tail
        /\ q.timer => p.timer
    BY <2>2, <2>3, StopTimerFields
  <2>. QED
    BY <1>3, <2>3, <2>4
<1>4. CASE Op(l) \in {"unregister", "close"}
  <2>1. q = RemovalEnds(l)
    BY <1>4 DEF Thrown, Op
  <2>. QED
    BY <1>4, <2>1, RemovalEndsFields
<1>. QED
  BY <1>1, <1>2, <1>3, <1>4

-----------------------------------------------------------------------------
(* The parts of Proper, one at a time.                                     *)

\* Dropping registrations keeps a map small.
LEMMA SmallSubset ==
    ASSUME NEW h, NEW g, Small(h), \A m \in Method : h[m] = 0 => g[m] = 0
    PROVE  Small(g)
<1>1. Methods(g) \subseteq Methods(h)
  BY DEF Methods
<1>2. /\ IsFiniteSet(Methods(g))
      /\ Cardinality(Methods(g)) <= Cardinality(Methods(h))
  BY <1>1, FS_Subset DEF Small
<1>3. Cardinality(Methods(g)) \in Nat /\ Cardinality(Methods(h)) \in Nat
  BY <1>2, FS_CardinalityType DEF Small
<1>. QED
  BY <1>2, <1>3, RegistryAssumption DEF Small

\* An install that the limit allowed keeps it small.
LEMMA SmallInstall ==
    ASSUME NEW l \in Lifecycle, NEW m \in Method, NEW g \in Nat,
           Small(l.held), ~AtLimit(l, m)
    PROVE  Small([l.held EXCEPT ![m] = g])
<1>1. PICK h : h = [l.held EXCEPT ![m] = g]
  OBVIOUS
<1>2. l.held \in [Method -> Nat]
  BY DEF Lifecycle
<1>3. h[m] = g /\ \A n \in Method : n # m => h[n] = l.held[n]
  BY <1>1, <1>2
<1>4. PICK M : M = Methods(l.held)
  OBVIOUS
<1>5. IsFiniteSet(M) /\ Cardinality(M) \in Nat /\ Cardinality(M) <= MaxRegistrations
  BY <1>4, FS_CardinalityType DEF Small
<1>6. CASE l.held[m] # 0
  <2>1. \A n \in Method : l.held[n] = 0 => h[n] = 0
    BY <1>3, <1>6
  <2>2. Small(h)
    BY <2>1, SmallSubset
  <2>. QED
    BY <1>1, <2>2
<1>7. CASE l.held[m] = 0
  <2>1. m \notin M /\ ~(Cardinality(M) >= MaxRegistrations)
    BY <1>4, <1>7 DEF AtLimit, Methods
  <2>2. /\ IsFiniteSet(M \union {m})
        /\ Cardinality(M \union {m}) = Cardinality(M) + 1
    BY <1>5, <2>1, FS_AddElement
  <2>3. Methods(h) \subseteq M \union {m}
    BY <1>3, <1>4 DEF Methods
  <2>4. /\ IsFiniteSet(Methods(h))
        /\ Cardinality(Methods(h)) <= Cardinality(M \union {m})
    BY <2>2, <2>3, FS_Subset
  <2>5. Cardinality(Methods(h)) \in Nat
    BY <2>4, FS_CardinalityType
  <2>. QED
    BY <1>1, <1>5, <2>1, <2>2, <2>4, <2>5, RegistryAssumption DEF Small
<1>. QED
  BY <1>6, <1>7

\* An event appends its operation: an unregister of m is the last word on m.
LEMMA ObeysAppend ==
    ASSUME NEW h, NEW t \in Seq(Operation), NEW w, NEW v, NEW o \in Operation,
           Obeys(h, t, w),
           \A m \in Method : ~v[m] => o = UnregisterOf(m) \/ (~w[m] /\ o # RegisterOf(m))
    PROVE  Obeys(h, Append(t, o), v)
<1>1. PICK u : u = Append(t, o)
  OBVIOUS
<1>2. /\ u \in Seq(Operation) /\ Len(u) = Len(t) + 1
      /\ \A i \in 1 .. Len(t) : u[i] = t[i]
      /\ u[Len(t) + 1] = o
  BY <1>1, AppendProperties
<1>3. Len(t) \in Nat /\ DOMAIN t = 1 .. Len(t) /\ DOMAIN u = 1 .. Len(t) + 1
  BY <1>2, LenProperties
<1>4. SUFFICES ASSUME NEW m \in Method, ~v[m]
               PROVE  \/ h[m] = 0 /\ NoRegister(u, 1, m)
                      \/ \E i \in DOMAIN u : u[i] = UnregisterOf(m) /\ NoRegister(u, i, m)
  BY <1>1 DEF Obeys
<1>5. CASE o = UnregisterOf(m)
  <2>1. o # RegisterOf(m)
    BY <1>5, OperationFacts
  <2>2. NoRegister(u, Len(t) + 1, m)
    BY <1>2, <1>3, <2>1 DEF NoRegister
  <2>. QED
    BY <1>2, <1>3, <1>5, <2>2
<1>6. CASE ~w[m] /\ o # RegisterOf(m)
  <2>1. CASE h[m] = 0 /\ NoRegister(t, 1, m)
    BY <1>2, <1>3, <1>6, <2>1 DEF NoRegister
  <2>2. CASE \E i \in DOMAIN t : t[i] = UnregisterOf(m) /\ NoRegister(t, i, m)
    <3>1. PICK i \in DOMAIN t : t[i] = UnregisterOf(m) /\ NoRegister(t, i, m)
      BY <2>2
    <3>2. i \in DOMAIN u /\ u[i] = UnregisterOf(m)
      BY <1>2, <1>3, <3>1
    <3>3. NoRegister(u, i, m)
      BY <1>2, <1>3, <1>6, <3>1 DEF NoRegister
    <3>. QED
      BY <3>2, <3>3
  <2>. QED
    BY <1>6, <2>1, <2>2 DEF Obeys
<1>. QED
  BY <1>4, <1>5, <1>6

\* An operation that ends leaves the queue: only a register may have added its
\* method, and an unregister has removed it.
LEMMA ObeysTail ==
    ASSUME NEW h, NEW g, NEW t \in Seq(Operation), NEW w, t # <<>>,
           Obeys(h, t, w),
           \A m \in Method : h[m] = 0 /\ Head(t) # RegisterOf(m) => g[m] = 0,
           \A m \in Method : Head(t) = UnregisterOf(m) => g[m] = 0
    PROVE  Obeys(g, Tail(t), w)
<1>1. PICK u : u = Tail(t)
  OBVIOUS
<1>2. /\ u \in Seq(Operation) /\ Len(u) = Len(t) - 1
      /\ \A i \in 1 .. Len(u) : u[i] = t[i + 1]
      /\ Head(t) = t[1]
  BY <1>1, HeadTailProperties
<1>3. Len(t) \in Nat /\ Len(u) \in Nat /\ DOMAIN t = 1 .. Len(t) /\ DOMAIN u = 1 .. Len(u)
  BY <1>2, LenProperties
<1>4. SUFFICES ASSUME NEW m \in Method, ~w[m]
               PROVE  \/ g[m] = 0 /\ NoRegister(u, 1, m)
                      \/ \E i \in DOMAIN u : u[i] = UnregisterOf(m) /\ NoRegister(u, i, m)
  BY <1>1 DEF Obeys
<1>5. CASE h[m] = 0 /\ NoRegister(t, 1, m)
  <2>1. t[1] # RegisterOf(m) /\ NoRegister(u, 1, m)
    BY <1>2, <1>3, <1>5 DEF NoRegister
  <2>. QED
    BY <1>2, <1>5, <2>1
<1>6. CASE \E i \in DOMAIN t : t[i] = UnregisterOf(m) /\ NoRegister(t, i, m)
  <2>1. PICK i \in DOMAIN t : t[i] = UnregisterOf(m) /\ NoRegister(t, i, m)
    BY <1>6
  <2>2. CASE i = 1
    <3>1. NoRegister(u, 1, m)
      BY <1>2, <1>3, <2>1, <2>2 DEF NoRegister
    <3>. QED
      BY <1>2, <2>1, <2>2, <3>1
  <2>3. CASE i # 1
    <3>1. i - 1 \in DOMAIN u /\ u[i - 1] = UnregisterOf(m)
      BY <1>2, <1>3, <2>1, <2>3
    <3>2. NoRegister(u, i - 1, m)
      BY <1>2, <1>3, <2>1, <2>3 DEF NoRegister
    <3>. QED
      BY <3>1, <3>2
  <2>. QED
    BY <2>2, <2>3
<1>. QED
  BY <1>4, <1>5, <1>6 DEF Obeys

\* The running operation changes the map: only a register adds its method.
LEMMA ObeysHeld ==
    ASSUME NEW h, NEW g, NEW t \in Seq(Operation), NEW w, t # <<>>,
           Obeys(h, t, w),
           \A m \in Method : h[m] = 0 /\ Head(t) # RegisterOf(m) => g[m] = 0
    PROVE  Obeys(g, t, w)
<1>1. Head(t) = t[1] /\ 1 \in DOMAIN t
  BY HeadTailProperties, LenProperties
<1>. QED
  BY <1>1 DEF Obeys, NoRegister

-----------------------------------------------------------------------------
(* Proper, for each kind of step of a socket.                              *)

\* Appending to the queue leaves the running operation the first.
LEMMA AppendHead ==
    ASSUME NEW t \in Seq(Operation), NEW o \in Operation
    PROVE  /\ Append(t, o) \in Seq(Operation) /\ Append(t, o) # <<>>
           /\ Append(t, o)[Len(Append(t, o))] = o
           /\ t # <<>> => Head(Append(t, o)) = Head(t)
           /\ \A i \in DOMAIN Append(t, o) :
                Append(t, o)[i].op = "close" /\ i # Len(Append(t, o)) =>
                    i \in DOMAIN t /\ t[i].op = "close"
<1>1. PICK u : u = Append(t, o)
  OBVIOUS
<1>2. /\ u \in Seq(Operation) /\ u # <<>> /\ Len(u) = Len(t) + 1
      /\ \A i \in 1 .. Len(t) : u[i] = t[i]
      /\ u[Len(t) + 1] = o
  BY <1>1, AppendProperties
<1>3. Len(t) \in Nat /\ DOMAIN t = 1 .. Len(t) /\ DOMAIN u = 1 .. Len(t) + 1
  BY <1>2, LenProperties
<1>4. t # <<>> => Head(u) = Head(t)
  BY <1>1, HeadTailAppend
<1>. QED
  BY <1>1, <1>2, <1>3, <1>4

\* Works depends on the head of the queue only.
LEMMA WorksAppend ==
    ASSUME NEW l \in Lifecycle, NEW q \in Lifecycle, NEW o \in Operation, Works(l),
           q.held = l.held, q.at = l.at, q.sent = l.sent, q.tail = Append(l.tail, o)
    PROVE  Works(q)
<1>1. l.tail \in Seq(Operation)
  BY DEF Lifecycle
<1>2. q.tail # <<>> /\ (l.tail # <<>> => Head(q.tail) = Head(l.tail))
  BY <1>1, AppendHead
<1>3. CASE l.tail = <<>>
  BY <1>2, <1>3 DEF Works, Busy
<1>4. CASE l.tail # <<>>
  <2>1. Op(q) = Op(l) /\ Busy(q) = Busy(l)
    BY <1>2, <1>4 DEF Op, Busy
  <2>2. \A m : AtLimit(q, m) = AtLimit(l, m)
    BY DEF AtLimit
  <2>. QED
    BY <1>2, <1>4, <2>1, <2>2 DEF Works
<1>. QED
  BY <1>3, <1>4

\* An event queues an operation.
LEMMA QueuedProper ==
    ASSUME NEW l, NEW k, NEW q \in Lifecycle, NEW j \in Client, NEW o \in Operation,
           Proper(l, k), ~l.closing, j.state # "new", o.op # "close",
           q.held = l.held, q.timer = l.timer, q.closing = l.closing,
           q.at = l.at, q.sent = l.sent, q.tail = Append(l.tail, o),
           \A m \in Method : ~j.wants[m] =>
               o = UnregisterOf(m) \/ (~k.wants[m] /\ o # RegisterOf(m))
    PROVE  Proper(q, j)
<1>1. l \in Lifecycle /\ l.tail \in Seq(Operation)
  BY DEF Proper, Lifecycle
<1>2. Obeys(q.held, q.tail, j.wants)
  BY <1>1, ObeysAppend DEF Proper
<1>3. Works(q)
  BY <1>1, WorksAppend DEF Proper
<1>4. Closes(q, j)
  <2>1. /\ q.tail # <<>> /\ q.tail[Len(q.tail)] = o
        /\ \A i \in DOMAIN q.tail :
             q.tail[i].op = "close" /\ i # Len(q.tail) => i \in DOMAIN l.tail /\ l.tail[i].op = "close"
    BY <1>1, AppendHead
  <2>2. \A i \in DOMAIN l.tail : l.tail[i].op # "close"
    BY DEF Proper, Closes
  <2>. QED
    BY <2>1, <2>2 DEF Closes
<1>. QED
  BY <1>2, <1>3, <1>4 DEF Proper

\* The socket is closed.
LEMMA ClosedProper ==
    ASSUME NEW l, NEW k, NEW q \in Lifecycle, NEW j \in Client, Proper(l, k),
           j.state = "down", j.wants = k.wants, q = Closing(l)
    PROVE  Proper(q, j)
<1>1. l \in Lifecycle /\ l.tail \in Seq(Operation)
  BY DEF Proper, Lifecycle
<1>2. /\ q.held = l.held /\ q.closing /\ q.at = l.at /\ q.sent = l.sent
      /\ l.closing => q = l
      /\ ~l.closing => ~q.timer /\ q.tail = Append(l.tail, [op |-> "close"])
  BY <1>1, ClosingFields
<1>3. CASE l.closing
  BY <1>2, <1>3 DEF Proper, Closes
<1>4. CASE ~l.closing
  <2>1. PICK o \in Operation : o = [op |-> "close"]
    BY OperationsAreTyped
  <2>2. o.op = "close"
    BY <2>1
  <2>3. q.tail = Append(l.tail, o)
    BY <1>2, <1>4, <2>1
  <2>4. \A m \in Method : ~j.wants[m] => ~k.wants[m] /\ o # RegisterOf(m)
    BY <2>2, OperationFacts
  <2>5. Obeys(q.held, q.tail, j.wants)
    BY <1>1, <1>2, <2>3, <2>4, ObeysAppend DEF Proper
  <2>6. Works(q)
    BY <1>1, <1>2, <2>3, WorksAppend DEF Proper
  <2>7. Closes(q, j)
    <3>1. /\ q.tail # <<>> /\ q.tail[Len(q.tail)] = o
          /\ \A i \in DOMAIN q.tail : q.tail[i].op = "close" /\ i # Len(q.tail) =>
                 i \in DOMAIN l.tail /\ l.tail[i].op = "close"
      BY <1>1, <2>3, AppendHead
    <3>2. \A i \in DOMAIN l.tail : l.tail[i].op # "close"
      BY <1>4 DEF Proper, Closes
    <3>. QED
      BY <1>2, <1>4, <2>2, <3>1, <3>2 DEF Closes
  <2>. QED
    BY <1>2, <2>5, <2>6, <2>7 DEF Proper
<1>. QED
  BY <1>3, <1>4

\* The running operation ends.
LEMMA FinishedProper ==
    ASSUME NEW l, NEW k, NEW q \in Lifecycle, Proper(l, k), l.tail # <<>>,
           q.tail = Tail(l.tail), q.at = "idle", q.sent = NoRegistrations,
           q.closing = l.closing, q.timer => ~l.closing, Small(q.held),
           \A m \in Method : l.held[m] = 0 /\ Head(l.tail) # RegisterOf(m) => q.held[m] = 0,
           \A m \in Method : Head(l.tail) = UnregisterOf(m) => q.held[m] = 0,
           Op(l) = "close" => q.held = NoRegistrations
    PROVE  Proper(q, k)
<1>1. l \in Lifecycle /\ l.tail \in Seq(Operation) /\ k.state # "new" /\ k \in Client
  BY DEF Proper, Lifecycle
<1>2. Obeys(q.held, q.tail, k.wants)
  BY <1>1, ObeysTail DEF Proper
<1>3. Works(q)
  BY DEF Works, Busy
<1>4. Closes(q, k)
  <2>1. PICK t \in Seq(Operation) : t = l.tail
    BY <1>1
  <2>2. PICK u : u = Tail(t)
    OBVIOUS
  <2>3. /\ u \in Seq(Operation) /\ Len(u) = Len(t) - 1
        /\ \A i \in 1 .. Len(u) : u[i] = t[i + 1]
        /\ Head(t) = t[1]
    BY <2>1, <2>2, HeadTailProperties
  <2>4. Len(t) \in Nat /\ Len(u) \in Nat /\ DOMAIN t = 1 .. Len(t) /\ DOMAIN u = 1 .. Len(u)
    BY <2>3, LenProperties
  <2>5. q.tail = u
    BY <2>1, <2>2
  <2>6. /\ l.closing => k.state = "down" /\ t[Len(t)].op = "close"
        /\ \A i \in DOMAIN t : t[i].op = "close" => l.closing /\ i = Len(t)
    BY <2>1 DEF Proper, Closes
  <2>7. q.closing /\ q.tail = <<>> => q.held = NoRegistrations
    <3>1. u = <<>> => Len(t) = 1
      BY <2>3, <2>4, EmptySeq
    <3>2. u = <<>> /\ l.closing => Op(l) = "close"
      BY <2>1, <2>3, <2>6, <3>1 DEF Op
    <3>. QED
      BY <2>5, <3>2
  <2>8. q.closing /\ q.tail # <<>> => q.tail[Len(q.tail)].op = "close"
    <3>1. u # <<>> => Len(u) # 0
      BY <2>3, EmptySeq
    <3>2. u # <<>> => u[Len(u)] = t[Len(t)]
      BY <2>3, <2>4, <3>1
    <3>. QED
      BY <2>5, <2>6, <3>2
  <2>9. \A i \in DOMAIN q.tail : q.tail[i].op = "close" => q.closing /\ i = Len(q.tail)
    <3>1. SUFFICES ASSUME NEW i \in DOMAIN u, u[i].op = "close"
                   PROVE  q.closing /\ i = Len(u)
      BY <2>5
    <3>2. u[i] = t[i + 1] /\ i + 1 \in DOMAIN t /\ i \in Nat
      BY <2>3, <2>4, <3>1
    <3>3. l.closing /\ i + 1 = Len(t)
      BY <2>6, <3>1, <3>2
    <3>. QED
      BY <2>3, <2>4, <3>2, <3>3
  <2>10. q.closing => k.state = "down" /\ ~q.timer
    BY <2>6
  <2>. QED
    BY <2>7, <2>8, <2>9, <2>10, Zenon DEF Closes
<1>. QED
  BY <1>1, <1>2, <1>3, <1>4 DEF Proper

\* The running operation goes on.
LEMMA OngoingProper ==
    ASSUME NEW l, NEW k, NEW q \in Lifecycle, Proper(l, k), l.tail # <<>>,
           q.tail = l.tail, q.closing = l.closing, q.timer => ~l.closing, Small(q.held),
           \A m \in Method : l.held[m] = 0 /\ Head(l.tail) # RegisterOf(m) => q.held[m] = 0,
           Works(q)
    PROVE  Proper(q, k)
<1>1. l \in Lifecycle /\ l.tail \in Seq(Operation) /\ k.state # "new" /\ k \in Client
  BY DEF Proper, Lifecycle
<1>2. Obeys(q.held, q.tail, k.wants)
  BY <1>1, ObeysHeld DEF Proper
<1>. QED
  BY <1>1, <1>2 DEF Proper, Closes

-----------------------------------------------------------------------------
(* What a step of a socket owes to the entries in Redis.                   *)

\* Whatever entry was tended still is.
Keeps(l, q) ==
    \A m \in Method : \A g \in Nat : g # 0 /\ Tended(l, m, g) => Tended(q, m, g)

\* No new generation appears, and a command that is awaited stays awaited.
Goes(l, q) ==
    /\ \A m \in Method : q.held[m] \in {0, l.held[m], l.sent[m]} /\ q.sent[m] \in {0, l.sent[m]}
    /\ l.at = "wait" => q.at = "wait" /\ q.sent = l.sent /\ CommandOf(q) = CommandOf(l)

\* An event leaves the running operation alone.
LEMMA EventKeeps ==
    ASSUME NEW l \in Lifecycle, NEW q \in Lifecycle, NEW o \in Operation, Works(l),
           q.held = l.held, q.at = l.at, q.sent = l.sent, q.kept = l.kept,
           q.tail = l.tail \/ q.tail = Append(l.tail, o)
    PROVE  Keeps(l, q) /\ Goes(l, q)
<1>1. l.tail \in Seq(Operation)
  BY DEF Lifecycle
<1>2. l.at # "idle" => l.tail # <<>>
  BY DEF Works
<1>3. l.tail # <<>> => Head(q.tail) = Head(l.tail)
  BY <1>1, AppendHead
<1>4. l.at # "idle" => Op(q) = Op(l)
  BY <1>2, <1>3 DEF Op
<1>5. Keeps(l, q)
  BY <1>4 DEF Keeps, Tended
<1>6. Goes(l, q)
  BY <1>4 DEF Goes, CommandOf
<1>. QED
  BY <1>5, <1>6

\* A step between two states in which no command is awaited.
LEMMA RestKeeps ==
    ASSUME NEW l \in Lifecycle, NEW q \in Lifecycle, Works(l), ~Busy(l), ~Busy(q),
           q.sent = NoRegistrations,
           \A m \in Method : q.held[m] = l.held[m]
    PROVE  Keeps(l, q) /\ Goes(l, q)
<1>1. l.at \notin {"wait", "replied"} /\ q.at \notin {"wait", "replied"}
  BY DEF Busy
<1>2. \A m \in Method : l.sent[m] = 0 /\ q.sent[m] = 0
  BY DEF Works, NoRegistrations
<1>3. Keeps(l, q)
  BY <1>1, <1>2 DEF Keeps, Tended
<1>4. Goes(l, q)
  BY <1>1, <1>2 DEF Goes
<1>. QED
  BY <1>3, <1>4

\* The result of a command is taken over into the map.
LEMMA ResultKeeps ==
    ASSUME NEW l \in Lifecycle, NEW q \in Lifecycle, Works(l), l.at = "replied", ~Busy(q),
           q.sent = NoRegistrations,
           \/ /\ Op(l) = "register"
              /\ q.held = [l.held EXCEPT ![Head(l.tail).method] = l.sent[Head(l.tail).method]]
           \/ /\ Op(l) = "refresh"
              /\ \A m \in Method :
                   q.held[m] = IF l.sent[m] # 0 /\ m \notin l.kept THEN 0 ELSE l.held[m]
           \/ Op(l) # "register" /\ q.held = l.held
    PROVE  Keeps(l, q) /\ Goes(l, q)
<1>1. q.at \notin {"wait", "replied"}
  BY DEF Busy
<1>2. \A m \in Method : q.sent[m] = 0
  BY DEF NoRegistrations
<1>3. l.held \in [Method -> Nat] /\ l.sent \in [Method -> Nat]
  BY DEF Lifecycle
<1>4. CASE /\ Op(l) = "register"
           /\ q.held = [l.held EXCEPT ![Head(l.tail).method] = l.sent[Head(l.tail).method]]
  <2>1. \A m \in Method : l.sent[m] # 0 <=> m = Head(l.tail).method
    BY <1>4 DEF Works, Busy
  <2>2. \A m \in Method : q.held[m] = IF l.sent[m] # 0 THEN l.sent[m] ELSE l.held[m]
    BY <1>3, <1>4, <2>1
  <2>3. Keeps(l, q)
    BY <1>1, <1>2, <2>2 DEF Keeps, Tended
  <2>4. Goes(l, q)
    BY <1>2, <2>2 DEF Goes
  <2>. QED
    BY <2>3, <2>4
<1>5. CASE /\ Op(l) = "refresh"
           /\ \A m \in Method :
                q.held[m] = IF l.sent[m] # 0 /\ m \notin l.kept THEN 0 ELSE l.held[m]
  <2>1. Keeps(l, q)
    BY <1>1, <1>2, <1>5 DEF Keeps, Tended
  <2>2. Goes(l, q)
    BY <1>2, <1>5 DEF Goes
  <2>. QED
    BY <2>1, <2>2
<1>6. CASE Op(l) # "register" /\ q.held = l.held
  <2>1. Keeps(l, q)
    BY <1>1, <1>2, <1>6 DEF Keeps, Tended
  <2>2. Goes(l, q)
    BY <1>2, <1>6 DEF Goes
  <2>. QED
    BY <2>1, <2>2
<1>. QED
  BY <1>4, <1>5, <1>6

\* A command is written; what it takes out of the map is in hand.
LEMMA StartKeeps ==
    ASSUME NEW l \in Lifecycle, NEW q \in Lifecycle, Works(l), ~Busy(l), q.at = "wait",
           \A m \in Method : l.held[m] \in {0, q.held[m], q.sent[m]}
    PROVE  Keeps(l, q)
<1>1. l.at \notin {"wait", "replied"}
  BY DEF Busy
<1>2. \A m \in Method : l.sent[m] = 0
  BY DEF Works, NoRegistrations
<1>. QED
  BY <1>1, <1>2 DEF Keeps, Tended

-----------------------------------------------------------------------------
(* The steps of a socket.                                                  *)

\* Socket s makes a step to q; of the others nothing changes.
SocketStep(s, q) ==
    /\ q \in Lifecycle
    /\ life' = [life EXCEPT ![s] = q]
    /\ client' \in [Socket -> Client]
    /\ \A x \in Socket : x # s => client'[x] = client[x]
    /\ client'[s].state = "new" => client[s].state = "new"
    /\ Proper(q, client'[s])
    /\ q.at = "asked" => s \in Fenced /\ (q.saw \/ owner # s)

\* ... for a step that leaves the client alone.
LEMMA StepOf ==
    ASSUME Types, NEW s \in Socket, NEW q \in Lifecycle, life' = [life EXCEPT ![s] = q],
           client' = client, Proper(q, client[s]),
           q.at = "asked" => s \in Fenced /\ (q.saw \/ owner # s)
    PROVE  SocketStep(s, q)
BY DEF SocketStep, Types

\* The parts of the invariant for one socket.
LEMMA SocketFacts ==
    ASSUME Types, Sockets, NEW s \in Socket
    PROVE  /\ life[s] \in Lifecycle /\ client[s] \in Client
           /\ Proper(life[s], client[s]) /\ Asks(s)
           /\ Works(life[s]) /\ Small(life[s].held)
           /\ life[s].tail \in Seq(Operation)
           /\ life[s].held \in [Method -> Nat] /\ life[s].sent \in [Method -> Nat]
           /\ life[s].tail # <<>> =>
                /\ Op(life[s]) \in {"register", "unregister", "refresh", "close"}
                /\ Op(life[s]) \in {"register", "unregister"} =>
                     Head(life[s].tail).method \in Method
<1>1. life[s] \in Lifecycle /\ client[s] \in Client
  BY DEF Types
<1>2. Proper(life[s], client[s]) /\ Asks(s)
  BY DEF Sockets
<1>3. Works(life[s]) /\ Small(life[s].held)
  BY <1>2 DEF Proper
<1>4. life[s].tail \in Seq(Operation)
  BY <1>1 DEF Lifecycle
<1>5. life[s].held \in [Method -> Nat] /\ life[s].sent \in [Method -> Nat]
  BY <1>1 DEF Lifecycle
<1>6. life[s].tail # <<>> =>
                /\ Op(life[s]) \in {"register", "unregister", "refresh", "close"}
                /\ Op(life[s]) \in {"register", "unregister"} =>
                     Head(life[s].tail).method \in Method
  BY <1>4, HeadTailProperties, OperationFacts DEF Op
<1>. QED
  BY <1>1, <1>2, <1>3, <1>4, <1>5, <1>6

\* The client disconnects.
LEMMA DisconnectStep ==
    ASSUME Types, Sockets, NEW s \in Socket, Disconnect(s)
    PROVE  \E q : SocketStep(s, q) /\ Keeps(life[s], q) /\ Goes(life[s], q)
<1>1. PICK l \in Lifecycle : l = life[s]
  BY SocketFacts
<1>2. PICK k \in Client : k = client[s]
  BY SocketFacts
<1>3. Proper(l, k) /\ Works(l)
  BY <1>1, <1>2, SocketFacts
<1>4. PICK q : q = Closing(l)
  OBVIOUS
<1>5. PICK j : j = [k EXCEPT !.state = "down"]
  OBVIOUS
<1>6. j \in Client /\ j.state = "down" /\ j.wants = k.wants
  BY <1>5 DEF Client
<1>7. /\ q \in Lifecycle /\ q.held = l.held /\ q.at = l.at /\ q.saw = l.saw
      /\ q.sent = l.sent /\ q.kept = l.kept
      /\ q.tail = l.tail \/ q.tail = Append(l.tail, [op |-> "close"])
  BY <1>4, ClosingFields
<1>8. Proper(q, j)
  BY <1>3, <1>4, <1>6, <1>7, ClosedProper
<1>9. life' = [life EXCEPT ![s] = q] /\ client' = [client EXCEPT ![s] = j]
  <2>1. life' = [life EXCEPT ![s] = Closing(life[s])]
    BY Zenon DEF Disconnect
  <2>2. client' = [client EXCEPT ![s] = [client[s] EXCEPT !.state = "down"]]
    BY Zenon DEF Disconnect
  <2>. QED
    BY <1>1, <1>2, <1>4, <1>5, <2>1, <2>2
<1>10. q.at = "asked" => s \in Fenced /\ (q.saw \/ owner # s)
  BY <1>1, <1>7, SocketFacts DEF Asks
<1>11. SocketStep(s, q)
  BY <1>6, <1>7, <1>8, <1>9, <1>10 DEF SocketStep, Types
<1>12. Keeps(l, q) /\ Goes(l, q)
  BY <1>3, <1>7, EventKeeps, OperationsAreTyped
<1>. QED
  BY <1>1, <1>11, <1>12

\* An rpc-register or rpc-unregister arrives.
LEMMA EventStep ==
    ASSUME Types, Sockets, NEW s \in Socket, NEW m \in Method,
           RegisterEvent(s, m) \/ UnregisterEvent(s, m)
    PROVE  \E q : SocketStep(s, q) /\ Keeps(life[s], q) /\ Goes(life[s], q)
<1>1. PICK l \in Lifecycle : l = life[s]
  BY SocketFacts
<1>2. PICK k \in Client : k = client[s]
  BY SocketFacts
<1>3. Proper(l, k) /\ Works(l)
  BY <1>1, <1>2, SocketFacts
<1>4. k.state = "up" /\ ~l.closing
  BY <1>2, <1>3 DEF RegisterEvent, UnregisterEvent, Proper, Closes
<1>5. PICK y \in BOOLEAN, C \in SUBSET Method, o \in Operation :
        /\ life' = [life EXCEPT ![s] = Queued([l EXCEPT !.cancelled = C], o)]
        /\ client' = [client EXCEPT ![s].wants[m] = y, ![s].acked[m] = 0]
        /\ (y /\ o = RegisterOf(m)) \/ (~y /\ o = UnregisterOf(m))
  <2>1. l.cancelled \in SUBSET Method
    BY DEF Lifecycle
  <2>2. CASE RegisterEvent(s, m)
    <3>1. /\ life' = [life EXCEPT ![s] =
                 Queued([life[s] EXCEPT !.cancelled = life[s].cancelled \ {m}], RegisterOf(m))]
          /\ client' = [client EXCEPT ![s].wants[m] = TRUE, ![s].acked[m] = 0]
      BY <2>2, Zenon DEF RegisterEvent, Registering, RegisterOf
    <3>2. TRUE \in BOOLEAN /\ l.cancelled \ {m} \in SUBSET Method /\ RegisterOf(m) \in Operation
      BY <2>1, OperationsAreTyped
    <3>. QED
      BY <1>1, <3>1, <3>2, Zenon
  <2>3. CASE UnregisterEvent(s, m)
    <3>1. /\ life' = [life EXCEPT ![s] =
                 Queued([life[s] EXCEPT !.cancelled = life[s].cancelled \union {m}], UnregisterOf(m))]
          /\ client' = [client EXCEPT ![s].wants[m] = FALSE, ![s].acked[m] = 0]
      BY <2>3, Zenon DEF UnregisterEvent, Unregistering, UnregisterOf
    <3>2. FALSE \in BOOLEAN /\ l.cancelled \union {m} \in SUBSET Method /\ UnregisterOf(m) \in Operation
      BY <2>1, OperationsAreTyped
    <3>. QED
      BY <1>1, <3>1, <3>2, Zenon
  <2>. QED
    BY <2>2, <2>3
<1>6. PICK p : p = [l EXCEPT !.cancelled = C]
  OBVIOUS
<1>7. /\ p \in Lifecycle
      /\ p.held = l.held /\ p.timer = l.timer /\ p.closing = l.closing
      /\ p.at = l.at /\ p.saw = l.saw /\ p.sent = l.sent /\ p.kept = l.kept
      /\ p.tail = l.tail
  BY <1>6 DEF Lifecycle
<1>8. PICK q : q = Queued(p, o)
  OBVIOUS
<1>9. /\ q \in Lifecycle
      /\ q.held = l.held /\ q.timer = l.timer /\ q.closing = l.closing
      /\ q.at = l.at /\ q.saw = l.saw /\ q.sent = l.sent /\ q.kept = l.kept
      /\ q.tail = Append(l.tail, o)
  <2>1. /\ q \in Lifecycle
        /\ q.held = p.held /\ q.timer = p.timer /\ q.closing = p.closing
        /\ q.at = p.at /\ q.saw = p.saw /\ q.sent = p.sent /\ q.kept = p.kept
        /\ q.tail = Append(p.tail, o)
    BY <1>7, <1>8, QueuedFields
  <2>. QED
    BY <1>7, <2>1
<1>10. PICK W : W = [k.wants EXCEPT ![m] = y]
  OBVIOUS
<1>11. PICK A : A = [k.acked EXCEPT ![m] = 0]
  OBVIOUS
<1>12. W \in [Method -> BOOLEAN] /\ A \in [Method -> Nat]
  BY <1>10, <1>11 DEF Client
<1>13. W[m] = y /\ \A n \in Method : n # m => W[n] = k.wants[n]
  BY <1>10 DEF Client
<1>14. PICK j : j = [k EXCEPT !.wants = W, !.acked = A]
  OBVIOUS
<1>15. j \in Client /\ j.state = k.state /\ j.wants = W
  BY <1>12, <1>14 DEF Client
<1>16. client' = [client EXCEPT ![s] = j]
  BY <1>2, <1>5, <1>10, <1>11, <1>14, Zenon
<1>17. life' = [life EXCEPT ![s] = q]
  BY <1>5, <1>6, <1>8
<1>18. o.op # "close" /\ \A n \in Method : ~j.wants[n] =>
           o = UnregisterOf(n) \/ (~k.wants[n] /\ o # RegisterOf(n))
  BY <1>5, <1>13, <1>15, OperationFacts
<1>19. Proper(q, j)
  BY <1>3, <1>4, <1>9, <1>15, <1>18, QueuedProper
<1>20. q.at = "asked" => s \in Fenced /\ (q.saw \/ owner # s)
  BY <1>1, <1>9, SocketFacts DEF Asks
<1>21. SocketStep(s, q)
  BY <1>2, <1>9, <1>15, <1>16, <1>17, <1>19, <1>20 DEF SocketStep, Types
<1>22. Keeps(l, q) /\ Goes(l, q)
  BY <1>3, <1>9, EventKeeps
<1>. QED
  BY <1>1, <1>21, <1>22

\* The refresh interval elapses.
LEMMA TickStep ==
    ASSUME Types, Sockets, NEW s \in Socket, Tick(s)
    PROVE  \E q : SocketStep(s, q) /\ Keeps(life[s], q) /\ Goes(life[s], q)
<1>1. PICK l \in Lifecycle : l = life[s]
  BY SocketFacts
<1>2. PICK k \in Client : k = client[s]
  BY SocketFacts
<1>3. Proper(l, k) /\ Works(l)
  BY <1>1, <1>2, SocketFacts
<1>4. l.timer
  BY <1>1 DEF Tick
<1>5. ~l.closing /\ k.state # "new"
  BY <1>3, <1>4 DEF Proper, Closes
<1>6. PICK o \in Operation : o = [op |-> "refresh"]
  BY OperationsAreTyped
<1>7. PICK q : q = Queued(l, o)
  OBVIOUS
<1>8. /\ q \in Lifecycle
      /\ q.held = l.held /\ q.timer = l.timer /\ q.closing = l.closing
      /\ q.at = l.at /\ q.saw = l.saw /\ q.sent = l.sent /\ q.kept = l.kept
      /\ q.tail = Append(l.tail, o)
  BY <1>7, QueuedFields
<1>9. life' = [life EXCEPT ![s] = q] /\ client' = client
  <2>1. life' = [life EXCEPT ![s] = Queued(life[s], [op |-> "refresh"])] /\ client' = client
    BY Zenon DEF Tick
  <2>. QED
    BY <1>1, <1>6, <1>7, <2>1
<1>10. o.op = "refresh"
  BY <1>6
<1>11. \A m \in Method : ~k.wants[m] => ~k.wants[m] /\ o # RegisterOf(m)
  BY <1>10, OperationFacts
<1>12. Proper(q, k)
  BY <1>3, <1>5, <1>8, <1>10, <1>11, QueuedProper
<1>13. q.at = "asked" => s \in Fenced /\ (q.saw \/ owner # s)
  BY <1>1, <1>8, SocketFacts DEF Asks
<1>14. SocketStep(s, q)
  BY <1>2, <1>8, <1>9, <1>12, <1>13, StepOf
<1>15. Keeps(l, q) /\ Goes(l, q)
  BY <1>3, <1>8, EventKeeps
<1>. QED
  BY <1>1, <1>14, <1>15

\* An operation ends and leaves the map as it is.
LEMMA EndProper ==
    ASSUME NEW l, NEW k, NEW q \in Lifecycle, Proper(l, k), l.tail # <<>>,
           q.tail = Tail(l.tail), q.at = "idle", q.sent = NoRegistrations,
           q.closing = l.closing, q.timer => l.timer, q.held = l.held,
           Op(l) \in {"register", "refresh"} \/ l.at # "idle"
    PROVE  Proper(q, k)
<1>1. Works(l) /\ Small(l.held) /\ (l.timer => ~l.closing) /\ l.tail \in Seq(Operation)
  BY DEF Proper, Closes, Lifecycle
<1>2. Head(l.tail) \in Operation
  BY <1>1, HeadTailProperties
<1>3. \A m \in Method : Head(l.tail) = UnregisterOf(m) => q.held[m] = 0
  BY <1>1, <1>2, OperationFacts DEF Works, Op
<1>4. Op(l) = "close" => q.held = NoRegistrations
  BY <1>1 DEF Works
<1>. QED
  BY <1>1, <1>3, <1>4, FinishedProper

\* An operation ends between two awaits.
LEMMA EndStep ==
    ASSUME Types, Sockets, NEW s \in Socket, NEW q \in Lifecycle, life[s].tail # <<>>,
           ~Busy(life[s]), Op(life[s]) \in {"register", "refresh"},
           life' = [life EXCEPT ![s] = q], client' = client,
           q.tail = Tail(life[s].tail), q.at = "idle", q.sent = NoRegistrations,
           q.closing = life[s].closing, q.timer => life[s].timer, q.held = life[s].held
    PROVE  SocketStep(s, q) /\ Keeps(life[s], q) /\ Goes(life[s], q)
<1>1. PICK l \in Lifecycle : l = life[s]
  BY SocketFacts
<1>2. PICK k \in Client : k = client[s]
  BY SocketFacts
<1>3. Proper(l, k) /\ Works(l)
  BY <1>1, <1>2, SocketFacts
<1>4. Proper(q, k)
  BY <1>1, <1>3, EndProper
<1>5. SocketStep(s, q)
  BY <1>2, <1>4, StepOf
<1>6. Keeps(l, q) /\ Goes(l, q)
  BY <1>1, <1>3, RestKeeps DEF Busy
<1>. QED
  BY <1>1, <1>5, <1>6

\* A socket asks for its ownership.
LEMMA AskStep ==
    ASSUME Types, Sockets, NEW s \in Fenced, life[s].tail # <<>>, ~Busy(life[s]),
           Op(life[s]) \in {"register", "refresh"},
           Op(life[s]) = "register" => ~AtLimit(life[s], Head(life[s].tail).method),
           life' = [life EXCEPT ![s].at = "asked", ![s].saw = owner = s],
           client' = client
    PROVE  \E q : SocketStep(s, q) /\ Keeps(life[s], q) /\ Goes(life[s], q)
<1>0. s \in Socket
  BY RegistryAssumption
<1>1. PICK l \in Lifecycle : l = life[s]
  BY <1>0, SocketFacts
<1>2. PICK k \in Client : k = client[s]
  BY <1>0, SocketFacts
<1>3. Proper(l, k) /\ Works(l) /\ Small(l.held)
  BY <1>0, <1>1, <1>2, SocketFacts
<1>4. PICK z \in BOOLEAN : z = (owner = s)
  OBVIOUS
<1>5. PICK q : q = [l EXCEPT !.at = "asked", !.saw = z]
  OBVIOUS
<1>6. life' = [life EXCEPT ![s] = q]
  BY <1>1, <1>4, <1>5, Zenon
<1>7. /\ q \in Lifecycle
      /\ q.held = l.held /\ q.timer = l.timer /\ q.closing = l.closing
      /\ q.at = "asked" /\ q.saw = z /\ q.sent = l.sent /\ q.tail = l.tail
  BY <1>5 DEF Lifecycle
<1>8. l.sent = NoRegistrations
  BY <1>1, <1>3 DEF Works
<1>9. Works(q)
  BY <1>1, <1>7, <1>8 DEF Works, Busy, Op, AtLimit
<1>10. l.timer => ~l.closing
  BY <1>3 DEF Proper, Closes
<1>11. Proper(q, k)
  BY <1>1, <1>3, <1>7, <1>9, <1>10, OngoingProper
<1>12. SocketStep(s, q)
  BY <1>0, <1>2, <1>4, <1>6, <1>7, <1>11, StepOf
<1>13. Keeps(l, q) /\ Goes(l, q)
  BY <1>1, <1>3, <1>7, <1>8, RestKeeps DEF Busy
<1>. QED
  BY <1>1, <1>12, <1>13

\* Socket s has written command c and awaits its result.
Starts(s, q, c) ==
    /\ c \in Command /\ c.sock = s /\ c.live /\ c.regs = q.sent /\ c.op = CommandOf(q)
    /\ pipe' = Append(pipe, c) /\ redis' = redis /\ client' = client
    /\ clock' \in {clock, clock + 1}
    /\ q.at = "wait" /\ ~Busy(life[s]) /\ client[s].state # "new"
    /\ \A m \in Method : q.held[m] \in {0, life[s].held[m]}
    /\ \A m \in Method : q.sent[m] # 0 => q.sent[m] = IF c.op = "set" THEN clock' ELSE life[s].held[m]
    /\ c.op = "set" => clock' = clock + 1

\* The body that the fence protects, or that needs no fence.
LEMMA BodyStep ==
    ASSUME Types, Sockets, NEW s \in Socket, life[s].tail # <<>>, ~Busy(life[s]),
           Op(life[s]) \in {"register", "refresh"},
           Op(life[s]) = "register" => ~AtLimit(life[s], Head(life[s].tail).method),
           FencedBody(s), client' = client
    PROVE  \E q, c : SocketStep(s, q) /\ Keeps(life[s], q) /\ Starts(s, q, c)
<1>1. PICK l \in Lifecycle : l = life[s]
  BY SocketFacts
<1>2. PICK k \in Client : k = client[s]
  BY SocketFacts
<1>3. Proper(l, k) /\ Works(l) /\ Small(l.held) /\ l.held \in [Method -> Nat]
  BY <1>1, <1>2, SocketFacts
<1>4. PICK o : o = Head(l.tail)
  OBVIOUS
<1>5. o.op = Op(l) /\ (o.op = "register" => o.method \in Method)
  BY <1>1, <1>4, SocketFacts DEF Op
<1>6. PICK n \in Nat : n = clock
  BY DEF Types
<1>7. PICK S : S = IF o.op = "register" THEN Only(o.method, n + 1) ELSE l.held
  OBVIOUS
<1>8. /\ S \in [Method -> Nat]
      /\ o.op = "register" => /\ S[o.method] = n + 1
                              /\ \A m \in Method : m # o.method => S[m] = 0
      /\ o.op # "register" => S = l.held
  BY <1>3, <1>5, <1>7, NoRegistrationsType DEF Only, NoRegistrations
<1>9. PICK q : q = Awaiting(l, S)
  OBVIOUS
<1>10. /\ q \in Lifecycle
       /\ q.held = l.held /\ q.timer = l.timer /\ q.closing = l.closing
       /\ q.at = "wait" /\ q.sent = S /\ q.tail = l.tail
  BY <1>8, <1>9, AwaitingFields
<1>11. PICK x \in {"set", "refresh"} : x = IF o.op = "register" THEN "set" ELSE "refresh"
  OBVIOUS
<1>12. PICK z \in BOOLEAN : z = TRUE
  OBVIOUS
<1>13. PICK c : c = [sock |-> s, op |-> x, regs |-> S, live |-> z]
  OBVIOUS
<1>14. c \in Command /\ c.sock = s /\ c.op = x /\ c.regs = S /\ c.live = z
  BY <1>8, <1>13 DEF Command
<1>15. /\ clock' = IF o.op = "register" THEN clock + 1 ELSE clock
       /\ pipe' = Append(pipe, [sock |-> s, op |-> x, regs |-> S, live |-> TRUE])
       /\ life' = [life EXCEPT ![s] = Awaiting(life[s], S)]
       /\ redis' = redis
  BY <1>1, <1>4, <1>6, <1>7, <1>11, Zenon DEF FencedBody, Write
<1>16. pipe' = Append(pipe, c)
  BY <1>12, <1>13, <1>15, Zenon
<1>17. life' = [life EXCEPT ![s] = q]
  BY <1>1, <1>9, <1>15
<1>18. Works(q)
  <2>1. q.tail # <<>> /\ Busy(q) /\ Op(q) = Op(l) /\ Head(q.tail) = o /\ q.at = "wait"
    BY <1>1, <1>4, <1>10 DEF Busy, Op
  <2>2. Op(q) = "register" => ~AtLimit(q, Head(q.tail).method)
    BY <1>1, <1>10, <2>1 DEF AtLimit
  <2>3. Op(q) = "register" => \A m \in Method : q.sent[m] # 0 <=> m = Head(q.tail).method
    BY <1>5, <1>8, <1>10, <2>1
  <2>4. Op(q) = "refresh" => q.sent = q.held
    BY <1>5, <1>8, <1>10, <2>1
  <2>. QED
    BY <1>1, <2>1, <2>2, <2>3, <2>4 DEF Works
<1>19. l.timer => ~l.closing
  BY <1>3 DEF Proper, Closes
<1>20. Proper(q, k)
  BY <1>1, <1>3, <1>10, <1>18, <1>19, OngoingProper
<1>21. SocketStep(s, q)
  BY <1>2, <1>10, <1>17, <1>20, StepOf
<1>22. Keeps(l, q)
  BY <1>1, <1>3, <1>10, StartKeeps
<1>23. Starts(s, q, c)
  <2>1. c.op = CommandOf(q)
    BY <1>1, <1>5, <1>10, <1>11, <1>14 DEF CommandOf, Op
  <2>2. c.live /\ c.regs = q.sent /\ c.sock = s /\ c \in Command
    BY <1>10, <1>12, <1>14
  <2>3. clock' \in {clock, clock + 1}
    BY <1>15
  <2>4. client[s].state # "new"
    BY <1>1, <1>2, <1>3 DEF Proper
  <2>5. \A m \in Method : q.held[m] \in {0, life[s].held[m]}
    BY <1>1, <1>10
  <2>6. c.op = "set" => o.op = "register"
    BY <1>11, <1>14
  <2>7. c.op = "set" => clock' = clock + 1
    BY <1>15, <2>6
  <2>8. \A m \in Method : q.sent[m] # 0 => q.sent[m] = IF c.op = "set" THEN clock' ELSE life[s].held[m]
    BY <1>1, <1>5, <1>6, <1>8, <1>10, <1>11, <1>14, <2>7
  <2>. QED
    BY <1>10, <1>15, <1>16, <2>1, <2>2, <2>3, <2>4, <2>5, <2>7, <2>8 DEF Starts
<1>. QED
  BY <1>1, <1>21, <1>22, <1>23

(***************************************************************************)
(* The two kinds of steps of a socket that touch nothing else: a quiet     *)
(* one, which may forget entries only if the runtime lost its session, and *)
(* one that writes a command.                                              *)
(***************************************************************************)
Quiet(s) ==
    /\ \E q : /\ SocketStep(s, q) /\ Goes(life[s], q)
              /\ Keeps(life[s], q) \/ (s \in Fenced /\ owner # s)
    /\ UNCHANGED registryVars

Started(s) == \E q, c : SocketStep(s, q) /\ Keeps(life[s], q) /\ Starts(s, q, c)

\* A register is refused: the socket closes or is at its limit.
LEMMA RegisterRefusedStep ==
    ASSUME Types, Sockets, NEW s \in Socket, RegisterRefused(s)
    PROVE  Quiet(s)
<1>1. life[s].tail # <<>> /\ life[s].at = "idle" /\ Op(life[s]) = "register"
  BY DEF RegisterRefused, Running, Op
<1>2. PICK q : q = Finished(life[s])
  OBVIOUS
<1>3. life' = [life EXCEPT ![s] = q] /\ client' = client /\ UNCHANGED registryVars
  BY <1>2, Zenon DEF RegisterRefused
<1>4. life[s] \in Lifecycle
  BY SocketFacts
<1>5. /\ q \in Lifecycle
      /\ q.held = life[s].held /\ q.timer = life[s].timer /\ q.closing = life[s].closing
      /\ q.at = "idle" /\ q.sent = NoRegistrations
      /\ q.tail = Tail(life[s].tail)
  BY <1>1, <1>2, <1>4, FinishedFields
<1>6. SocketStep(s, q) /\ Keeps(life[s], q) /\ Goes(life[s], q)
  BY <1>1, <1>3, <1>5, EndStep DEF Busy
<1>. QED
  BY <1>3, <1>6 DEF Quiet

\* A turn of the retry loop gives up, asks for the fence or writes the SET.
LEMMA RegisterAttemptStep ==
    ASSUME Types, Sockets, NEW s \in Socket, RegisterAttempt(s)
    PROVE  Quiet(s) \/ Started(s)
<1>1. /\ life[s].tail # <<>> /\ life[s].at \in {"idle", "retry"} /\ Op(life[s]) = "register"
      /\ ~Busy(life[s])
  BY DEF RegisterAttempt, Running, Op, Busy
<1>2. PICK l \in Lifecycle : l = life[s]
  BY SocketFacts
<1>3. ~AtLimit(l, Head(l.tail).method)
  BY <1>1, <1>2, SocketFacts DEF RegisterAttempt, Refused, Works
<1>4. client' = client
  BY DEF RegisterAttempt
<1>5. PICK m : m = Head(l.tail).method
  OBVIOUS
<1>6. CASE l.closing \/ m \in l.cancelled
  <2>1. life' = [life EXCEPT ![s] = Finished(Uncancelled(life[s], m))] /\ UNCHANGED registryVars
    BY <1>2, <1>5, <1>6, Zenon DEF RegisterAttempt
  <2>2. PICK C : C = l.cancelled \ {m}
    OBVIOUS
  <2>3. C \in SUBSET Method
    BY <2>2 DEF Lifecycle
  <2>4. PICK p : p = Uncancelled(l, m)
    OBVIOUS
  <2>5. p = [l EXCEPT !.cancelled = C]
    BY <2>2, <2>4 DEF Uncancelled
  <2>6. /\ p \in Lifecycle
        /\ p.held = l.held /\ p.timer = l.timer /\ p.closing = l.closing /\ p.tail = l.tail
    BY <2>3, <2>5 DEF Lifecycle
  <2>7. PICK q : q = Finished(p)
    OBVIOUS
  <2>8. p.tail # <<>>
    BY <1>1, <1>2, <2>6
  <2>9. /\ q \in Lifecycle
        /\ q.held = p.held /\ q.timer = p.timer /\ q.closing = p.closing
        /\ q.at = "idle" /\ q.sent = NoRegistrations
        /\ q.tail = Tail(p.tail)
    BY <2>6, <2>7, <2>8, FinishedFields
  <2>10. life' = [life EXCEPT ![s] = q]
    BY <1>2, <2>1, <2>4, <2>7
  <2>11. SocketStep(s, q) /\ Keeps(life[s], q) /\ Goes(life[s], q)
    BY <1>1, <1>2, <1>4, <2>6, <2>9, <2>10, EndStep
  <2>. QED
    BY <2>1, <2>11 DEF Quiet
<1>7. CASE ~(l.closing \/ m \in l.cancelled) /\ s \in Fenced
  <2>1. EnterFence(s)
    BY <1>2, <1>5, <1>7 DEF RegisterAttempt
  <2>2. /\ life' = [life EXCEPT ![s].at = "asked", ![s].saw = owner = s]
        /\ UNCHANGED registryVars
    BY <1>7, <2>1, Zenon DEF EnterFence
  <2>3. \E q : SocketStep(s, q) /\ Keeps(life[s], q) /\ Goes(life[s], q)
    BY <1>1, <1>2, <1>3, <1>4, <1>7, <2>2, AskStep
  <2>. QED
    BY <2>2, <2>3 DEF Quiet
<1>8. CASE ~(l.closing \/ m \in l.cancelled) /\ s \notin Fenced
  <2>1. FencedBody(s)
    BY <1>2, <1>5, <1>8 DEF RegisterAttempt, EnterFence
  <2>. QED
    BY <1>1, <1>2, <1>3, <1>4, <2>1, BodyStep DEF Started
<1>. QED
  BY <1>6, <1>7, <1>8

\* A refresh has nothing to do, asks for the fence or writes the script.
LEMMA RefreshStartStep ==
    ASSUME Types, Sockets, NEW s \in Socket, RefreshStart(s)
    PROVE  Quiet(s) \/ Started(s)
<1>1. /\ life[s].tail # <<>> /\ life[s].at = "idle" /\ Op(life[s]) = "refresh"
      /\ ~Busy(life[s])
  BY DEF RefreshStart, Running, Op, Busy
<1>2. client' = client
  BY DEF RefreshStart
<1>3. CASE life[s].closing \/ life[s].held = NoRegistrations
  <2>1. PICK q : q = Finished(life[s])
    OBVIOUS
  <2>2. life' = [life EXCEPT ![s] = q] /\ UNCHANGED registryVars
    BY <1>3, <2>1, Zenon DEF RefreshStart
  <2>3. life[s] \in Lifecycle
    BY SocketFacts
  <2>4. /\ q \in Lifecycle
        /\ q.held = life[s].held /\ q.timer = life[s].timer /\ q.closing = life[s].closing
        /\ q.at = "idle" /\ q.sent = NoRegistrations
        /\ q.tail = Tail(life[s].tail)
    BY <1>1, <2>1, <2>3, FinishedFields
  <2>5. SocketStep(s, q) /\ Keeps(life[s], q) /\ Goes(life[s], q)
    BY <1>1, <1>2, <2>2, <2>4, EndStep
  <2>. QED
    BY <2>2, <2>5 DEF Quiet
<1>4. CASE ~(life[s].closing \/ life[s].held = NoRegistrations) /\ s \in Fenced
  <2>1. EnterFence(s)
    BY <1>4 DEF RefreshStart
  <2>2. /\ life' = [life EXCEPT ![s].at = "asked", ![s].saw = owner = s]
        /\ UNCHANGED registryVars
    BY <1>4, <2>1, Zenon DEF EnterFence
  <2>3. \E q : SocketStep(s, q) /\ Keeps(life[s], q) /\ Goes(life[s], q)
    BY <1>1, <1>2, <1>4, <2>2, AskStep
  <2>. QED
    BY <2>2, <2>3 DEF Quiet
<1>5. CASE ~(life[s].closing \/ life[s].held = NoRegistrations) /\ s \notin Fenced
  <2>1. FencedBody(s)
    BY <1>5 DEF RefreshStart, EnterFence
  <2>. QED
    BY <1>1, <1>2, <2>1, BodyStep DEF Started
<1>. QED
  BY <1>3, <1>4, <1>5

\* The fence is entered and its body writes the command.
LEMMA FenceEnteredStep ==
    ASSUME Types, Sockets, NEW s \in Socket, FenceEntered(s)
    PROVE  Started(s)
<1>1. /\ life[s].tail # <<>> /\ life[s].at = "asked" /\ ~Busy(life[s])
      /\ Op(life[s]) \in {"register", "refresh"}
  BY DEF FenceEntered, Running, Op, Busy
<1>2. Op(life[s]) = "register" => ~AtLimit(life[s], Head(life[s].tail).method)
  BY <1>1, SocketFacts DEF Works
<1>3. FencedBody(s) /\ client' = client
  BY DEF FenceEntered
<1>. QED
  BY <1>1, <1>2, <1>3, BodyStep DEF Started

\* What is left of an operation that has thrown.
LEMMA ThrownProper ==
    ASSUME NEW l, NEW k, NEW q, Proper(l, k), l.at # "idle", q = Thrown(l)
    PROVE  /\ q \in Lifecycle /\ Proper(q, k) /\ ~Busy(q) /\ q.at # "asked"
           /\ q.held = l.held /\ q.sent = NoRegistrations
<1>1. l \in Lifecycle /\ Works(l) /\ Small(l.held) /\ (l.timer => ~l.closing)
  BY DEF Proper, Closes
<1>2. l.tail # <<>>
  BY <1>1 DEF Works
<1>3. /\ q \in Lifecycle
      /\ q.held = l.held /\ q.closing = l.closing /\ q.sent = NoRegistrations
      /\ q.timer => l.timer
      /\ Op(l) = "register" => q.tail = l.tail /\ q.at = "retry"
      /\ Op(l) # "register" => q.tail = Tail(l.tail) /\ q.at = "idle"
  BY <1>1, <1>2, ThrownFields
<1>4. CASE Op(l) = "register"
  <2>1. Op(q) = "register" /\ Head(q.tail) = Head(l.tail) /\ q.tail # <<>> /\ ~Busy(q)
    BY <1>2, <1>3, <1>4 DEF Op, Busy
  <2>2. ~AtLimit(q, Head(q.tail).method)
    BY <1>1, <1>3, <1>4, <2>1 DEF Works, AtLimit
  <2>3. Works(q)
    BY <1>3, <2>1, <2>2 DEF Works
  <2>4. Proper(q, k)
    BY <1>1, <1>2, <1>3, <1>4, <2>3, OngoingProper
  <2>. QED
    BY <1>3, <1>4, <2>1, <2>4
<1>5. CASE Op(l) # "register"
  <2>1. Proper(q, k)
    BY <1>2, <1>3, <1>5, EndProper
  <2>. QED
    BY <1>3, <1>5, <2>1 DEF Busy
<1>. QED
  BY <1>4, <1>5

\* The fence's transaction fails before its body has run.
LEMMA FenceFailsStep ==
    ASSUME Types, Sockets, NEW s \in Socket, FenceFails(s)
    PROVE  Quiet(s)
<1>1. life[s].at = "asked" /\ ~Busy(life[s])
  BY DEF FenceFails, Running, Busy
<1>2. PICK q : q = Thrown(life[s])
  OBVIOUS
<1>3. life' = [life EXCEPT ![s] = q] /\ client' = client /\ UNCHANGED registryVars
  BY <1>2, Zenon DEF FenceFails
<1>4. Proper(life[s], client[s]) /\ life[s] \in Lifecycle /\ Works(life[s])
  BY SocketFacts
<1>5. /\ q \in Lifecycle /\ Proper(q, client[s]) /\ ~Busy(q) /\ q.at # "asked"
      /\ q.held = life[s].held /\ q.sent = NoRegistrations
  BY <1>1, <1>2, <1>4, ThrownProper
<1>6. SocketStep(s, q)
  BY <1>3, <1>5, StepOf
<1>7. Keeps(life[s], q) /\ Goes(life[s], q)
  BY <1>1, <1>4, <1>5, RestKeeps
<1>. QED
  BY <1>3, <1>6, <1>7 DEF Quiet

\* The lock is taken.
LEMMA FenceBusyStep ==
    ASSUME Types, Sockets, NEW s \in Socket, FenceBusy(s)
    PROVE  Quiet(s)
<1>1. /\ life[s].tail # <<>> /\ life[s].at = "asked" /\ ~Busy(life[s])
      /\ Op(life[s]) \in {"register", "refresh"}
  BY DEF FenceBusy, Running, Op, Busy
<1>2. PICK l \in Lifecycle : l = life[s]
  BY SocketFacts
<1>3. PICK k \in Client : k = client[s]
  BY SocketFacts
<1>4. Proper(l, k) /\ Works(l) /\ Small(l.held) /\ (l.timer => ~l.closing)
  BY <1>2, <1>3, SocketFacts DEF Proper, Closes
<1>5. client' = client /\ UNCHANGED registryVars
  BY DEF FenceBusy
<1>6. CASE Op(l) = "register"
  <2>1. PICK z \in BOOLEAN : z = FALSE
    OBVIOUS
  <2>2. PICK q : q = [l EXCEPT !.at = "retry", !.saw = z]
    OBVIOUS
  <2>3. life' = [life EXCEPT ![s] = q]
    BY <1>2, <1>6, <2>1, <2>2, Zenon DEF FenceBusy, Op
  <2>4. /\ q \in Lifecycle
        /\ q.held = l.held /\ q.timer = l.timer /\ q.closing = l.closing
        /\ q.at = "retry" /\ q.sent = l.sent /\ q.tail = l.tail
    BY <2>2 DEF Lifecycle
  <2>5. l.sent = NoRegistrations /\ ~AtLimit(l, Head(l.tail).method)
    BY <1>1, <1>2, <1>4, <1>6 DEF Works
  <2>6. Works(q)
    BY <1>1, <1>2, <1>6, <2>4, <2>5 DEF Works, Busy, Op, AtLimit
  <2>7. Proper(q, k)
    BY <1>1, <1>2, <1>4, <2>4, <2>6, OngoingProper
  <2>8. SocketStep(s, q)
    BY <1>3, <1>5, <2>3, <2>4, <2>7, StepOf
  <2>9. Keeps(l, q) /\ Goes(l, q)
    BY <1>1, <1>2, <1>4, <2>4, <2>5, RestKeeps DEF Busy
  <2>. QED
    BY <1>2, <1>5, <2>8, <2>9 DEF Quiet
<1>7. CASE Op(l) = "refresh"
  <2>1. PICK q : q = Thrown(l)
    OBVIOUS
  <2>2. q = StopTimerIfIdle(Finished(l))
    BY <1>7, <2>1 DEF Thrown, Op
  <2>3. life' = [life EXCEPT ![s] = StopTimerIfIdle(Finished(life[s]))]
    BY <1>2, <1>7, Zenon DEF FenceBusy, Op
  <2>4. life' = [life EXCEPT ![s] = q]
    BY <1>2, <2>2, <2>3
  <2>5. /\ q \in Lifecycle /\ Proper(q, k) /\ ~Busy(q) /\ q.at # "asked"
        /\ q.held = l.held /\ q.sent = NoRegistrations
    <3>1. l.at # "idle"
      BY <1>1, <1>2
    <3>. QED
      BY <1>4, <2>1, <3>1, ThrownProper
  <2>6. SocketStep(s, q)
    BY <1>3, <1>5, <2>4, <2>5, StepOf
  <2>7. Keeps(l, q) /\ Goes(l, q)
    BY <1>1, <1>2, <1>4, <2>5, RestKeeps
  <2>. QED
    BY <1>2, <1>5, <2>6, <2>7 DEF Quiet
<1>. QED
  BY <1>1, <1>2, <1>6, <1>7

\* The runtime has lost its session.
LEMMA FenceNotOwnerStep ==
    ASSUME Types, Sockets, NEW s \in Socket, FenceNotOwner(s)
    PROVE  Quiet(s)
<1>1. /\ life[s].tail # <<>> /\ life[s].at = "asked" /\ ~Busy(life[s]) /\ ~life[s].saw
      /\ Op(life[s]) \in {"register", "refresh"}
  BY DEF FenceNotOwner, Running, Op, Busy
<1>2. s \in Fenced /\ owner # s
  BY <1>1, SocketFacts DEF Asks
<1>3. PICK l \in Lifecycle : l = life[s]
  BY SocketFacts
<1>4. PICK k \in Client : k = client[s]
  BY SocketFacts
<1>5. Proper(l, k) /\ Works(l) /\ Small(l.held) /\ (l.timer => ~l.closing)
  BY <1>3, <1>4, SocketFacts DEF Proper, Closes
<1>6. UNCHANGED registryVars
  BY DEF FenceNotOwner
<1>7. CASE Op(l) = "register"
  <2>1. PICK m : m = Head(l.tail).method
    OBVIOUS
  <2>2. PICK C : C = l.cancelled \ {m}
    OBVIOUS
  <2>3. C \in SUBSET Method
    BY <2>2 DEF Lifecycle
  <2>4. PICK p : p = Uncancelled(l, m)
    OBVIOUS
  <2>5. p = [l EXCEPT !.cancelled = C]
    BY <2>2, <2>4 DEF Uncancelled
  <2>6. /\ p \in Lifecycle
        /\ p.held = l.held /\ p.timer = l.timer /\ p.closing = l.closing /\ p.tail = l.tail
    BY <2>3, <2>5 DEF Lifecycle
  <2>7. PICK f : f = Finished(p)
    OBVIOUS
  <2>8. p.tail # <<>>
    BY <1>1, <1>3, <2>6
  <2>9. /\ f \in Lifecycle
        /\ f.held = p.held /\ f.timer = p.timer /\ f.closing = p.closing
        /\ f.at = "idle" /\ f.sent = NoRegistrations
        /\ f.tail = Tail(p.tail)
    BY <2>6, <2>7, <2>8, FinishedFields
  <2>10. Proper(f, k)
    BY <1>1, <1>3, <1>5, <1>7, <2>6, <2>9, EndProper
  <2>11. PICK q : q = Closing(f)
    OBVIOUS
  <2>12. PICK j : j = [k EXCEPT !.state = "down"]
    OBVIOUS
  <2>13. j \in Client /\ j.state = "down" /\ j.wants = k.wants
    BY <2>12 DEF Client
  <2>14. q \in Lifecycle /\ q.held = f.held /\ q.at = f.at /\ q.sent = f.sent
    BY <2>9, <2>11, ClosingFields
  <2>15. Proper(q, j)
    BY <2>10, <2>11, <2>13, <2>14, ClosedProper
  <2>16. /\ life' = [life EXCEPT ![s] = Closing(Finished(Uncancelled(life[s], m)))]
         /\ client' = [client EXCEPT ![s] = [client[s] EXCEPT !.state = "down"]]
    BY <1>3, <1>7, <2>1, Zenon DEF FenceNotOwner, Op
  <2>17. life' = [life EXCEPT ![s] = q] /\ client' = [client EXCEPT ![s] = j]
    BY <1>3, <1>4, <2>4, <2>7, <2>11, <2>12, <2>16
  <2>18. SocketStep(s, q)
    BY <2>9, <2>13, <2>14, <2>15, <2>17 DEF SocketStep, Types
  <2>19. Keeps(l, q) /\ Goes(l, q)
    BY <1>1, <1>3, <1>5, <2>6, <2>9, <2>14, RestKeeps DEF Busy
  <2>. QED
    BY <1>3, <1>6, <2>18, <2>19 DEF Quiet
<1>8. CASE Op(l) = "refresh"
  <2>1. PICK n \in [Method -> Nat] : n = NoRegistrations
    BY NoRegistrationsType
  <2>2. PICK p : p = [l EXCEPT !.held = n]
    OBVIOUS
  <2>3. /\ p \in Lifecycle
        /\ p.held = n /\ p.timer = l.timer /\ p.closing = l.closing /\ p.tail = l.tail
    BY <2>2 DEF Lifecycle
  <2>4. PICK f : f = Finished(p)
    OBVIOUS
  <2>5. p.tail # <<>>
    BY <1>1, <1>3, <2>3
  <2>6. /\ f \in Lifecycle
        /\ f.held = p.held /\ f.timer = p.timer /\ f.closing = p.closing
        /\ f.at = "idle" /\ f.sent = NoRegistrations
        /\ f.tail = Tail(p.tail)
    BY <2>3, <2>4, <2>5, FinishedFields
  <2>7. PICK q : q = StopTimerIfIdle(f)
    OBVIOUS
  <2>8. /\ q \in Lifecycle
        /\ q.held = f.held /\ q.closing = f.closing
        /\ q.at = f.at /\ q.sent = f.sent /\ q.tail = f.tail
        /\ q.timer => f.timer
    BY <2>6, <2>7, StopTimerFields
  <2>9. \A m \in Method : q.held[m] = 0
    BY <2>1, <2>3, <2>6, <2>8 DEF NoRegistrations
  <2>10. Small(q.held)
    BY <1>5, <2>9, SmallSubset
  <2>11. Proper(q, k)
    BY <1>1, <1>3, <1>5, <1>8, <2>3, <2>6, <2>8, <2>9, <2>10, FinishedProper
  <2>12. /\ life' = [life EXCEPT ![s] =
                StopTimerIfIdle(Finished([life[s] EXCEPT !.held = NoRegistrations]))]
         /\ client' = client
    BY <1>3, <1>8, Zenon DEF FenceNotOwner, Op
  <2>13. life' = [life EXCEPT ![s] = q]
    BY <1>3, <2>1, <2>2, <2>4, <2>7, <2>12
  <2>14. SocketStep(s, q)
    BY <1>4, <2>6, <2>8, <2>11, <2>12, <2>13, StepOf
  <2>15. Goes(l, q)
    <3>1. \A m \in Method : q.sent[m] = 0
      BY <2>6, <2>8 DEF NoRegistrations
    <3>. QED
      BY <1>1, <1>3, <2>9, <3>1 DEF Goes
  <2>. QED
    BY <1>2, <1>3, <1>6, <2>14, <2>15 DEF Quiet
<1>. QED
  BY <1>1, <1>3, <1>7, <1>8

\* unregister and close delete what the map held.
LEMMA RemoveStep ==
    ASSUME Types, Sockets, NEW s \in Socket, Remove(s)
    PROVE  Quiet(s) \/ Started(s)
<1>1. /\ life[s].tail # <<>> /\ life[s].at = "idle" /\ ~Busy(life[s])
      /\ Op(life[s]) \in {"unregister", "close"}
  BY DEF Remove, Running, Op, Busy
<1>2. PICK l \in Lifecycle : l = life[s]
  BY SocketFacts
<1>3. PICK k \in Client : k = client[s]
  BY SocketFacts
<1>4. /\ Proper(l, k) /\ Works(l) /\ Small(l.held) /\ (l.timer => ~l.closing)
      /\ l.held \in [Method -> Nat] /\ l.tail \in Seq(Operation) /\ l.tail # <<>>
  BY <1>1, <1>2, <1>3, SocketFacts DEF Proper, Closes
<1>5. client' = client /\ clock' = clock /\ redis' = redis
  BY DEF Remove
<1>6. PICK o \in Operation : o = Head(l.tail)
  BY <1>4, HeadTailProperties
<1>7. /\ o.op = Op(l) /\ o.op \in {"unregister", "close"}
      /\ o.op = "unregister" => o.method \in Method
      /\ \A m \in Method : o # RegisterOf(m)
      /\ \A m \in Method : o = UnregisterOf(m) => o.op = "unregister" /\ o.method = m
  BY <1>1, <1>2, <1>6, OperationFacts DEF Op
<1>8. PICK f : f = Forgotten(l)
  OBVIOUS
<1>9. /\ f \in Lifecycle
      /\ f.held = IF Op(l) = "close" THEN NoRegistrations
                  ELSE [l.held EXCEPT ![Head(l.tail).method] = 0]
      /\ f.timer => l.timer
      /\ f.closing = l.closing /\ f.at = l.at /\ f.sent = l.sent
      /\ f.tail = l.tail
  BY <1>1, <1>2, <1>4, <1>8, ForgottenFields
<1>10. PICK S : S = IF o.op = "close" THEN l.held ELSE Only(o.method, l.held[o.method])
  OBVIOUS
<1>11. S = Removed(s)
  BY <1>2, <1>6, <1>10 DEF Removed
<1>12. /\ S \in [Method -> Nat]
       /\ \A m \in Method : S[m] = IF o.op = "close" \/ o.method = m THEN l.held[m] ELSE 0
       /\ \A m \in Method : f.held[m] = IF o.op = "close" \/ o.method = m THEN 0 ELSE l.held[m]
  <2>1. CASE o.op = "close"
    BY <1>4, <1>7, <1>9, <1>10, <2>1 DEF NoRegistrations
  <2>2. CASE o.op = "unregister"
    <3>1. S = [NoRegistrations EXCEPT ![o.method] = l.held[o.method]]
      BY <1>10, <2>2 DEF Only
    <3>2. /\ S \in [Method -> Nat]
          /\ \A m \in Method : S[m] = IF o.method = m THEN l.held[m] ELSE 0
      BY <1>4, <1>7, <2>2, <3>1 DEF NoRegistrations
    <3>3. f.held = [l.held EXCEPT ![o.method] = 0]
      BY <1>6, <1>7, <1>9, <2>2
    <3>4. \A m \in Method : f.held[m] = IF o.method = m THEN 0 ELSE l.held[m]
      BY <1>4, <1>7, <2>2, <3>3
    <3>. QED
      BY <2>2, <3>2, <3>4
  <2>. QED
    BY <1>7, <2>1, <2>2
<1>13. o.op = "close" => f.held = NoRegistrations
  BY <1>7, <1>9
<1>14. Small(f.held)
  BY <1>4, <1>12, SmallSubset
<1>15. CASE S = NoRegistrations
  <2>1. PICK q : q = RemovalEnds(f)
    OBVIOUS
  <2>2. Op(f) \in {"unregister", "close"} /\ f.tail # <<>>
    BY <1>4, <1>6, <1>7, <1>9 DEF Op
  <2>3. /\ q \in Lifecycle
        /\ q.held = f.held /\ q.timer = f.timer /\ q.closing = f.closing
        /\ q.at = "idle" /\ q.sent = NoRegistrations
        /\ q.tail = Tail(f.tail)
    BY <1>9, <2>1, <2>2, RemovalEndsFields
  <2>4. life' = [life EXCEPT ![s] = RemovalEnds(Forgotten(life[s]))] /\ pipe' = pipe
    BY <1>11, <1>15, Zenon DEF Remove
  <2>5. life' = [life EXCEPT ![s] = q]
    BY <1>2, <1>8, <2>1, <2>4
  <2>6. Proper(q, k)
    <3>1. \A m \in Method : l.held[m] = 0 /\ Head(l.tail) # RegisterOf(m) => q.held[m] = 0
      BY <1>12, <2>3
    <3>2. \A m \in Method : Head(l.tail) = UnregisterOf(m) => q.held[m] = 0
      BY <1>6, <1>7, <1>12, <2>3
    <3>3. Op(l) = "close" => q.held = NoRegistrations
      BY <1>7, <1>13, <2>3
    <3>4. /\ q.tail = Tail(l.tail) /\ q.closing = l.closing /\ Small(q.held)
          /\ q.timer => ~l.closing
      BY <1>4, <1>9, <1>14, <2>3
    <3>. QED
      BY <1>4, <2>3, <3>1, <3>2, <3>3, <3>4, FinishedProper
  <2>7. SocketStep(s, q)
    BY <1>3, <1>5, <2>3, <2>5, <2>6, StepOf
  <2>8. \A m \in Method : q.held[m] = l.held[m]
    BY <1>12, <1>15, <2>3 DEF NoRegistrations
  <2>9. Keeps(l, q) /\ Goes(l, q)
    BY <1>1, <1>2, <1>4, <2>3, <2>8, RestKeeps DEF Busy
  <2>. QED
    BY <1>2, <1>5, <2>4, <2>7, <2>9 DEF Quiet, registryVars
<1>16. CASE S # NoRegistrations
  <2>1. PICK q : q = Awaiting(f, S)
    OBVIOUS
  <2>2. /\ q \in Lifecycle
        /\ q.held = f.held /\ q.timer = f.timer /\ q.closing = f.closing
        /\ q.at = "wait" /\ q.sent = S
        /\ q.tail = f.tail
    BY <1>9, <1>12, <2>1, AwaitingFields
  <2>3. PICK z \in BOOLEAN : z = TRUE
    OBVIOUS
  <2>4. PICK c : c = [sock |-> s, op |-> "delete", regs |-> S, live |-> z]
    OBVIOUS
  <2>5. c \in Command /\ c.sock = s /\ c.op = "delete" /\ c.regs = S /\ c.live = z
    BY <1>12, <2>4 DEF Command
  <2>6. /\ life' = [life EXCEPT ![s] = Awaiting(Forgotten(life[s]), S)]
        /\ pipe' = Append(pipe, [sock |-> s, op |-> "delete", regs |-> S, live |-> TRUE])
    BY <1>11, <1>16, Zenon DEF Remove, Write
  <2>7. life' = [life EXCEPT ![s] = q]
    BY <1>2, <1>8, <2>1, <2>6
  <2>8. pipe' = Append(pipe, c)
    BY <2>3, <2>4, <2>6, Zenon
  <2>9. Head(q.tail) = o /\ Op(q) = o.op /\ Busy(q) /\ q.tail # <<>>
    BY <1>4, <1>6, <1>9, <2>2 DEF Op, Busy
  <2>10. Works(q)
    <3>1. \A m \in Method : q.sent[m] # 0 => q.held[m] = 0
      BY <1>12, <2>2
    <3>2. Op(q) = "close" => q.held = NoRegistrations
      BY <1>13, <2>2, <2>9
    <3>3. Op(q) = "unregister" => q.held[Head(q.tail).method] = 0
      BY <1>7, <1>12, <2>2, <2>9
    <3>. QED
      BY <1>7, <2>9, <3>1, <3>2, <3>3 DEF Works
  <2>11. Proper(q, k)
    <3>1. \A m \in Method : l.held[m] = 0 /\ Head(l.tail) # RegisterOf(m) => q.held[m] = 0
      BY <1>12, <2>2
    <3>2. /\ q.tail = l.tail /\ q.closing = l.closing /\ Small(q.held)
          /\ q.timer => ~l.closing
      BY <1>4, <1>9, <1>14, <2>2
    <3>. QED
      BY <1>4, <2>2, <2>10, <3>1, <3>2, OngoingProper
  <2>12. SocketStep(s, q)
    BY <1>3, <1>5, <2>2, <2>7, <2>11, StepOf
  <2>13. Keeps(l, q)
    <3>1. \A m \in Method : l.held[m] \in {0, q.held[m], q.sent[m]}
      BY <1>12, <2>2
    <3>. QED
      BY <1>1, <1>2, <1>4, <2>2, <3>1, StartKeeps
  <2>14. Starts(s, q, c)
    <3>1. c.op = CommandOf(q)
      BY <1>7, <2>5, <2>9 DEF CommandOf
    <3>2. c.live /\ c.regs = q.sent
      BY <2>2, <2>3, <2>5
    <3>3. client[s].state # "new"
      BY <1>3, <1>4 DEF Proper
    <3>4. \A m \in Method : q.held[m] \in {0, life[s].held[m]}
      BY <1>2, <1>12, <2>2
    <3>5. \A m \in Method : q.sent[m] # 0 => q.sent[m] = life[s].held[m]
      BY <1>2, <1>12, <2>2
    <3>. QED
      BY <1>1, <1>5, <2>2, <2>5, <2>8, <3>1, <3>2, <3>3, <3>4, <3>5 DEF Starts
  <2>. QED
    BY <1>2, <2>12, <2>13, <2>14 DEF Started
<1>. QED
  BY <1>15, <1>16

\* The map after a successful install.
LEMMA InstalledProper ==
    ASSUME NEW l, NEW k, NEW q, Proper(l, k), l.at = "replied", Op(l) = "register",
           q = Installed(l)
    PROVE  /\ q \in Lifecycle /\ Proper(q, k) /\ q.tail = l.tail /\ q.at = "replied"
           /\ q.tail # <<>>
           /\ q.held = [l.held EXCEPT ![Head(l.tail).method] = l.sent[Head(l.tail).method]]
<1>1. /\ l \in Lifecycle /\ Works(l) /\ Small(l.held) /\ (l.timer => ~l.closing)
      /\ l.tail \in Seq(Operation)
      /\ l.held \in [Method -> Nat] /\ l.sent \in [Method -> Nat]
  BY DEF Proper, Closes, Lifecycle
<1>2. l.tail # <<>>
  BY <1>1 DEF Works
<1>3. PICK o \in Operation : o = Head(l.tail)
  BY <1>1, <1>2, HeadTailProperties
<1>4. PICK m \in Method : m = o.method /\ o = RegisterOf(m)
  BY <1>3, OperationFacts DEF Op
<1>5. /\ q \in Lifecycle
      /\ q.held = [l.held EXCEPT ![m] = l.sent[m]]
      /\ q.timer => l.timer \/ ~l.closing
      /\ q.closing = l.closing /\ q.at = l.at /\ q.sent = l.sent
      /\ q.tail = l.tail
  BY <1>1, <1>2, <1>3, <1>4, InstalledFields
<1>6. ~AtLimit(l, m) /\ \A n \in Method : l.sent[n] # 0 <=> n = m
  BY <1>1, <1>3, <1>4 DEF Works, Busy
<1>7. Small(q.held)
  BY <1>1, <1>5, <1>6, SmallInstall
<1>8. q.held[m] = l.sent[m] /\ \A n \in Method : n # m => q.held[n] = l.held[n]
  BY <1>1, <1>5
<1>9. Works(q)
  <2>1. q.tail # <<>> /\ Busy(q) /\ Op(q) = "register" /\ Head(q.tail).method = m
    BY <1>2, <1>3, <1>4, <1>5 DEF Busy, Op
  <2>2. ~AtLimit(q, m)
    BY <1>6, <1>8 DEF AtLimit
  <2>. QED
    BY <1>5, <1>6, <2>1, <2>2 DEF Works
<1>10. Proper(q, k)
  <2>1. \A n \in Method : l.held[n] = 0 /\ Head(l.tail) # RegisterOf(n) => q.held[n] = 0
    BY <1>3, <1>4, <1>8
  <2>2. q.timer => ~l.closing
    BY <1>1, <1>5
  <2>3. q.tail = l.tail /\ q.closing = l.closing /\ q \in Lifecycle
    BY <1>5
  <2>. QED
    BY <1>2, <1>7, <1>9, <2>1, <2>2, <2>3, OngoingProper
<1>. QED
  BY <1>2, <1>3, <1>4, <1>5, <1>10

\* Proper does not depend on what the client was acknowledged.
LEMMA AckedProper ==
    ASSUME NEW q, NEW k, NEW j \in Client, Proper(q, k), j.state = k.state, j.wants = k.wants
    PROVE  Proper(q, j)
BY DEF Proper, Closes

\* The result of a command arrives.
LEMMA ReplyStep ==
    ASSUME Types, Sockets, NEW s \in Socket, Reply(s)
    PROVE  Quiet(s)
<1>1. /\ life[s].tail # <<>> /\ life[s].at = "replied"
      /\ Op(life[s]) \in {"register", "refresh", "unregister", "close"}
  BY DEF Reply, Running, Op
<1>2. PICK l \in Lifecycle : l = life[s]
  BY SocketFacts
<1>3. PICK k \in Client : k = client[s]
  BY SocketFacts
<1>4. /\ Proper(l, k) /\ Works(l) /\ Small(l.held) /\ (l.timer => ~l.closing)
      /\ l.tail \in Seq(Operation) /\ l.tail # <<>> /\ l.at = "replied"
      /\ l.sent \in [Method -> Nat]
  BY <1>1, <1>2, <1>3, SocketFacts DEF Proper, Closes
<1>5. UNCHANGED registryVars
  BY DEF Reply
<1>6. CASE Op(l) = "register"
  <2>1. PICK i : i = Installed(l)
    OBVIOUS
  <2>2. /\ i \in Lifecycle /\ Proper(i, k) /\ i.tail = l.tail /\ i.at = "replied"
        /\ i.tail # <<>>
        /\ i.held = [l.held EXCEPT ![Head(l.tail).method] = l.sent[Head(l.tail).method]]
    BY <1>4, <1>6, <2>1, InstalledProper
  <2>3. PICK q : q = Finished(i)
    OBVIOUS
  <2>4. /\ q \in Lifecycle
        /\ q.held = i.held /\ q.timer = i.timer /\ q.closing = i.closing
        /\ q.at = "idle" /\ q.sent = NoRegistrations
        /\ q.tail = Tail(i.tail)
    BY <2>2, <2>3, FinishedFields
  <2>5. Proper(q, k)
    BY <2>2, <2>4, EndProper
  <2>6. PICK m \in Method : m = Head(l.tail).method
    BY <1>1, <1>2, <1>6, SocketFacts
  <2>7. /\ life' = [life EXCEPT ![s] = Finished(Installed(life[s]))]
        /\ client' = [client EXCEPT ![s].acked[m] = life[s].sent[m]]
    BY <1>2, <1>6, <2>6, Zenon DEF Reply, Op
  <2>8. life' = [life EXCEPT ![s] = q]
    BY <1>2, <2>1, <2>3, <2>7
  <2>9. PICK A : A = [k.acked EXCEPT ![m] = l.sent[m]]
    OBVIOUS
  <2>10. A \in [Method -> Nat]
    BY <1>4, <2>9 DEF Client
  <2>11. PICK j : j = [k EXCEPT !.acked = A]
    OBVIOUS
  <2>12. j \in Client /\ j.state = k.state /\ j.wants = k.wants
    BY <2>10, <2>11 DEF Client
  <2>13. client' = [client EXCEPT ![s] = j]
    BY <1>2, <1>3, <2>7, <2>9, <2>11, Zenon
  <2>14. Proper(q, j)
    BY <2>5, <2>12, AckedProper
  <2>15. SocketStep(s, q)
    BY <1>3, <2>4, <2>8, <2>12, <2>13, <2>14 DEF SocketStep, Types
  <2>16. Keeps(l, q) /\ Goes(l, q)
    BY <1>4, <1>6, <2>2, <2>4, ResultKeeps DEF Busy
  <2>. QED
    BY <1>2, <1>5, <2>15, <2>16 DEF Quiet
<1>7. CASE Op(l) = "refresh"
  <2>1. PICK p : p = Surviving(l)
    OBVIOUS
  <2>2. /\ p \in Lifecycle
        /\ \A m \in Method :
             p.held[m] = IF l.sent[m] # 0 /\ m \notin l.kept THEN 0 ELSE l.held[m]
        /\ p.timer => l.timer
        /\ p.closing = l.closing /\ p.tail = l.tail
    BY <2>1, SurvivingFields
  <2>3. PICK q : q = Finished(p)
    OBVIOUS
  <2>4. p.tail # <<>>
    BY <1>4, <2>2
  <2>5. /\ q \in Lifecycle
        /\ q.held = p.held /\ q.timer = p.timer /\ q.closing = p.closing
        /\ q.at = "idle" /\ q.sent = NoRegistrations
        /\ q.tail = Tail(p.tail)
    BY <2>2, <2>3, <2>4, FinishedFields
  <2>6. \A m \in Method :
             q.held[m] = IF l.sent[m] # 0 /\ m \notin l.kept THEN 0 ELSE l.held[m]
    BY <2>2, <2>5
  <2>7. Small(q.held)
    <3>1. \A m \in Method : l.held[m] = 0 => q.held[m] = 0
      BY <2>6
    <3>. QED
      BY <1>4, <3>1, SmallSubset
  <2>8. Proper(q, k)
    <3>1. \A m \in Method : l.held[m] = 0 => q.held[m] = 0
      BY <2>6
    <3>2. Head(l.tail) \in Operation
      BY <1>4, HeadTailProperties
    <3>3. \A m \in Method : Head(l.tail) # UnregisterOf(m)
      BY <1>7, <3>2, OperationFacts DEF Op
    <3>4. /\ q.tail = Tail(l.tail) /\ q.closing = l.closing
          /\ q.timer => ~l.closing
      BY <1>4, <2>2, <2>5
    <3>. QED
      BY <1>4, <1>7, <2>5, <2>7, <3>1, <3>3, <3>4, FinishedProper
  <2>9. /\ life' = [life EXCEPT ![s] = Finished(Surviving(life[s]))]
        /\ client' = client
    BY <1>2, <1>7, Zenon DEF Reply, Op
  <2>10. life' = [life EXCEPT ![s] = q]
    BY <1>2, <2>1, <2>3, <2>9
  <2>11. SocketStep(s, q)
    BY <1>3, <2>5, <2>8, <2>9, <2>10, StepOf
  <2>12. Keeps(l, q) /\ Goes(l, q)
    BY <1>4, <1>7, <2>5, <2>6, ResultKeeps DEF Busy
  <2>. QED
    BY <1>2, <1>5, <2>11, <2>12 DEF Quiet
<1>8. CASE Op(l) \in {"unregister", "close"}
  <2>1. PICK q : q = RemovalEnds(l)
    OBVIOUS
  <2>2. /\ q \in Lifecycle
        /\ q.held = l.held /\ q.timer = l.timer /\ q.closing = l.closing
        /\ q.at = "idle" /\ q.sent = NoRegistrations
        /\ q.tail = Tail(l.tail)
    BY <1>4, <1>8, <2>1, RemovalEndsFields
  <2>3. Proper(q, k)
    BY <1>4, <2>2, EndProper
  <2>4. /\ life' = [life EXCEPT ![s] = RemovalEnds(life[s])]
        /\ client' = client
    BY <1>2, <1>8 DEF Reply, Op
  <2>5. life' = [life EXCEPT ![s] = q]
    BY <1>2, <2>1, <2>4
  <2>6. SocketStep(s, q)
    BY <1>3, <2>2, <2>3, <2>4, <2>5, StepOf
  <2>7. Keeps(l, q) /\ Goes(l, q)
    BY <1>4, <1>8, <2>2, ResultKeeps DEF Busy
  <2>. QED
    BY <1>2, <1>5, <2>6, <2>7 DEF Quiet
<1>. QED
  BY <1>1, <1>2, <1>6, <1>7, <1>8

\* The body of the fence has run, and its transaction fails to commit.
LEMMA FenceCommitFailsStep ==
    ASSUME Types, Sockets, NEW s \in Socket, FenceCommitFails(s)
    PROVE  Quiet(s)
<1>1. /\ life[s].tail # <<>> /\ life[s].at = "replied"
      /\ Op(life[s]) \in {"register", "refresh"}
  BY DEF FenceCommitFails, Running, Op
<1>2. PICK l \in Lifecycle : l = life[s]
  BY SocketFacts
<1>3. PICK k \in Client : k = client[s]
  BY SocketFacts
<1>4. Proper(l, k) /\ Works(l) /\ l.tail # <<>> /\ l.at = "replied"
  BY <1>1, <1>2, <1>3, SocketFacts
<1>5. UNCHANGED registryVars /\ client' = client
  BY DEF FenceCommitFails
<1>6. CASE Op(l) = "register"
  <2>1. PICK i : i = Installed(l)
    OBVIOUS
  <2>2. /\ i \in Lifecycle /\ Proper(i, k) /\ i.tail = l.tail /\ i.at = "replied"
        /\ i.held = [l.held EXCEPT ![Head(l.tail).method] = l.sent[Head(l.tail).method]]
    BY <1>4, <1>6, <2>1, InstalledProper
  <2>3. PICK q : q = Thrown(i)
    OBVIOUS
  <2>4. /\ q \in Lifecycle /\ Proper(q, k) /\ ~Busy(q) /\ q.at # "asked"
        /\ q.held = i.held /\ q.sent = NoRegistrations
    BY <2>2, <2>3, ThrownProper
  <2>5. life' = [life EXCEPT ![s] = Thrown(Installed(life[s]))]
    BY <1>2, <1>6, Zenon DEF FenceCommitFails, Op
  <2>6. life' = [life EXCEPT ![s] = q]
    BY <1>2, <2>1, <2>3, <2>5
  <2>7. SocketStep(s, q)
    BY <1>3, <1>5, <2>4, <2>6, StepOf
  <2>8. Keeps(l, q) /\ Goes(l, q)
    BY <1>4, <1>6, <2>2, <2>4, ResultKeeps
  <2>. QED
    BY <1>2, <1>5, <2>7, <2>8 DEF Quiet
<1>7. CASE Op(l) = "refresh"
  <2>1. PICK q : q = Thrown(l)
    OBVIOUS
  <2>2. /\ q \in Lifecycle /\ Proper(q, k) /\ ~Busy(q) /\ q.at # "asked"
        /\ q.held = l.held /\ q.sent = NoRegistrations
    BY <1>4, <2>1, ThrownProper
  <2>3. life' = [life EXCEPT ![s] = Thrown(life[s])]
    BY <1>2, <1>7, Zenon DEF FenceCommitFails, Op
  <2>4. life' = [life EXCEPT ![s] = q]
    BY <1>2, <2>1, <2>3
  <2>5. SocketStep(s, q)
    BY <1>3, <1>5, <2>2, <2>4, StepOf
  <2>6. Keeps(l, q) /\ Goes(l, q)
    BY <1>4, <1>7, <2>2, ResultKeeps
  <2>. QED
    BY <1>2, <1>5, <2>5, <2>6 DEF Quiet
<1>. QED
  BY <1>1, <1>2, <1>6, <1>7

\* A command fails or is given up while its operation waits for it.
Fades(s) ==
    /\ \E q : /\ SocketStep(s, q) /\ q.held = life[s].held /\ q.sent = NoRegistrations
              /\ ~Busy(q)
    /\ pipe' \in Seq(Command) /\ Len(pipe') = Len(pipe)
    /\ \A i \in 1 .. Len(pipe) :
         /\ pipe'[i].sock = pipe[i].sock /\ pipe'[i].op = pipe[i].op
         /\ pipe'[i].live <=> pipe[i].live /\ pipe[i].sock # s
         /\ pipe'[i].live => pipe'[i].regs = pipe[i].regs
         /\ \A m \in Method : pipe'[i].regs[m] \in {0, pipe[i].regs[m]}
    /\ uncertain \subseteq uncertain'
    /\ \A m \in Method : life[s].sent[m] # 0 => <<s, m, life[s].sent[m]>> \in uncertain'
    /\ uncertain' \subseteq Socket \X Method \X Nat
    /\ redis' = redis /\ clock' = clock /\ client' = client

\* A command times out or fails: its operation gives it up.
LEMMA ThrowStep ==
    ASSUME Types, Sockets, NEW s \in Socket, CommandTimesOut(s) \/ CommandFails(s)
    PROVE  Fades(s)
<1>1. life[s].at \in {"wait", "replied"}
  BY Zenon DEF CommandTimesOut, CommandFails
<1>2. /\ life' = [life EXCEPT ![s] = Thrown(life[s])]
      /\ redis' = redis /\ clock' = clock /\ client' = client /\ InDoubt(s)
  <2>1. life' = [life EXCEPT ![s] = Thrown(life[s])]
    BY Zenon DEF CommandTimesOut, CommandFails
  <2>2. redis' = redis /\ clock' = clock /\ client' = client /\ InDoubt(s)
    BY Zenon DEF CommandTimesOut, CommandFails
  <2>. QED
    BY <2>1, <2>2
<1>3. PICK q : q = Thrown(life[s])
  OBVIOUS
<1>4. Proper(life[s], client[s]) /\ life[s].sent \in [Method -> Nat]
  BY SocketFacts
<1>5. /\ q \in Lifecycle /\ Proper(q, client[s]) /\ ~Busy(q) /\ q.at # "asked"
      /\ q.held = life[s].held /\ q.sent = NoRegistrations
  <2>1. life[s].at # "idle"
    BY <1>1
  <2>. QED
    BY <1>3, <1>4, <2>1, ThrownProper
<1>6. SocketStep(s, q)
  BY <1>2, <1>3, <1>5, StepOf
<1>7. /\ uncertain \subseteq uncertain' /\ uncertain' \subseteq Socket \X Method \X Nat
      /\ \A m \in Method : life[s].sent[m] # 0 => <<s, m, life[s].sent[m]>> \in uncertain'
  BY <1>2, <1>4 DEF InDoubt, Methods, Types
<1>8. pipe \in Seq(Command)
  BY DEF Types
<1>9. Len(pipe) \in Nat /\ DOMAIN pipe = 1 .. Len(pipe)
  BY <1>8, LenProperties
<1>10. /\ pipe' \in Seq(Command) /\ Len(pipe') = Len(pipe)
       /\ \A i \in 1 .. Len(pipe) :
            /\ pipe'[i].sock = pipe[i].sock /\ pipe'[i].op = pipe[i].op
            /\ pipe'[i].live <=> pipe[i].live /\ pipe[i].sock # s
            /\ pipe'[i].live => pipe'[i].regs = pipe[i].regs
            /\ \A m \in Method : pipe'[i].regs[m] \in {0, pipe[i].regs[m]}
  <2>1. DOMAIN pipe' = 1 .. Len(pipe)
    BY <1>9, Zenon DEF CommandTimesOut, CommandFails
  <2>2. ASSUME NEW i \in 1 .. Len(pipe)
        PROVE  /\ pipe'[i] \in Command
               /\ pipe'[i].sock = pipe[i].sock /\ pipe'[i].op = pipe[i].op
               /\ pipe'[i].live <=> pipe[i].live /\ pipe[i].sock # s
               /\ pipe'[i].live => pipe'[i].regs = pipe[i].regs
               /\ \A m \in Method : pipe'[i].regs[m] \in {0, pipe[i].regs[m]}
    <3>1. PICK c \in Command : c = pipe[i]
      BY <1>8, <1>9, ElementOfSeq
    <3>2. PICK n \in [Method -> Nat] : n = NoRegistrations
      BY NoRegistrationsType
    <3>3. PICK z \in BOOLEAN : z = FALSE
      OBVIOUS
    <3>4. CASE CommandTimesOut(s)
      <4>1. PICK y \in BOOLEAN : y = (c.live /\ c.sock # s)
        OBVIOUS
      <4>2. pipe'[i] = [pipe[i] EXCEPT !.live = pipe[i].live /\ pipe[i].sock # s]
        BY <1>9, <3>4, Zenon DEF CommandTimesOut
      <4>3. pipe'[i] = [c EXCEPT !.live = y]
        BY <3>1, <4>1, <4>2, Zenon
      <4>4. PICK d : d = [c EXCEPT !.live = y]
        OBVIOUS
      <4>5. d \in Command /\ d.sock = c.sock /\ d.op = c.op /\ d.regs = c.regs /\ d.live = y
        BY <4>4 DEF Command
      <4>. QED
        BY <3>1, <4>1, <4>3, <4>4, <4>5
    <3>5. CASE CommandFails(s)
      <4>1. pipe'[i] = IF pipe[i].sock = s /\ pipe[i].live
                       THEN [pipe[i] EXCEPT !.regs = NoRegistrations, !.live = FALSE]
                       ELSE pipe[i]
        BY <1>9, <3>5, Zenon DEF CommandFails
      <4>2. CASE c.sock = s /\ c.live
        <5>1. PICK d : d = [c EXCEPT !.regs = n, !.live = z]
          OBVIOUS
        <5>2. pipe'[i] = d
          BY <3>1, <3>2, <3>3, <4>1, <4>2, <5>1, Zenon
        <5>3. d \in Command /\ d.sock = c.sock /\ d.op = c.op /\ d.regs = n /\ d.live = z
          BY <5>1 DEF Command
        <5>4. \A m \in Method : d.regs[m] = 0
          BY <3>2, <5>3 DEF NoRegistrations
        <5>. QED
          BY <3>1, <3>3, <4>2, <5>2, <5>3, <5>4
      <4>3. CASE ~(c.sock = s /\ c.live)
        <5>1. pipe'[i] = c
          BY <3>1, <4>1, <4>3, Zenon
        <5>. QED
          BY <3>1, <4>3, <5>1
      <4>. QED
        BY <4>2, <4>3
    <3>. QED
      BY <3>4, <3>5
  <2>3. pipe' = [i \in 1 .. Len(pipe) |-> pipe'[i]]
    BY <1>9, Zenon DEF CommandTimesOut, CommandFails
  <2>4. pipe' \in Seq(Command) /\ Len(pipe') = Len(pipe)
    BY <1>9, <2>2, <2>3, IsASeq, LenProperties
  <2>. QED
    BY <2>2, <2>4
<1>. QED
  BY <1>2, <1>5, <1>6, <1>7, <1>10 DEF Fades

-----------------------------------------------------------------------------
(* The invariant of the registry under these steps.                        *)

\* The parts that speak of Redis.
Registry == Gens /\ Commands /\ Entries

\* The other sockets do not change with s.
LEMMA SocketsStep ==
    ASSUME Types, Sockets, NEW s \in Socket, NEW q, SocketStep(s, q), owner' = owner
    PROVE  /\ Sockets' /\ life' \in [Socket -> Lifecycle] /\ client' \in [Socket -> Client]
           /\ life'[s] = q /\ \A x \in Socket : x # s => life'[x] = life[x]
           /\ \A x \in Socket : client'[x].state = "new" => client[x].state = "new"
<1>1. /\ q \in Lifecycle /\ life' = [life EXCEPT ![s] = q]
      /\ client' \in [Socket -> Client]
      /\ \A x \in Socket : x # s => client'[x] = client[x]
      /\ client'[s].state = "new" => client[s].state = "new"
      /\ Proper(q, client'[s])
      /\ q.at = "asked" => s \in Fenced /\ (q.saw \/ owner # s)
  BY DEF SocketStep
<1>2. /\ life' \in [Socket -> Lifecycle]
      /\ life'[s] = q /\ \A x \in Socket : x # s => life'[x] = life[x]
  BY <1>1 DEF Types
<1>3. ASSUME NEW x \in Socket
      PROVE  Proper(life'[x], client'[x]) /\ Asks(x)'
  <2>1. CASE x = s
    BY <1>1, <1>2, <2>1 DEF Asks
  <2>2. CASE x # s
    <3>1. life'[x] = life[x] /\ client'[x] = client[x]
      BY <1>1, <1>2, <2>2
    <3>2. Proper(life[x], client[x]) /\ Asks(x)
      BY DEF Sockets
    <3>. QED
      BY <3>1, <3>2 DEF Asks
  <2>. QED
    BY <2>1, <2>2
<1>4. Sockets'
  BY <1>3 DEF Sockets
<1>. QED
  BY <1>1, <1>2, <1>4

\* An entry that is there has a socket and a generation.
LEMMA EntryFacts ==
    ASSUME Types, Gens, NEW m \in Method
    PROVE  /\ redis[m] \in Entry /\ redis[m].gen \in Nat
           /\ redis[m] # Absent => redis[m].sock \in Socket /\ redis[m].gen # 0
<1>1. redis[m] \in Entry /\ redis[m].gen \in Nat
  BY DEF Types, Entry
<1>2. redis[m].sock = None <=> redis[m].gen = 0
  BY DEF Gens
<1>3. redis[m].sock \in Socket \union {None}
  BY <1>1 DEF Entry
<1>4. redis[m] # Absent => redis[m].sock # None
  BY <1>1, <1>2 DEF Entry, Absent
<1>. QED
  BY <1>1, <1>2, <1>3, <1>4

\* A command in the pipe.
LEMMA PipeFacts ==
    ASSUME Types
    PROVE  /\ Len(pipe) \in Nat /\ DOMAIN pipe = 1 .. Len(pipe)
           /\ \A i \in DOMAIN pipe :
                pipe[i] \in Command /\ pipe[i].sock \in Socket /\ pipe[i].regs \in [Method -> Nat]
<1>1. pipe \in Seq(Command)
  BY DEF Types
<1>2. Len(pipe) \in Nat /\ DOMAIN pipe = 1 .. Len(pipe)
  BY <1>1, LenProperties
<1>3. \A i \in DOMAIN pipe : pipe[i] \in Command
  BY <1>1, <1>2, ElementOfSeq
<1>. QED
  BY <1>2, <1>3 DEF Command

\* A quiet step.
LEMMA QuietInv ==
    ASSUME Types, Sockets, Registry, NEW s \in Socket, Quiet(s), UNCHANGED <<owner, uncertain>>
    PROVE  Sockets' /\ Registry'
<1>1. PICK q : /\ SocketStep(s, q) /\ Goes(life[s], q)
               /\ Keeps(life[s], q) \/ (s \in Fenced /\ owner # s)
  BY DEF Quiet
<1>2. redis' = redis /\ pipe' = pipe /\ clock' = clock /\ owner' = owner /\ uncertain' = uncertain
  BY DEF Quiet, registryVars
<1>3. /\ Sockets' /\ life'[s] = q /\ \A x \in Socket : x # s => life'[x] = life[x]
      /\ \A x \in Socket : client'[x].state = "new" => client[x].state = "new"
  BY <1>1, <1>2, SocketsStep
<1>4. Gens /\ Commands /\ Entries
  BY DEF Registry
<1>5. Gens'
  <2>1. ASSUME NEW m \in Method, NEW x \in Socket
        PROVE  life'[x].held[m] <= clock /\ life'[x].sent[m] <= clock
    <3>1. \A y \in Socket : life[y].held[m] <= clock /\ life[y].sent[m] <= clock
      BY <1>4 DEF Gens
    <3>2. clock \in Nat
      BY DEF Types
    <3>3. CASE x = s
      <4>1. q.held[m] \in {0, life[s].held[m], life[s].sent[m]} /\ q.sent[m] \in {0, life[s].sent[m]}
        BY <1>1 DEF Goes
      <4>. QED
        BY <1>3, <3>1, <3>2, <3>3, <4>1
    <3>4. CASE x # s
      BY <1>3, <3>1, <3>4
    <3>. QED
      BY <3>3, <3>4
  <2>2. ASSUME NEW m \in Method, redis[m] # Absent
        PROVE  client'[redis[m].sock].state # "new"
    BY <1>3, <1>4, <2>2, EntryFacts DEF Gens
  <2>. QED
    BY <1>2, <1>4, <2>1, <2>2 DEF Gens
<1>6. Commands'
  <2>1. ASSUME NEW i \in DOMAIN pipe
        PROVE  /\ client'[pipe[i].sock].state # "new"
               /\ pipe[i].live => /\ life'[pipe[i].sock].at = "wait"
                                  /\ life'[pipe[i].sock].sent = pipe[i].regs
                                  /\ pipe[i].op = CommandOf(life'[pipe[i].sock])
    <3>1. PICK x \in Socket : x = pipe[i].sock
      BY PipeFacts
    <3>2. /\ client[x].state # "new"
          /\ pipe[i].live => /\ life[x].at = "wait" /\ life[x].sent = pipe[i].regs
                             /\ pipe[i].op = CommandOf(life[x])
      BY <1>4, <3>1 DEF Commands
    <3>3. client'[x].state # "new"
      BY <1>3, <3>2
    <3>4. CASE x = s
      <4>1. life[s].at = "wait" => /\ q.at = "wait" /\ q.sent = life[s].sent
                                   /\ CommandOf(q) = CommandOf(life[s])
        BY <1>1 DEF Goes
      <4>. QED
        BY <1>3, <3>1, <3>2, <3>3, <3>4, <4>1
    <3>5. CASE x # s
      BY <1>3, <3>1, <3>2, <3>3, <3>5
    <3>. QED
      BY <3>4, <3>5
  <2>. QED
    BY <1>2, <1>4, <2>1 DEF Commands
<1>7. Entries'
  <2>1. SUFFICES ASSUME NEW m \in Method, Sure(m)
                 PROVE  Tended(life'[redis[m].sock], m, redis[m].gen)
    BY <1>2 DEF Entries, Sure
  <2>2. PICK x \in Socket, g \in Nat : x = redis[m].sock /\ g = redis[m].gen /\ g # 0
    BY <1>4, <2>1, EntryFacts DEF Sure
  <2>3. Tended(life[x], m, g)
    BY <1>4, <2>1, <2>2 DEF Entries
  <2>4. CASE x = s
    <3>1. Keeps(life[s], q)
      BY <1>1, <2>1, <2>2, <2>4 DEF Sure
    <3>2. Tended(q, m, g)
      BY <2>2, <2>3, <2>4, <3>1 DEF Keeps
    <3>. QED
      BY <1>3, <2>2, <2>4, <3>2
  <2>5. CASE x # s
    BY <1>3, <2>2, <2>3, <2>5
  <2>. QED
    BY <2>4, <2>5
<1>. QED
  BY <1>3, <1>5, <1>6, <1>7 DEF Registry

\* A command fails or times out: what it was about is in doubt.
LEMMA FadesInv ==
    ASSUME Types, Sockets, Registry, NEW s \in Socket, Fades(s), owner' = owner
    PROVE  Sockets' /\ Registry'
<1>1. PICK q : /\ SocketStep(s, q) /\ q.held = life[s].held /\ q.sent = NoRegistrations
               /\ ~Busy(q)
  BY DEF Fades
<1>2. redis' = redis /\ clock' = clock /\ uncertain \subseteq uncertain'
  BY DEF Fades
<1>3. /\ Sockets' /\ life'[s] = q /\ \A x \in Socket : x # s => life'[x] = life[x]
      /\ \A x \in Socket : client'[x].state = "new" => client[x].state = "new"
  BY <1>1, SocketsStep
<1>4. Gens /\ Commands /\ Entries
  BY DEF Registry
<1>5. /\ Len(pipe) \in Nat /\ DOMAIN pipe = 1 .. Len(pipe) /\ DOMAIN pipe' = 1 .. Len(pipe)
      /\ \A i \in DOMAIN pipe : pipe[i].sock \in Socket /\ pipe[i].regs \in [Method -> Nat]
      /\ \A i \in DOMAIN pipe' : pipe'[i].regs \in [Method -> Nat]
  <2>1. pipe' \in Seq(Command) /\ Len(pipe') = Len(pipe)
    BY DEF Fades
  <2>2. DOMAIN pipe' = 1 .. Len(pipe) /\ \A i \in DOMAIN pipe' : pipe'[i] \in Command
    BY <2>1, LenProperties, ElementOfSeq
  <2>. QED
    BY <2>2, PipeFacts DEF Command
<1>6. \A i \in 1 .. Len(pipe) :
         /\ pipe'[i].sock = pipe[i].sock /\ pipe'[i].op = pipe[i].op
         /\ pipe'[i].live <=> pipe[i].live /\ pipe[i].sock # s
         /\ pipe'[i].live => pipe'[i].regs = pipe[i].regs
         /\ \A m \in Method : pipe'[i].regs[m] \in {0, pipe[i].regs[m]}
  BY DEF Fades
<1>7. Gens'
  <2>1. ASSUME NEW m \in Method, NEW x \in Socket
        PROVE  life'[x].held[m] <= clock /\ life'[x].sent[m] <= clock
    <3>1. \A y \in Socket : life[y].held[m] <= clock /\ life[y].sent[m] <= clock
      BY <1>4 DEF Gens
    <3>2. clock \in Nat
      BY DEF Types
    <3>3. q.sent[m] = 0
      BY <1>1 DEF NoRegistrations
    <3>. QED
      BY <1>1, <1>3, <3>1, <3>2, <3>3
  <2>2. ASSUME NEW m \in Method, redis[m] # Absent
        PROVE  client'[redis[m].sock].state # "new"
    BY <1>3, <1>4, <2>2, EntryFacts DEF Gens
  <2>3. ASSUME NEW m \in Method, NEW i \in 1 .. Len(pipe)
        PROVE  pipe'[i].regs[m] <= clock
    <3>1. pipe[i].regs[m] <= clock /\ clock \in Nat
      BY <1>4, <1>5 DEF Gens, Types
    <3>. QED
      BY <1>6, <3>1
  <2>4. ASSUME NEW m \in Method, NEW j \in 1 .. Len(pipe), pipe'[j].op = "set",
               pipe'[j].regs[m] # 0
        PROVE  /\ redis[m].gen < pipe'[j].regs[m]
               /\ \A i \in 1 .. j - 1 : pipe'[i].regs[m] < pipe'[j].regs[m]
    <3>1. pipe[j].op = "set" /\ pipe'[j].regs[m] = pipe[j].regs[m]
      BY <1>6, <2>4
    <3>2. /\ redis[m].gen < pipe[j].regs[m]
          /\ \A i \in 1 .. j - 1 : pipe[i].regs[m] < pipe[j].regs[m]
      BY <1>4, <1>5, <2>4, <3>1 DEF Gens
    <3>3. ASSUME NEW i \in 1 .. j - 1
          PROVE  pipe'[i].regs[m] < pipe'[j].regs[m]
      <4>1. i \in 1 .. Len(pipe)
        BY <1>5
      <4>2. pipe'[i].regs[m] \in {0, pipe[i].regs[m]}
        BY <1>6, <4>1
      <4>3. pipe[j].regs[m] \in Nat
        BY <1>5
      <4>. QED
        BY <2>4, <3>1, <3>2, <4>2, <4>3
    <3>. QED
      BY <3>1, <3>2, <3>3
  <2>. QED
    BY <1>2, <1>4, <1>5, <2>1, <2>2, <2>3, <2>4 DEF Gens
<1>8. Commands'
  <2>1. ASSUME NEW i \in 1 .. Len(pipe)
        PROVE  /\ client'[pipe'[i].sock].state # "new"
               /\ pipe'[i].live => /\ life'[pipe'[i].sock].at = "wait"
                                   /\ life'[pipe'[i].sock].sent = pipe'[i].regs
                                   /\ pipe'[i].op = CommandOf(life'[pipe'[i].sock])
               /\ ~pipe'[i].live => \A m \in Methods(pipe'[i].regs) :
                                      <<pipe'[i].sock, m, pipe'[i].regs[m]>> \in uncertain'
    <3>1. PICK x \in Socket : x = pipe[i].sock /\ x = pipe'[i].sock
      BY <1>5, <1>6
    <3>2. /\ client[x].state # "new"
          /\ pipe[i].live => /\ life[x].at = "wait" /\ life[x].sent = pipe[i].regs
                             /\ pipe[i].op = CommandOf(life[x])
          /\ ~pipe[i].live => \A m \in Methods(pipe[i].regs) :
                                 <<x, m, pipe[i].regs[m]>> \in uncertain
      BY <1>4, <1>5, <3>1 DEF Commands
    <3>3. client'[x].state # "new"
      BY <1>3, <3>2
    <3>4. CASE pipe'[i].live
      <4>1. pipe[i].live /\ x # s /\ pipe'[i].regs = pipe[i].regs /\ pipe'[i].op = pipe[i].op
        BY <1>6, <3>1, <3>4
      <4>2. life'[x] = life[x] /\ life'[x] = life'[pipe'[i].sock]
        BY <1>3, <3>1, <4>1
      <4>. QED
        BY <3>1, <3>2, <3>3, <3>4, <4>1, <4>2
    <3>5. CASE ~pipe'[i].live
      <4>1. ASSUME NEW m \in Methods(pipe'[i].regs)
            PROVE  <<x, m, pipe'[i].regs[m]>> \in uncertain'
        <5>1. m \in Method /\ pipe'[i].regs[m] = pipe[i].regs[m] /\ m \in Methods(pipe[i].regs)
          BY <1>6 DEF Methods
        <5>2. CASE ~pipe[i].live
          BY <1>2, <3>2, <5>1, <5>2
        <5>3. CASE pipe[i].live
          <6>1. x = s
            BY <1>6, <3>1, <3>5, <5>3
          <6>2. life[s].sent[m] # 0 /\ life[s].sent[m] = pipe[i].regs[m]
            BY <3>2, <5>1, <5>3, <6>1 DEF Methods
          <6>3. <<s, m, life[s].sent[m]>> \in uncertain'
            BY <5>1, <6>2 DEF Fades
          <6>. QED
            BY <5>1, <6>1, <6>2, <6>3
        <5>. QED
          BY <5>2, <5>3
      <4>. QED
        BY <3>1, <3>3, <3>5, <4>1
    <3>. QED
      BY <3>4, <3>5
  <2>2. ASSUME NEW i \in 1 .. Len(pipe), NEW j \in 1 .. Len(pipe),
               pipe'[i].live, pipe'[j].live, pipe'[i].sock = pipe'[j].sock
        PROVE  i = j
    BY <1>4, <1>5, <1>6, <2>2 DEF Commands
  <2>. QED
    BY <1>5, <2>1, <2>2 DEF Commands
<1>9. Entries'
  <2>1. SUFFICES ASSUME NEW m \in Method, Sure(m)'
                 PROVE  Tended(life'[redis[m].sock], m, redis[m].gen)
    BY <1>2 DEF Entries
  <2>2. Sure(m) /\ <<redis[m].sock, m, redis[m].gen>> \notin uncertain'
    BY <1>2, <2>1 DEF Sure
  <2>3. PICK x \in Socket, g \in Nat : x = redis[m].sock /\ g = redis[m].gen /\ g # 0
    BY <1>4, <2>2, EntryFacts DEF Sure
  <2>4. Tended(life[x], m, g)
    BY <1>4, <2>2, <2>3 DEF Entries
  <2>5. CASE x = s
    <3>1. life[s].sent[m] # g
      BY <2>2, <2>3, <2>5 DEF Fades
    <3>2. q.held[m] = g
      BY <1>1, <2>4, <2>5, <3>1 DEF Tended
    <3>3. q.at # "replied"
      BY <1>1 DEF Busy
    <3>4. Tended(q, m, g)
      BY <3>2, <3>3 DEF Tended
    <3>. QED
      BY <1>3, <2>3, <2>5, <3>4
  <2>6. CASE x # s
    BY <1>3, <2>3, <2>4, <2>6
  <2>. QED
    BY <2>5, <2>6
<1>. QED
  BY <1>3, <1>7, <1>8, <1>9 DEF Registry

\* A command is written behind the others.
LEMMA StartedInv ==
    ASSUME Types, Sockets, Registry, NEW s \in Socket, Started(s),
           UNCHANGED <<owner, uncertain>>
    PROVE  Sockets' /\ Registry' /\ pipe' \in Seq(Command) /\ clock' \in Nat
<1>1. PICK q, c : SocketStep(s, q) /\ Keeps(life[s], q) /\ Starts(s, q, c)
  BY DEF Started
<1>2. /\ c \in Command /\ c.sock = s /\ c.live /\ c.regs = q.sent /\ c.op = CommandOf(q)
      /\ pipe' = Append(pipe, c) /\ redis' = redis /\ client' = client
      /\ clock' \in {clock, clock + 1}
      /\ q.at = "wait" /\ ~Busy(life[s]) /\ client[s].state # "new"
      /\ \A m \in Method : q.held[m] \in {0, life[s].held[m]}
      /\ \A m \in Method : q.sent[m] # 0 => q.sent[m] = IF c.op = "set" THEN clock' ELSE life[s].held[m]
      /\ c.op = "set" => clock' = clock + 1
  BY <1>1 DEF Starts
<1>3. /\ Sockets' /\ life'[s] = q /\ \A x \in Socket : x # s => life'[x] = life[x]
  BY <1>1, SocketsStep
<1>4. Gens /\ Commands /\ Entries
  BY DEF Registry
<1>5. pipe \in Seq(Command) /\ clock \in Nat /\ clock' \in Nat /\ clock <= clock'
  BY <1>2 DEF Types
<1>6. /\ pipe' \in Seq(Command) /\ Len(pipe') = Len(pipe) + 1
      /\ \A i \in 1 .. Len(pipe) : pipe'[i] = pipe[i]
      /\ pipe'[Len(pipe) + 1] = c
  BY <1>2, <1>5, AppendProperties
<1>7. /\ Len(pipe) \in Nat /\ DOMAIN pipe = 1 .. Len(pipe) /\ DOMAIN pipe' = 1 .. Len(pipe) + 1
      /\ \A i \in DOMAIN pipe : pipe[i].sock \in Socket /\ pipe[i].regs \in [Method -> Nat]
  BY <1>6, PipeFacts, LenProperties
<1>8. Gens'
  <2>1. ASSUME NEW m \in Method, NEW x \in Socket
        PROVE  life'[x].held[m] <= clock' /\ life'[x].sent[m] <= clock'
    <3>1. \A y \in Socket : life[y].held[m] <= clock /\ life[y].sent[m] <= clock
      BY <1>4 DEF Gens
    <3>2. life[x].held[m] \in Nat /\ life[x].sent[m] \in Nat /\ life[s].held[m] \in Nat
      BY SocketFacts
    <3>3. CASE x = s
      <4>1. q.held[m] <= clock'
        BY <1>2, <1>5, <3>1, <3>2
      <4>2. q.sent[m] = 0 \/ q.sent[m] = clock' \/ q.sent[m] = life[s].held[m]
        BY <1>2
      <4>3. q.sent[m] <= clock'
        BY <1>5, <3>1, <3>2, <4>2
      <4>. QED
        BY <1>3, <3>3, <4>1, <4>3
    <3>4. CASE x # s
      BY <1>3, <1>5, <3>1, <3>2, <3>4
    <3>. QED
      BY <3>3, <3>4
  <2>2. ASSUME NEW m \in Method
        PROVE  redis[m].gen <= clock'
    BY <1>4, <1>5, EntryFacts DEF Gens
  <2>3. ASSUME NEW m \in Method, NEW i \in DOMAIN pipe'
        PROVE  pipe'[i].regs[m] <= clock'
    <3>1. CASE i \in 1 .. Len(pipe)
      BY <1>4, <1>5, <1>6, <1>7, <3>1 DEF Gens
    <3>2. CASE i = Len(pipe) + 1
      BY <1>2, <1>3, <1>6, <2>1, <3>2
    <3>. QED
      BY <1>7, <3>1, <3>2
  <2>4. ASSUME NEW m \in Method, NEW j \in DOMAIN pipe', pipe'[j].op = "set",
               pipe'[j].regs[m] # 0
        PROVE  /\ redis[m].gen < pipe'[j].regs[m]
               /\ \A i \in 1 .. j - 1 : pipe'[i].regs[m] < pipe'[j].regs[m]
    <3>1. CASE j \in 1 .. Len(pipe)
      <4>1. pipe[j].op = "set" /\ pipe[j].regs[m] # 0 /\ pipe'[j] = pipe[j]
        BY <1>6, <2>4, <3>1
      <4>2. /\ redis[m].gen < pipe[j].regs[m]
            /\ \A i \in 1 .. j - 1 : pipe[i].regs[m] < pipe[j].regs[m]
        BY <1>4, <1>7, <3>1, <4>1 DEF Gens
      <4>3. \A i \in 1 .. j - 1 : pipe'[i] = pipe[i]
        BY <1>6, <1>7, <3>1
      <4>. QED
        BY <4>1, <4>2, <4>3
    <3>2. CASE j = Len(pipe) + 1
      <4>1. pipe'[j].regs[m] = clock + 1
        BY <1>2, <1>6, <2>4, <3>2
      <4>2. redis[m].gen < clock + 1
        BY <1>4, <1>5, EntryFacts DEF Gens
      <4>3. ASSUME NEW i \in 1 .. j - 1
            PROVE  pipe'[i].regs[m] < clock + 1
        <5>1. i \in 1 .. Len(pipe)
          BY <1>7, <3>2
        <5>2. pipe'[i].regs[m] <= clock /\ pipe'[i].regs[m] \in Nat
          BY <1>4, <1>6, <1>7, <5>1 DEF Gens
        <5>. QED
          BY <1>5, <5>2
      <4>. QED
        BY <4>1, <4>2, <4>3
    <3>. QED
      BY <1>7, <3>1, <3>2
  <2>. QED
    BY <1>2, <1>4, <2>1, <2>2, <2>3, <2>4 DEF Gens
<1>9. Commands'
  <2>1. \A i \in 1 .. Len(pipe) : pipe[i].live => pipe[i].sock # s
    BY <1>2, <1>4, <1>7 DEF Commands, Busy
  <2>2. ASSUME NEW i \in DOMAIN pipe'
        PROVE  /\ client'[pipe'[i].sock].state # "new"
               /\ pipe'[i].live => /\ life'[pipe'[i].sock].at = "wait"
                                   /\ life'[pipe'[i].sock].sent = pipe'[i].regs
                                   /\ pipe'[i].op = CommandOf(life'[pipe'[i].sock])
               /\ ~pipe'[i].live => \A m \in Methods(pipe'[i].regs) :
                                      <<pipe'[i].sock, m, pipe'[i].regs[m]>> \in uncertain'
    <3>1. CASE i \in 1 .. Len(pipe)
      <4>1. PICK x \in Socket : x = pipe[i].sock
        BY <1>7, <3>1
      <4>2. /\ client[x].state # "new"
            /\ pipe[i].live => /\ life[x].at = "wait" /\ life[x].sent = pipe[i].regs
                               /\ pipe[i].op = CommandOf(life[x])
            /\ ~pipe[i].live => \A m \in Methods(pipe[i].regs) :
                                   <<x, m, pipe[i].regs[m]>> \in uncertain
        BY <1>4, <1>7, <3>1, <4>1 DEF Commands
      <4>3. pipe'[i] = pipe[i] /\ (pipe[i].live => life'[x] = life[x])
        BY <1>3, <1>6, <2>1, <3>1, <4>1
      <4>. QED
        BY <1>2, <4>1, <4>2, <4>3
    <3>2. CASE i = Len(pipe) + 1
      BY <1>2, <1>3, <1>6, <3>2
    <3>. QED
      BY <1>7, <3>1, <3>2
  <2>3. ASSUME NEW i \in DOMAIN pipe', NEW j \in DOMAIN pipe',
               pipe'[i].live, pipe'[j].live, pipe'[i].sock = pipe'[j].sock
        PROVE  i = j
    <3>1. CASE i \in 1 .. Len(pipe) /\ j \in 1 .. Len(pipe)
      BY <1>4, <1>6, <1>7, <2>3, <3>1 DEF Commands
    <3>2. CASE i = Len(pipe) + 1 \/ j = Len(pipe) + 1
      BY <1>2, <1>6, <1>7, <2>1, <2>3, <3>2
    <3>. QED
      BY <1>7, <3>1, <3>2
  <2>. QED
    BY <2>2, <2>3 DEF Commands
<1>10. Entries'
  <2>1. SUFFICES ASSUME NEW m \in Method, Sure(m)
                 PROVE  Tended(life'[redis[m].sock], m, redis[m].gen)
    BY <1>2 DEF Entries, Sure
  <2>2. PICK x \in Socket, g \in Nat : x = redis[m].sock /\ g = redis[m].gen /\ g # 0
    BY <1>4, <2>1, EntryFacts DEF Sure
  <2>3. Tended(life[x], m, g)
    BY <1>4, <2>1, <2>2 DEF Entries
  <2>4. CASE x = s
    <3>1. Tended(q, m, g)
      BY <1>1, <2>2, <2>3, <2>4 DEF Keeps
    <3>. QED
      BY <1>3, <2>2, <2>4, <3>1
  <2>5. CASE x # s
    BY <1>3, <2>2, <2>3, <2>5
  <2>. QED
    BY <2>4, <2>5
<1>. QED
  BY <1>3, <1>5, <1>6, <1>8, <1>9, <1>10 DEF Registry

\* What a command makes of one key.
LEMMA ExecutedFacts ==
    ASSUME Types, Gens, NEW c \in Command, NEW m \in Method, NEW e, e = Executed(c, m),
           NEW d, d = [sock |-> c.sock, gen |-> c.regs[m]]
    PROVE  /\ d \in Entry /\ d.sock = c.sock /\ d.gen = c.regs[m]
           /\ e \in Entry
           /\ c.regs[m] = 0 => e = redis[m]
           /\ c.regs[m] # 0 /\ c.op = "set" => e = d
           /\ c.regs[m] # 0 /\ c.op = "refresh" =>
                e = IF redis[m] = Absent \/ redis[m].gen < d.gen THEN d ELSE redis[m]
           /\ c.regs[m] # 0 /\ c.op = "delete" =>
                e = IF redis[m] = d THEN Absent ELSE redis[m]
<1>1. c.sock \in Socket /\ c.regs[m] \in Nat /\ c.op \in {"set", "refresh", "delete"}
  BY DEF Command
<1>2. d \in Entry /\ d.sock = c.sock /\ d.gen = c.regs[m]
  BY <1>1 DEF Entry
<1>3. redis[m] \in Entry /\ Absent \in Entry
  BY EntryFacts DEF Entry, Absent
<1>4. /\ c.regs[m] = 0 => e = redis[m]
      /\ c.regs[m] # 0 /\ c.op = "set" => e = d
      /\ c.regs[m] # 0 /\ c.op = "refresh" =>
           e = IF redis[m] = Absent \/ redis[m].gen < d.gen THEN d ELSE redis[m]
      /\ c.regs[m] # 0 /\ c.op = "delete" =>
           e = IF redis[m] = d THEN Absent ELSE redis[m]
  <2>1. e = IF c.regs[m] = 0 THEN redis[m]
            ELSE CASE c.op = "set"      -> d
                   [] c.op = "refresh"  -> RefreshEntry(redis[m], d)
                   [] c.op = "delete"   -> DeleteEntry(redis[m], d)
    BY DEF Executed
  <2>2. /\ c.regs[m] = 0 => e = redis[m]
        /\ c.regs[m] # 0 /\ c.op = "set" => e = d
        /\ c.regs[m] # 0 /\ c.op = "refresh" => e = RefreshEntry(redis[m], d)
        /\ c.regs[m] # 0 /\ c.op = "delete" => e = DeleteEntry(redis[m], d)
    BY <2>1
  <2>. QED
    BY <2>2 DEF RefreshEntry, DeleteEntry
<1>. QED
  BY <1>1, <1>2, <1>3, <1>4

\* The command at the head of the pipe, and what is behind it.
LEMMA HeadFacts ==
    ASSUME Types, pipe # <<>>
    PROVE  /\ Head(pipe) = pipe[1] /\ 1 \in DOMAIN pipe /\ Head(pipe) \in Command
           /\ Tail(pipe) \in Seq(Command)
           /\ \A i \in DOMAIN Tail(pipe) :
                i \in Nat /\ i + 1 \in DOMAIN pipe /\ i + 1 # 1 /\ Tail(pipe)[i] = pipe[i + 1]
<1>1. pipe \in Seq(Command)
  BY DEF Types
<1>2. /\ Head(pipe) \in Command /\ Tail(pipe) \in Seq(Command)
      /\ Len(Tail(pipe)) = Len(pipe) - 1
      /\ \A i \in 1 .. Len(Tail(pipe)) : Tail(pipe)[i] = pipe[i + 1]
  BY <1>1, HeadTailProperties
<1>3. /\ Len(pipe) \in Nat \ {0} /\ DOMAIN pipe = 1 .. Len(pipe)
      /\ DOMAIN Tail(pipe) = 1 .. Len(Tail(pipe))
  BY <1>1, <1>2, LenProperties, EmptySeq
<1>4. Head(pipe) = pipe[1]
  BY <1>1, HeadTailProperties
<1>. QED
  BY <1>2, <1>3, <1>4

\* The execution of a command as a step of its socket, if that still waits.
LEMMA ExecuteStep ==
    ASSUME Types, Sockets, Commands, Execute, NEW c \in Command, c = Head(pipe)
    PROVE  /\ ~c.live => life' = life
           /\ c.live => \E q : /\ SocketStep(c.sock, q)
                               /\ q.held = life[c.sock].held /\ q.sent = life[c.sock].sent
                               /\ q.tail = life[c.sock].tail /\ q.at = "replied"
                               /\ q.kept = {m \in Methods(c.regs) :
                                      redis'[m] = [sock |-> c.sock, gen |-> c.regs[m]]}
<1>1. life' = IF c.live
              THEN [life EXCEPT ![c.sock].at = "replied",
                                ![c.sock].kept = {m \in Methods(c.regs) :
                                         redis'[m] = [sock |-> c.sock, gen |-> c.regs[m]]}]
              ELSE life
  BY Zenon DEF Execute
<1>2. client' = client /\ pipe # <<>>
  BY DEF Execute
<1>3. ASSUME c.live
      PROVE  \E q : /\ SocketStep(c.sock, q)
                    /\ q.held = life[c.sock].held /\ q.sent = life[c.sock].sent
                    /\ q.tail = life[c.sock].tail /\ q.at = "replied"
                    /\ q.kept = {m \in Methods(c.regs) :
                           redis'[m] = [sock |-> c.sock, gen |-> c.regs[m]]}
  <2>1. PICK s \in Socket : s = c.sock
    BY DEF Command
  <2>2. PICK l \in Lifecycle : l = life[s]
    BY SocketFacts
  <2>3. Proper(l, client[s]) /\ Works(l) /\ Small(l.held) /\ (l.timer => ~l.closing)
    BY <2>2, SocketFacts DEF Proper, Closes
  <2>4. l.at = "wait"
    BY <1>2, <1>3, <2>1, <2>2, HeadFacts DEF Commands
  <2>5. PICK K : K = {m \in Methods(c.regs) : redis'[m] = [sock |-> c.sock, gen |-> c.regs[m]]}
    OBVIOUS
  <2>6. K \in SUBSET Method
    BY <2>5 DEF Methods
  <2>7. PICK q : q = [l EXCEPT !.at = "replied", !.kept = K]
    OBVIOUS
  <2>8. life' = [life EXCEPT ![s] = q]
    BY <1>1, <1>3, <2>1, <2>2, <2>5, <2>7, Zenon
  <2>9. /\ q \in Lifecycle
        /\ q.held = l.held /\ q.timer = l.timer /\ q.closing = l.closing
        /\ q.at = "replied" /\ q.sent = l.sent /\ q.tail = l.tail /\ q.kept = K
    BY <2>6, <2>7 DEF Lifecycle
  <2>10. l.tail # <<>>
    BY <2>3, <2>4 DEF Works
  <2>11. Works(q)
    <3>1. Busy(q) /\ Busy(l) /\ Op(q) = Op(l) /\ Head(q.tail) = Head(l.tail)
      BY <2>4, <2>9 DEF Busy, Op
    <3>2. \A m : AtLimit(q, m) = AtLimit(l, m)
      BY <2>9 DEF AtLimit
    <3>. QED
      BY <2>3, <2>4, <2>9, <2>10, <3>1, <3>2 DEF Works
  <2>12. Proper(q, client[s])
    BY <2>3, <2>9, <2>10, <2>11, OngoingProper
  <2>13. SocketStep(s, q)
    BY <1>2, <2>8, <2>9, <2>12, StepOf
  <2>. QED
    BY <2>1, <2>2, <2>5, <2>9, <2>13
<1>. QED
  BY <1>1, <1>3

\* Redis executes a command.
LEMMA ExecuteInv ==
    ASSUME Types, Sockets, Registry, Execute
    PROVE  /\ Sockets' /\ Registry'
           /\ redis' \in [Method -> Entry] /\ pipe' \in Seq(Command)
           /\ life' \in [Socket -> Lifecycle]
           /\ \A m \in Method : redis[m] # Absent /\ redis'[m] \notin {Absent, redis[m]}
                                => redis'[m].gen > redis[m].gen
<1>1. Gens /\ Commands /\ Entries
  BY DEF Registry
<1>2. /\ pipe # <<>> /\ pipe' = Tail(pipe) /\ clock' = clock /\ owner' = owner
      /\ client' = client /\ uncertain' = uncertain
  BY DEF Execute, ownerVars
<1>3. PICK c \in Command : c = Head(pipe)
  BY <1>2, HeadFacts
<1>4. redis' = [m \in Method |-> Executed(c, m)]
  BY <1>3, Zenon DEF Execute
<1>5. PICK s \in Socket : s = c.sock
  BY DEF Command
<1>6. c.regs \in [Method -> Nat] /\ c.op \in {"set", "refresh", "delete"}
  BY DEF Command
<1>7. /\ pipe[1] = c /\ 1 \in DOMAIN pipe /\ pipe' \in Seq(Command)
      /\ \A i \in DOMAIN pipe' :
           i \in Nat /\ i + 1 \in DOMAIN pipe /\ i + 1 # 1 /\ pipe'[i] = pipe[i + 1]
  BY <1>2, <1>3, HeadFacts
<1>8. /\ client[s].state # "new"
      /\ c.live => life[s].at = "wait" /\ life[s].sent = c.regs /\ c.op = CommandOf(life[s])
      /\ ~c.live => \A m \in Methods(c.regs) : <<s, m, c.regs[m]>> \in uncertain
  BY <1>1, <1>5, <1>7 DEF Commands
<1>9. /\ Sockets' /\ life' \in [Socket -> Lifecycle]
      /\ ~c.live => life' = life
      /\ \A x \in Socket : x # s => life'[x] = life[x]
      /\ life'[s].held = life[s].held /\ life'[s].sent = life[s].sent
      /\ c.live => /\ Op(life'[s]) = Op(life[s]) /\ life'[s].at = "replied"
                   /\ \A m \in Method : c.regs[m] # 0
                          /\ redis'[m] = [sock |-> s, gen |-> c.regs[m]] => m \in life'[s].kept
  <2>1. CASE ~c.live
    <3>1. life' = life
      BY <1>1, <1>3, <2>1, ExecuteStep
    <3>. QED
      BY <1>2, <2>1, <3>1 DEF Sockets, Types, Asks
  <2>2. CASE c.live
    <3>1. PICK q : /\ SocketStep(s, q)
                   /\ q.held = life[s].held /\ q.sent = life[s].sent
                   /\ q.tail = life[s].tail /\ q.at = "replied"
                   /\ q.kept = {m \in Methods(c.regs) :
                          redis'[m] = [sock |-> s, gen |-> c.regs[m]]}
      BY <1>1, <1>3, <1>5, <2>2, ExecuteStep
    <3>2. /\ Sockets' /\ life' \in [Socket -> Lifecycle]
          /\ life'[s] = q /\ \A x \in Socket : x # s => life'[x] = life[x]
      BY <1>2, <3>1, SocketsStep
    <3>3. \A m \in Method : c.regs[m] # 0
              /\ redis'[m] = [sock |-> s, gen |-> c.regs[m]] => m \in q.kept
      BY <3>1 DEF Methods
    <3>. QED
      BY <2>2, <3>1, <3>2, <3>3 DEF Op
  <2>. QED
    BY <2>1, <2>2
<1>10. ASSUME NEW m \in Method
       PROVE  /\ redis'[m] \in Entry
              /\ c.regs[m] = 0 => redis'[m] = redis[m]
              /\ c.regs[m] # 0 =>
                   \/ /\ redis'[m] = [sock |-> s, gen |-> c.regs[m]]
                      /\ redis'[m].sock = s /\ redis'[m].gen = c.regs[m]
                      /\ c.op \in {"set", "refresh"}
                      /\ redis[m] # Absent => redis[m].gen < c.regs[m]
                   \/ redis'[m] = Absent
                   \/ /\ redis'[m] = redis[m] /\ c.op \in {"refresh", "delete"}
                      /\ redis[m].sock = s /\ redis[m].gen = c.regs[m] =>
                           c.op = "refresh" /\ redis'[m] = [sock |-> s, gen |-> c.regs[m]]
  <2>1. PICK d : d = [sock |-> c.sock, gen |-> c.regs[m]]
    OBVIOUS
  <2>2. PICK e : e = Executed(c, m)
    OBVIOUS
  <2>3. redis'[m] = e
    BY <1>4, <2>2
  <2>4. /\ d \in Entry /\ d.sock = c.sock /\ d.gen = c.regs[m]
        /\ e \in Entry
        /\ c.regs[m] = 0 => e = redis[m]
        /\ c.regs[m] # 0 /\ c.op = "set" => e = d
        /\ c.regs[m] # 0 /\ c.op = "refresh" =>
             e = IF redis[m] = Absent \/ redis[m].gen < d.gen THEN d ELSE redis[m]
        /\ c.regs[m] # 0 /\ c.op = "delete" =>
             e = IF redis[m] = d THEN Absent ELSE redis[m]
    BY <1>1, <2>1, <2>2, ExecutedFacts
  <2>5. c.op = "set" /\ c.regs[m] # 0 => redis[m].gen < c.regs[m]
    BY <1>1, <1>7 DEF Gens
  <2>6. redis[m].sock = s /\ redis[m].gen = c.regs[m] => redis[m] = d
    BY <1>1, <1>5, <2>1, EntryFacts DEF Entry
  <2>7. CASE c.op = "set"
    BY <1>5, <2>1, <2>3, <2>4, <2>5, <2>7
  <2>8. CASE c.op = "refresh"
    BY <1>5, <2>1, <2>3, <2>4, <2>6, <2>8
  <2>9. CASE c.op = "delete"
    BY <1>5, <2>1, <2>3, <2>4, <2>6, <2>9
  <2>. QED
    BY <1>6, <2>7, <2>8, <2>9
<1>11. redis' \in [Method -> Entry]
  BY <1>4, <1>10
<1>12. \A m \in Method : redis[m] # Absent /\ redis'[m] \notin {Absent, redis[m]}
                         => redis'[m].gen > redis[m].gen
  BY <1>1, <1>6, <1>10, EntryFacts
<1>13. Gens'
  <2>1. ASSUME NEW m \in Method
        PROVE  /\ redis'[m].gen <= clock /\ (redis'[m].sock = None <=> redis'[m].gen = 0)
               /\ redis'[m] # Absent => client[redis'[m].sock].state # "new"
    <3>1. c.regs[m] <= clock /\ s # None
      BY <1>1, <1>7, RegistryAssumption DEF Gens
    <3>2. /\ redis[m].gen <= clock /\ (redis[m].sock = None <=> redis[m].gen = 0)
          /\ redis[m] # Absent => client[redis[m].sock].state # "new"
      BY <1>1 DEF Gens
    <3>3. Absent.gen = 0 /\ Absent.sock = None /\ clock \in Nat
      BY DEF Absent, Types
    <3>4. CASE redis'[m] = redis[m]
      BY <3>2, <3>4
    <3>5. CASE redis'[m] = Absent
      BY <3>3, <3>5
    <3>6. CASE c.regs[m] # 0 /\ redis'[m].sock = s /\ redis'[m].gen = c.regs[m]
      BY <1>8, <3>1, <3>6
    <3>. QED
      BY <1>10, <3>4, <3>5, <3>6
  <2>2. ASSUME NEW m \in Method, NEW x \in Socket
        PROVE  life'[x].held[m] <= clock /\ life'[x].sent[m] <= clock
    <3>1. life[x].held[m] <= clock /\ life[x].sent[m] <= clock
      BY <1>1 DEF Gens
    <3>. QED
      BY <1>9, <3>1
  <2>3. ASSUME NEW m \in Method, NEW i \in DOMAIN pipe'
        PROVE  pipe'[i].regs[m] <= clock
    BY <1>1, <1>7 DEF Gens
  <2>4. ASSUME NEW m \in Method, NEW j \in DOMAIN pipe', pipe'[j].op = "set",
               pipe'[j].regs[m] # 0
        PROVE  /\ redis'[m].gen < pipe'[j].regs[m]
               /\ \A i \in 1 .. j - 1 : pipe'[i].regs[m] < pipe'[j].regs[m]
    <3>1. /\ j \in Nat /\ j + 1 \in DOMAIN pipe /\ pipe'[j] = pipe[j + 1] /\ j + 1 # 1
          /\ pipe[j + 1].regs[m] \in Nat /\ DOMAIN pipe' = 1 .. Len(pipe') /\ Len(pipe') \in Nat
      BY <1>7, PipeFacts, LenProperties
    <3>2. /\ redis[m].gen < pipe[j + 1].regs[m]
          /\ \A i \in 1 .. j : pipe[i].regs[m] < pipe[j + 1].regs[m]
      BY <1>1, <2>4, <3>1 DEF Gens
    <3>3. c.regs[m] < pipe[j + 1].regs[m]
      BY <1>7, <3>1, <3>2
    <3>4. Absent.gen = 0
      BY DEF Absent
    <3>5. redis'[m].gen < pipe[j + 1].regs[m]
      <4>1. \/ redis'[m] = redis[m] \/ redis'[m] = Absent
            \/ redis'[m].gen = c.regs[m]
        BY <1>10
      <4>2. 0 < pipe[j + 1].regs[m]
        BY <2>4, <3>1
      <4>. QED
        BY <3>2, <3>3, <3>4, <4>1, <4>2
    <3>6. ASSUME NEW i \in 1 .. j - 1
          PROVE  pipe'[i].regs[m] < pipe'[j].regs[m]
      <4>1. i \in DOMAIN pipe' /\ i + 1 \in 1 .. j
        BY <3>1
      <4>. QED
        BY <1>7, <3>1, <3>2, <4>1
    <3>. QED
      BY <3>1, <3>5, <3>6
  <2>. QED
    BY <1>2, <2>1, <2>2, <2>3, <2>4 DEF Gens
<1>14. Commands'
  <2>1. ASSUME NEW i \in DOMAIN pipe'
        PROVE  /\ client[pipe'[i].sock].state # "new"
               /\ pipe'[i].live => /\ life'[pipe'[i].sock].at = "wait"
                                   /\ life'[pipe'[i].sock].sent = pipe'[i].regs
                                   /\ pipe'[i].op = CommandOf(life'[pipe'[i].sock])
               /\ ~pipe'[i].live => \A m \in Methods(pipe'[i].regs) :
                                      <<pipe'[i].sock, m, pipe'[i].regs[m]>> \in uncertain
    <3>1. PICK h \in DOMAIN pipe : h = i + 1 /\ h # 1 /\ pipe'[i] = pipe[h]
      BY <1>7
    <3>2. PICK x \in Socket : x = pipe[h].sock
      BY PipeFacts
    <3>3. /\ client[x].state # "new"
          /\ pipe[h].live => /\ life[x].at = "wait" /\ life[x].sent = pipe[h].regs
                             /\ pipe[h].op = CommandOf(life[x])
          /\ ~pipe[h].live => \A m \in Methods(pipe[h].regs) :
                                 <<x, m, pipe[h].regs[m]>> \in uncertain
      BY <1>1, <3>2 DEF Commands
    <3>4. pipe[h].live => life'[x] = life[x]
      <4>1. pipe[h].live /\ c.live => x # s
        BY <1>1, <1>5, <1>7, <3>1, <3>2 DEF Commands
      <4>. QED
        BY <1>9, <4>1
    <3>. QED
      BY <3>1, <3>2, <3>3, <3>4
  <2>2. ASSUME NEW i \in DOMAIN pipe', NEW j \in DOMAIN pipe',
               pipe'[i].live, pipe'[j].live, pipe'[i].sock = pipe'[j].sock
        PROVE  i = j
    <3>1. /\ i \in Nat /\ i + 1 \in DOMAIN pipe /\ pipe'[i] = pipe[i + 1]
          /\ j \in Nat /\ j + 1 \in DOMAIN pipe /\ pipe'[j] = pipe[j + 1]
      BY <1>7
    <3>2. i + 1 = j + 1
      BY <1>1, <2>2, <3>1 DEF Commands
    <3>. QED
      BY <3>1, <3>2
  <2>. QED
    BY <1>2, <2>1, <2>2 DEF Commands
<1>15. Entries'
  <2>1. SUFFICES ASSUME NEW m \in Method, Sure(m)'
                 PROVE  Tended(life'[redis'[m].sock], m, redis'[m].gen)
    BY DEF Entries
  <2>2. /\ redis'[m] # Absent /\ <<redis'[m].sock, m, redis'[m].gen>> \notin uncertain
        /\ redis'[m].sock \in Fenced => owner = redis'[m].sock
    BY <1>2, <2>1 DEF Sure
  <2>3. life[s].held[m] \in Nat /\ life[s].sent[m] \in Nat /\ c.regs[m] \in Nat
    BY <1>6, SocketFacts
  <2>4. CASE redis'[m] = redis[m]
    <3>1. Sure(m)
      BY <2>2, <2>4 DEF Sure
    <3>2. PICK x \in Socket, g \in Nat : x = redis[m].sock /\ g = redis[m].gen /\ g # 0
      BY <1>1, <2>2, <2>4, EntryFacts
    <3>3. Tended(life[x], m, g)
      BY <1>1, <3>1, <3>2 DEF Entries
    <3>4. CASE x # s \/ ~c.live
      BY <1>9, <2>4, <3>2, <3>3, <3>4
    <3>5. CASE x = s /\ c.live /\ c.regs[m] = 0
      <4>1. life[s].held[m] = g /\ life[s].sent[m] = 0
        BY <1>8, <3>2, <3>3, <3>5 DEF Tended
      <4>2. Tended(life'[s], m, g)
        BY <1>9, <4>1 DEF Tended
      <4>. QED
        BY <2>4, <3>2, <3>5, <4>2
    <3>6. CASE x = s /\ c.live /\ c.regs[m] # 0
      <4>1. /\ life[s].at = "wait" /\ life[s].sent = c.regs /\ c.op = CommandOf(life[s])
            /\ Works(life[s]) /\ Busy(life[s]) /\ life[s].tail # <<>>
            /\ Op(life[s]) \in {"register", "unregister", "refresh", "close"}
        BY <1>8, <3>6, SocketFacts DEF Works, Busy
      <4>2. life[s].held[m] = g \/ life[s].sent[m] = g
        BY <3>3, <3>6 DEF Tended
      <4>3. CASE redis[m].gen = c.regs[m]
        <5>1. /\ redis'[m] = [sock |-> s, gen |-> c.regs[m]]
              /\ c.op # "delete"
          BY <1>10, <2>2, <2>4, <3>2, <3>6, <4>3
        <5>2. m \in life'[s].kept
          BY <1>9, <3>6, <5>1
        <5>3. life'[s].sent[m] = g /\ life'[s].at = "replied" /\ g = c.regs[m]
          BY <1>9, <3>2, <3>6, <4>1, <4>3
        <5>4. life[s].held[m] = g \/ Op(life'[s]) = "register"
          BY <1>9, <3>6, <4>1, <4>2, <5>1, <5>3 DEF Works, CommandOf
        <5>5. Tended(life'[s], m, g)
          BY <1>9, <5>2, <5>3, <5>4 DEF Tended
        <5>. QED
          BY <2>4, <3>2, <3>6, <5>5
      <4>4. CASE redis[m].gen # c.regs[m]
        <5>1. life[s].sent[m] # g /\ life[s].held[m] = g
          BY <3>2, <4>1, <4>2, <4>4
        <5>2. Op(life[s]) = "register"
          BY <3>2, <3>6, <4>1, <5>1 DEF Works
        <5>3. c.op = "set"
          BY <4>1, <5>2 DEF CommandOf
        <5>. QED
          BY <1>10, <2>2, <2>4, <3>2, <3>6, <4>4, <5>3
      <4>. QED
        BY <4>3, <4>4
    <3>. QED
      BY <3>4, <3>5, <3>6
  <2>5. CASE redis'[m] # redis[m]
    <3>1. /\ c.regs[m] # 0 /\ redis'[m] = [sock |-> s, gen |-> c.regs[m]]
          /\ redis'[m].sock = s /\ redis'[m].gen = c.regs[m]
          /\ c.op \in {"set", "refresh"}
      BY <1>10, <2>2, <2>5
    <3>2. c.live
      BY <1>8, <2>2, <3>1 DEF Methods
    <3>3. /\ life[s].at = "wait" /\ life[s].sent = c.regs /\ c.op = CommandOf(life[s])
          /\ Works(life[s]) /\ Busy(life[s]) /\ life[s].tail # <<>>
          /\ Op(life[s]) \in {"register", "unregister", "refresh", "close"}
      BY <1>8, <3>2, SocketFacts DEF Works, Busy
    <3>4. Op(life[s]) = "register" \/ (Op(life[s]) = "refresh" /\ life[s].held = c.regs)
      BY <3>1, <3>3 DEF CommandOf, Works
    <3>5. m \in life'[s].kept /\ life'[s].sent[m] = c.regs[m] /\ life'[s].at = "replied"
      BY <1>9, <3>1, <3>2, <3>3
    <3>6. Tended(life'[s], m, c.regs[m])
      BY <1>9, <3>2, <3>4, <3>5 DEF Tended
    <3>. QED
      BY <3>1, <3>6
  <2>. QED
    BY <2>4, <2>5
<1>. QED
  BY <1>7, <1>9, <1>11, <1>12, <1>13, <1>14, <1>15 DEF Registry

\* Entries may vanish.
LEMMA DropInv ==
    ASSUME Types, Sockets, Registry, NEW n \in Method, redis' = [redis EXCEPT ![n] = Absent],
           UNCHANGED <<pipe, clock, owner, life, client, uncertain>>
    PROVE  Sockets' /\ Registry' /\ redis' \in [Method -> Entry]
<1>1. Gens /\ Commands /\ Entries
  BY DEF Registry
<1>2. Absent \in Entry /\ Absent.sock = None /\ Absent.gen = 0
  BY DEF Absent, Entry
<1>3. redis' \in [Method -> Entry] /\ \A m \in Method : redis'[m] = Absent \/ redis'[m] = redis[m]
  BY <1>2 DEF Types
<1>4. Sockets'
  BY DEF Sockets, Asks
<1>5. Gens'
  <2>1. ASSUME NEW m \in Method
        PROVE  /\ redis'[m].gen <= clock /\ (redis'[m].sock = None <=> redis'[m].gen = 0)
               /\ redis'[m] # Absent => client[redis'[m].sock].state # "new"
    <3>1. /\ redis[m].gen <= clock /\ (redis[m].sock = None <=> redis[m].gen = 0)
          /\ redis[m] # Absent => client[redis[m].sock].state # "new"
      BY <1>1 DEF Gens
    <3>2. clock \in Nat
      BY DEF Types
    <3>. QED
      BY <1>2, <1>3, <3>1, <3>2
  <2>2. ASSUME NEW m \in Method, NEW j \in DOMAIN pipe, pipe[j].op = "set", pipe[j].regs[m] # 0
        PROVE  redis'[m].gen < pipe[j].regs[m]
    <3>1. redis[m].gen < pipe[j].regs[m]
      BY <1>1, <2>2 DEF Gens
    <3>2. pipe[j].regs[m] \in Nat
      BY PipeFacts
    <3>. QED
      BY <1>2, <1>3, <2>2, <3>1, <3>2
  <2>. QED
    BY <1>1, <2>1, <2>2 DEF Gens
<1>6. Commands'
  BY <1>1 DEF Commands
<1>7. Entries'
  BY <1>1, <1>3 DEF Entries, Sure
<1>. QED
  BY <1>3, <1>4, <1>5, <1>6, <1>7 DEF Registry

\* Only a new socket gains ownership: its handshake claims the session.
LEMMA OwnerInv ==
    ASSUME Types, Sockets, Registry, UNCHANGED <<redis, pipe, clock, life, uncertain>>,
           client' \in [Socket -> Client],
           \A x \in Socket : client'[x].state = "new" => client[x].state = "new",
           \A x \in Socket : Proper(life[x], client'[x]),
           \A x \in Socket : owner' = x => owner = x \/ client[x].state = "new"
    PROVE  Sockets' /\ Registry'
<1>1. Gens /\ Commands /\ Entries
  BY DEF Registry
<1>2. ASSUME NEW x \in Socket
      PROVE  Asks(x)'
  <2>1. Asks(x) /\ Proper(life[x], client[x])
    BY DEF Sockets
  <2>2. client[x].state = "new" => life[x].at = "idle"
    BY <2>1 DEF Proper, Works
  <2>. QED
    BY <2>1, <2>2 DEF Asks
<1>3. Sockets'
  BY <1>2 DEF Sockets
<1>4. Gens'
  BY <1>1, EntryFacts DEF Gens
<1>5. Commands'
  <2>1. ASSUME NEW i \in DOMAIN pipe
        PROVE  client'[pipe[i].sock].state # "new"
    BY <1>1, PipeFacts DEF Commands
  <2>. QED
    BY <1>1, <2>1 DEF Commands
<1>6. Entries'
  <2>1. SUFFICES ASSUME NEW m \in Method, Sure(m)'
                 PROVE  Tended(life[redis[m].sock], m, redis[m].gen)
    BY DEF Entries
  <2>2. redis[m] # Absent /\ redis[m].sock \in Socket
    BY <1>1, <2>1, EntryFacts DEF Sure
  <2>3. client[redis[m].sock].state # "new"
    BY <1>1, <2>2 DEF Gens
  <2>4. Sure(m)
    BY <2>1, <2>2, <2>3 DEF Sure
  <2>. QED
    BY <1>1, <2>4 DEF Entries
<1>. QED
  BY <1>3, <1>4, <1>5, <1>6 DEF Registry

\* A handshake.
LEMMA ConnectInv ==
    ASSUME Types, Sockets, Registry, NEW s \in Socket, Connect(s)
    PROVE  Sockets' /\ Registry' /\ client' \in [Socket -> Client]
           /\ owner' \in Fenced \union {None}
<1>1. PICK k \in Client : k = client[s]
  BY SocketFacts
<1>2. PICK j : j = [k EXCEPT !.state = "up"]
  OBVIOUS
<1>3. j \in Client /\ j.state = "up" /\ j.wants = k.wants
  BY <1>2 DEF Client
<1>4. /\ k.state = "new" /\ client' = [client EXCEPT ![s] = j]
      /\ UNCHANGED <<redis, pipe, clock, life, uncertain>>
  <2>1. client' = [client EXCEPT ![s] = [client[s] EXCEPT !.state = "up"]]
    BY Zenon DEF Connect
  <2>. QED
    BY <1>1, <1>2, <2>1 DEF Connect, registryVars
<1>5. owner' = owner \/ (s \in Fenced /\ owner' = s)
  BY DEF Connect
<1>6. client' \in [Socket -> Client] /\ client'[s] = j /\ \A x \in Socket : x # s => client'[x] = client[x]
  BY <1>3, <1>4 DEF Types
<1>7. Proper(life[s], k)
  BY <1>1, SocketFacts
<1>8. Proper(life[s], j)
  BY <1>3, <1>4, <1>7 DEF Proper, Closes
<1>9. ASSUME NEW x \in Socket
      PROVE  /\ Proper(life[x], client'[x])
             /\ client'[x].state = "new" => client[x].state = "new"
             /\ owner' = x => owner = x \/ client[x].state = "new"
  BY <1>1, <1>3, <1>4, <1>5, <1>6, <1>8, SocketFacts
<1>10. Sockets' /\ Registry'
  BY <1>4, <1>6, <1>9, OwnerInv
<1>. QED
  BY <1>5, <1>6, <1>10 DEF Types

\* A lease ends.
LEMMA LeaseEndsInv ==
    ASSUME Types, Sockets, Registry, LeaseEnds
    PROVE  Sockets' /\ Registry'
<1>1. owner' = None /\ UNCHANGED <<redis, pipe, clock, life, client, uncertain>>
  BY DEF LeaseEnds, registryVars
<1>2. \A x \in Socket : owner' # x
  BY <1>1, RegistryAssumption
<1>3. \A x \in Socket : Proper(life[x], client'[x])
  BY <1>1 DEF Sockets
<1>4. client' \in [Socket -> Client]
  BY <1>1 DEF Types
<1>. QED
  BY <1>1, <1>2, <1>3, <1>4, OwnerInv

\* A lifecycle object without operations and registrations.
LEMMA EmptyProper ==
    ASSUME NEW q, NEW k \in Client, NEW z \in BOOLEAN, z => k.state = "down",
           q = [NewLife EXCEPT !.closing = z]
    PROVE  /\ Proper(q, k) /\ q.at = "idle"
           /\ q.held = NoRegistrations /\ q.sent = NoRegistrations
<1>1. PICK n \in [Method -> Nat] : n = NoRegistrations
  BY NoRegistrationsType
<1>2. PICK y \in BOOLEAN : y = FALSE
  OBVIOUS
<1>3. PICK t : t = <<>>
  OBVIOUS
<1>4. t \in Seq(Operation) /\ Len(t) = 0
  BY <1>3, EmptySeq
<1>5. q = [[held |-> n, cancelled |-> {}, tail |-> t, closing |-> y,
            timer |-> y, at |-> "idle", saw |-> y, sent |-> n, kept |-> {}]
             EXCEPT !.closing = z]
  BY <1>1, <1>2, <1>3, Zenon DEF NewLife
<1>6. /\ q \in Lifecycle /\ q.held = n /\ q.tail = t /\ q.closing = z /\ q.timer = y
      /\ q.at = "idle" /\ q.sent = n
  BY <1>4, <1>5 DEF Lifecycle
<1>7. DOMAIN t = {}
  BY <1>4, LenProperties
<1>8. Small(n)
  <2>1. Methods(n) = {}
    BY <1>1 DEF Methods, NoRegistrations
  <2>. QED
    BY <2>1, FS_EmptySet, RegistryAssumption DEF Small
<1>9. Obeys(q.held, q.tail, k.wants)
  BY <1>1, <1>6, <1>7 DEF Obeys, NoRegister, NoRegistrations
<1>10. Closes(q, k)
  BY <1>1, <1>2, <1>3, <1>6, <1>7 DEF Closes
<1>11. Works(q)
  BY <1>1, <1>3, <1>6 DEF Works, Busy
<1>. QED
  BY <1>1, <1>2, <1>3, <1>6, <1>8, <1>9, <1>10, <1>11 DEF Proper

\* The process dies: no queue, no command and no certainty is left.
LEMMA CrashInv ==
    ASSUME Types, Sockets, Registry, Crash
    PROVE  /\ Sockets' /\ Registry' /\ pipe' \in Seq(Command)
           /\ life' \in [Socket -> Lifecycle] /\ client' \in [Socket -> Client]
           /\ uncertain' \subseteq Socket \X Method \X Nat
<1>1. PICK gone : gone = [NewLife EXCEPT !.closing = TRUE]
  OBVIOUS
<1>2. /\ client' = [s \in Socket |->
           IF client[s].state = "up" THEN [client[s] EXCEPT !.state = "down"] ELSE client[s]]
      /\ life' = [s \in Socket |-> IF client[s].state = "new" THEN life[s] ELSE gone]
      /\ uncertain' = uncertain \union
           {<<redis[m].sock, m, redis[m].gen>> : m \in {n \in Method : redis[n] # Absent}}
      /\ pipe' = <<>>
      /\ redis' = redis /\ clock' = clock /\ owner' = owner
  BY <1>1, Zenon DEF Crash
<1>3. Gens /\ Commands /\ Entries
  BY DEF Registry
<1>4. ASSUME NEW s \in Socket
      PROVE  /\ client'[s] \in Client
             /\ client'[s].state = "new" <=> client[s].state = "new"
             /\ client[s].state # "new" => client'[s].state = "down"
             /\ client[s].state = "new" => client'[s] = client[s] /\ life'[s] = life[s]
             /\ client[s].state # "new" => life'[s] = gone
  <2>1. PICK k \in Client : k = client[s]
    BY SocketFacts
  <2>2. client'[s] = (IF k.state = "up" THEN [k EXCEPT !.state = "down"] ELSE k)
    BY <1>2, <2>1
  <2>3. life'[s] = (IF k.state = "new" THEN life[s] ELSE gone)
    BY <1>2, <2>1
  <2>. QED
    BY <2>1, <2>2, <2>3 DEF Client
<1>5. ASSUME NEW s \in Socket
      PROVE  /\ Proper(life'[s], client'[s]) /\ Asks(s)' /\ life'[s] \in Lifecycle
             /\ \A m \in Method : life'[s].held[m] <= clock /\ life'[s].sent[m] <= clock
  <2>1. CASE client[s].state = "new"
    <3>1. life'[s] = life[s] /\ client'[s] = client[s]
      BY <1>4, <2>1
    <3>2. Proper(life[s], client[s]) /\ Asks(s) /\ life[s] \in Lifecycle
      BY SocketFacts
    <3>3. \A m \in Method : life[s].held[m] <= clock /\ life[s].sent[m] <= clock
      BY <1>3 DEF Gens
    <3>. QED
      BY <1>2, <3>1, <3>2, <3>3 DEF Asks
  <2>2. CASE client[s].state # "new"
    <3>1. life'[s] = gone /\ client'[s] \in Client /\ client'[s].state = "down"
      BY <1>4, <2>2
    <3>2. PICK k \in Client : k = client'[s]
      BY <3>1
    <3>3. PICK z \in BOOLEAN : z = TRUE
      OBVIOUS
    <3>4. gone = [NewLife EXCEPT !.closing = z]
      BY <1>1, <3>3, Zenon
    <3>5. /\ Proper(gone, k) /\ gone.at = "idle"
          /\ gone.held = NoRegistrations /\ gone.sent = NoRegistrations
      BY <3>1, <3>2, <3>4, EmptyProper
    <3>6. \A m \in Method : NoRegistrations[m] <= clock
      BY DEF NoRegistrations, Types
    <3>7. gone \in Lifecycle
      BY <3>5 DEF Proper
    <3>. QED
      BY <3>1, <3>2, <3>5, <3>6, <3>7 DEF Asks
  <2>. QED
    BY <2>1, <2>2
<1>6. life' \in [Socket -> Lifecycle] /\ client' \in [Socket -> Client]
  BY <1>2, <1>4, <1>5
<1>7. Sockets'
  BY <1>5 DEF Sockets
<1>8. pipe' \in Seq(Command) /\ DOMAIN pipe' = {}
  <2>1. <<>> \in Seq(Command) /\ Len(<<>>) = 0
    BY EmptySeq
  <2>2. DOMAIN <<>> = {}
    OBVIOUS
  <2>. QED
    BY <1>2, <2>1, <2>2
<1>9. Gens'
  <2>1. ASSUME NEW m \in Method
        PROVE  /\ redis[m].gen <= clock /\ (redis[m].sock = None <=> redis[m].gen = 0)
               /\ redis[m] # Absent => client'[redis[m].sock].state # "new"
    <3>1. /\ redis[m].gen <= clock /\ (redis[m].sock = None <=> redis[m].gen = 0)
          /\ redis[m] # Absent => client[redis[m].sock].state # "new"
      BY <1>3 DEF Gens
    <3>2. redis[m] # Absent => redis[m].sock \in Socket
      BY <1>3, EntryFacts
    <3>. QED
      BY <1>4, <3>1, <3>2
  <2>. QED
    BY <1>2, <1>5, <1>8, <2>1 DEF Gens
<1>10. Commands'
  BY <1>8 DEF Commands
<1>11. Entries'
  <2>1. SUFFICES ASSUME NEW m \in Method, redis[m] # Absent
                 PROVE  <<redis[m].sock, m, redis[m].gen>> \in uncertain'
    BY <1>2 DEF Entries, Sure
  <2>. QED
    BY <1>2, <2>1
<1>12. uncertain' \subseteq Socket \X Method \X Nat
  <2>1. ASSUME NEW m \in Method, redis[m] # Absent
        PROVE  <<redis[m].sock, m, redis[m].gen>> \in Socket \X Method \X Nat
    BY <1>3, <2>1, EntryFacts
  <2>2. uncertain \subseteq Socket \X Method \X Nat
    BY DEF Types
  <2>. QED
    BY <1>2, <2>1, <2>2
<1>. QED
  BY <1>6, <1>7, <1>8, <1>9, <1>10, <1>11, <1>12 DEF Registry

-----------------------------------------------------------------------------
(* The calls.                                                              *)

\* What Calls says of one call.
GoodCall(r) ==
    /\ r \in Call
    /\ r.at \in {"idle", "resolved", "asked"} => r.delivered = 0
    /\ r.delivered <= 1
    /\ r.at # "done" => r.outcome = "none"
    /\ r.outcome = "not_started" => r.delivered = 0
    /\ r.at \in {"resolved", "asked"} => r.target.sock \in Socket

\* Calls, call by call.
LEMMA CallsPointwise ==
    /\ Calls <=> call \in [Caller -> Call] /\ \A c \in Caller : GoodCall(call[c])
    /\ Calls' <=> call' \in [Caller -> Call] /\ \A c \in Caller : GoodCall(call'[c])
BY DEF Calls, GoodCall

\* A step of one call.
LEMMA OneCall ==
    ASSUME Calls, NEW c \in Caller, NEW r, GoodCall(r), call' = [call EXCEPT ![c] = r]
    PROVE  Calls'
<1>1. call \in [Caller -> Call] /\ \A x \in Caller : GoodCall(call[x])
  BY CallsPointwise
<1>2. r \in Call
  BY DEF GoodCall
<1>3. call' \in [Caller -> Call] /\ \A x \in Caller : GoodCall(call'[x])
  BY <1>1, <1>2
<1>. QED
  BY <1>3, CallsPointwise

\* An answer ends a call; not_started only one that has not been sent.
LEMMA AnswerCalls ==
    ASSUME Calls, NEW c \in Caller, NEW w \in {"plain", "not_started", "unknown", "ok"},
           w = "not_started" => call[c].at = "asked", Answer(c, w)
    PROVE  Calls'
<1>1. PICK k : k = call[c]
  OBVIOUS
<1>2. GoodCall(k)
  BY <1>1, CallsPointwise
<1>3. PICK r : r = [k EXCEPT !.at = "done", !.outcome = w]
  OBVIOUS
<1>4. call' = [call EXCEPT ![c] = r]
  BY <1>1, <1>3, Zenon DEF Answer
<1>5. GoodCall(r)
  BY <1>1, <1>2, <1>3 DEF GoodCall, Call
<1>. QED
  BY <1>4, <1>5, OneCall

\* The registry is read.
LEMMA ResolveCalls ==
    ASSUME Types, Calls, NEW c \in Caller, NEW m \in Method, Resolve(c, m)
    PROVE  Calls'
<1>1. PICK k : k = call[c]
  OBVIOUS
<1>2. GoodCall(k)
  BY <1>1, CallsPointwise
<1>3. k.delivered = 0
  BY <1>1, <1>2 DEF Resolve, MayCall, GoodCall
<1>4. PICK found \in BOOLEAN : found <=> redis[m].sock \notin {None, c}
  OBVIOUS
<1>5. PICK e : e = IF found THEN redis[m] ELSE Absent
  OBVIOUS
<1>6. e \in Entry /\ (found => e.sock \in Socket)
  <2>1. redis[m] \in Entry
    BY DEF Types
  <2>2. Absent \in Entry
    BY DEF Absent, Entry
  <2>. QED
    BY <1>4, <1>5, <2>1, <2>2 DEF Entry
<1>7. PICK a : a = IF found THEN "resolved" ELSE "done"
  OBVIOUS
<1>8. PICK w : w = IF found THEN "none" ELSE "plain"
  OBVIOUS
<1>9. PICK r : r = [k EXCEPT !.at = a, !.outcome = w, !.target = e, !.method = m]
  OBVIOUS
<1>10. call' = [call EXCEPT ![c] = r]
  <2>1. call' = [call EXCEPT ![c] =
             [call[c] EXCEPT !.at = IF redis[m].sock \notin {None, c} THEN "resolved" ELSE "done",
                       !.outcome = IF redis[m].sock \notin {None, c} THEN "none" ELSE "plain",
                       !.target = IF redis[m].sock \notin {None, c} THEN redis[m] ELSE Absent,
                       !.method = m]]
    BY Zenon DEF Resolve
  <2>2. /\ a = IF redis[m].sock \notin {None, c} THEN "resolved" ELSE "done"
        /\ w = IF redis[m].sock \notin {None, c} THEN "none" ELSE "plain"
        /\ e = IF redis[m].sock \notin {None, c} THEN redis[m] ELSE Absent
    BY <1>4, <1>5, <1>7, <1>8
  <2>. QED
    BY <1>1, <1>9, <2>1, <2>2, Zenon
<1>11. GoodCall(r)
  BY <1>2, <1>3, <1>6, <1>7, <1>8, <1>9 DEF GoodCall, Call
<1>. QED
  BY <1>10, <1>11, OneCall

\* The request of a call is emitted, at most once.
LEMMA SentIsGood ==
    ASSUME Calls, NEW c \in Caller, call[c].at \in {"resolved", "asked"},
           NEW z \in BOOLEAN, NEW d \in {0, 1}
    PROVE  GoodCall([call[c] EXCEPT !.at = "sent", !.received = z, !.delivered = d])
<1>1. PICK k : k = call[c]
  OBVIOUS
<1>2. GoodCall(k) /\ k.at \in {"resolved", "asked"}
  BY <1>1, CallsPointwise
<1>3. k \in Call /\ k.outcome = "none"
  BY <1>2 DEF GoodCall
<1>4. d \in Nat /\ d <= 1
  OBVIOUS
<1>5. PICK r : r = [k EXCEPT !.at = "sent", !.received = z, !.delivered = d]
  OBVIOUS
<1>6. r \in Call /\ r.at = "sent" /\ r.delivered = d /\ r.outcome = "none"
  BY <1>3, <1>4, <1>5 DEF Call
<1>7. GoodCall(r)
  BY <1>4, <1>6 DEF GoodCall
<1>. QED
  BY <1>1, <1>5, <1>7

\* The fence statement of a call takes its snapshot.
LEMMA AskOwnerCalls ==
    ASSUME Calls, NEW c \in Caller, AskOwner(c)
    PROVE  Calls'
<1>1. PICK k : k = call[c]
  OBVIOUS
<1>2. GoodCall(k) /\ k.at = "resolved"
  BY <1>1, CallsPointwise DEF AskOwner
<1>3. PICK z \in BOOLEAN : z = (owner = call[c].target.sock)
  OBVIOUS
<1>4. PICK r : r = [k EXCEPT !.at = "asked", !.saw = z]
  OBVIOUS
<1>5. call' = [call EXCEPT ![c] = r]
  BY <1>1, <1>3, <1>4, Zenon DEF AskOwner
<1>6. GoodCall(r)
  BY <1>2, <1>4 DEF GoodCall, Call
<1>. QED
  BY <1>5, <1>6, OneCall

\* An emit to the room of the target's socket ID.
LEMMA EmitToRoomCalls ==
    ASSUME Calls, NEW c \in Caller, EmitToRoom(c)
    PROVE  Calls'
<1>1. PICK z \in BOOLEAN : z = (client[call[c].target.sock].state = "up")
  OBVIOUS
<1>2. PICK n \in {0, 1} : n = IF client[call[c].target.sock].state = "up" THEN 1 ELSE 0
  OBVIOUS
<1>3. call[c].at \in {"resolved", "asked"}
  BY DEF EmitToRoom
<1>4. call[c].delivered = 0
  BY <1>3, CallsPointwise DEF GoodCall
<1>5. PICK d \in {0, 1} : d = call[c].delivered + n
  BY <1>4
<1>6. PICK r : r = [call[c] EXCEPT !.at = "sent", !.received = z, !.delivered = d]
  OBVIOUS
<1>7. call' = [call EXCEPT ![c] = r]
  BY <1>1, <1>2, <1>5, <1>6, Zenon DEF EmitToRoom
<1>8. GoodCall(r)
  BY <1>3, <1>6, SentIsGood, Zenon
<1>. QED
  BY <1>7, <1>8, OneCall

\* The fence of a call: an answer, or the request while the lock is held.
LEMMA OwnerAnswersCalls ==
    ASSUME Types, Calls, NEW c \in Caller, OwnerAnswers(c)
    PROVE  Calls' /\ lock' \in Fenced \union Caller \union {None}
<1>1. call[c].at = "asked" /\ lock \in Fenced \union Caller \union {None}
  BY DEF OwnerAnswers, Types
<1>2. CASE lock # None
  <2>1. Answer(c, "not_started") /\ lock' = lock
    BY <1>2 DEF OwnerAnswers
  <2>. QED
    BY <1>1, <2>1, AnswerCalls
<1>3. CASE lock = None /\ ~call[c].saw
  <2>1. Answer(c, "plain") /\ lock' = lock
    BY <1>3 DEF OwnerAnswers
  <2>. QED
    BY <1>1, <2>1, AnswerCalls
<1>4. CASE lock = None /\ call[c].saw /\ client[call[c].target.sock].state # "up"
  <2>1. Answer(c, "not_started") /\ lock' = lock
    BY <1>4 DEF OwnerAnswers
  <2>. QED
    BY <1>1, <2>1, AnswerCalls
<1>5. CASE lock = None /\ call[c].saw /\ client[call[c].target.sock].state = "up"
  <2>1. PICK z \in BOOLEAN : z = TRUE
    OBVIOUS
  <2>2. /\ call' = [call EXCEPT ![c].at = "sent", ![c].received = TRUE, ![c].delivered = @ + 1]
        /\ lock' = c
    BY <1>5, Zenon DEF OwnerAnswers
  <2>3. call[c].delivered = 0
    BY <1>1, CallsPointwise DEF GoodCall
  <2>4. PICK d \in {0, 1} : d = call[c].delivered + 1
    BY <2>3
  <2>5. PICK r : r = [call[c] EXCEPT !.at = "sent", !.received = z, !.delivered = d]
    OBVIOUS
  <2>6. call' = [call EXCEPT ![c] = r]
    BY <2>1, <2>2, <2>4, <2>5, Zenon
  <2>7. GoodCall(r)
    <3>1. call[c].at \in {"resolved", "asked"}
      BY <1>1
    <3>. QED
      BY <3>1, <2>5, SentIsGood, Zenon
  <2>8. Calls'
    BY <2>6, <2>7, OneCall
  <2>. QED
    BY <2>2, <2>8
<1>. QED
  BY <1>2, <1>3, <1>4, <1>5

\* The process dies with its calls.
LEMMA CrashCalls ==
    ASSUME Calls, Crash
    PROVE  Calls'
<1>1. call' = [c \in Caller |->
           IF call[c].at \in {"idle", "done"} THEN call[c]
           ELSE [call[c] EXCEPT !.at = "done", !.outcome = "unknown"]]
  BY Zenon DEF Crash
<1>2. ASSUME NEW c \in Caller
      PROVE  GoodCall(call'[c])
  <2>1. PICK k : k = call[c]
    OBVIOUS
  <2>2. GoodCall(k)
    BY <2>1, CallsPointwise
  <2>3. PICK r : r = [k EXCEPT !.at = "done", !.outcome = "unknown"]
    OBVIOUS
  <2>4. GoodCall(r)
    BY <2>2, <2>3 DEF GoodCall, Call
  <2>5. call'[c] = k \/ call'[c] = r
    BY <1>1, <2>1, <2>3, Zenon
  <2>. QED
    BY <2>2, <2>4, <2>5
<1>3. call' \in [Caller -> Call]
  <2>1. \A c \in Caller : call'[c] \in Call
    BY <1>2 DEF GoodCall
  <2>2. call' = [c \in Caller |-> call'[c]]
    BY <1>1, Zenon
  <2>. QED
    BY <2>1, <2>2, Zenon
<1>. QED
  BY <1>2, <1>3, CallsPointwise

-----------------------------------------------------------------------------
(* Every step preserves the invariant.                                     *)

Lock == Fenced \union Caller \union {None}
Budget == [events : Nat, faults : Nat]

\* The budgets stay natural numbers.
LEMMA SpendTypes ==
    ASSUME budget \in Budget, SpendEvent \/ SpendFault
    PROVE  budget' \in Budget
<1>1. PICK e : e = budget.events
  OBVIOUS
<1>2. PICK f : f = budget.faults
  OBVIOUS
<1>3. e \in Nat /\ f \in Nat
  BY <1>1, <1>2 DEF Budget
<1>4. CASE SpendEvent
  <2>1. e > 0 /\ budget' = [budget EXCEPT !.events = e - 1]
    BY <1>1, <1>4 DEF SpendEvent
  <2>. QED
    BY <1>3, <2>1 DEF Budget
<1>5. CASE SpendFault
  <2>1. f > 0 /\ budget' = [budget EXCEPT !.faults = f - 1]
    BY <1>2, <1>5 DEF SpendFault
  <2>. QED
    BY <1>3, <2>1 DEF Budget
<1>. QED
  BY <1>4, <1>5

\* A quiet step of a socket.
LEMMA QuietNext ==
    ASSUME IInv, NEW s \in Socket, Quiet(s), UNCHANGED <<owner, call, uncertain>>,
           lock' \in Lock, budget' \in Budget
    PROVE  IInv'
<1>1. Types /\ Sockets /\ Registry /\ Calls
  BY DEF IInv, Registry
<1>2. Sockets' /\ Registry'
  BY <1>1, QuietInv
<1>3. PICK q : SocketStep(s, q)
  BY DEF Quiet
<1>4. life' \in [Socket -> Lifecycle] /\ client' \in [Socket -> Client]
  BY <1>1, <1>3, SocketsStep
<1>5. UNCHANGED <<redis, pipe, clock>>
  BY DEF Quiet, registryVars
<1>6. Types'
  BY <1>1, <1>4, <1>5 DEF Types, Lock, Budget
<1>7. Calls'
  BY <1>1 DEF Calls
<1>. QED
  BY <1>2, <1>6, <1>7 DEF IInv, Registry

\* A step of a socket that writes a command.
LEMMA StartedNext ==
    ASSUME IInv, NEW s \in Socket, Started(s), UNCHANGED <<owner, call, uncertain, budget>>,
           lock' \in Lock
    PROVE  IInv'
<1>1. Types /\ Sockets /\ Registry /\ Calls
  BY DEF IInv, Registry
<1>2. Sockets' /\ Registry' /\ pipe' \in Seq(Command) /\ clock' \in Nat
  BY <1>1, StartedInv
<1>3. PICK q, c : SocketStep(s, q) /\ Starts(s, q, c)
  BY DEF Started
<1>4. life' \in [Socket -> Lifecycle] /\ client' \in [Socket -> Client]
  BY <1>1, <1>3, SocketsStep
<1>5. redis' = redis
  BY <1>3 DEF Starts
<1>6. Types'
  BY <1>1, <1>2, <1>4, <1>5 DEF Types, Lock, Budget
<1>7. Calls'
  BY <1>1 DEF Calls
<1>. QED
  BY <1>2, <1>6, <1>7 DEF IInv, Registry

\* A command fails or times out.
LEMMA FadesNext ==
    ASSUME IInv, NEW s \in Socket, Fades(s), UNCHANGED <<owner, call>>,
           lock' \in Lock, budget' \in Budget
    PROVE  IInv'
<1>1. Types /\ Sockets /\ Registry /\ Calls
  BY DEF IInv, Registry
<1>2. Sockets' /\ Registry'
  BY <1>1, FadesInv
<1>3. PICK q : SocketStep(s, q)
  BY DEF Fades
<1>4. life' \in [Socket -> Lifecycle]
  BY <1>1, <1>3, SocketsStep
<1>5. /\ redis' = redis /\ clock' = clock /\ client' = client /\ pipe' \in Seq(Command)
      /\ uncertain' \subseteq Socket \X Method \X Nat
  BY DEF Fades
<1>6. Types'
  BY <1>1, <1>4, <1>5 DEF Types, Lock, Budget
<1>7. Calls'
  BY <1>1 DEF Calls
<1>. QED
  BY <1>2, <1>6, <1>7 DEF IInv, Registry

\* A step of a call leaves the registry and the sockets alone.
LEMMA CallNext ==
    ASSUME IInv, Calls', UNCHANGED <<redis, pipe, clock, owner, life, client, uncertain>>,
           lock' \in Lock, budget' \in Budget
    PROVE  IInv'
<1>1. Types'
  BY DEF IInv, Types, Lock, Budget
<1>2. Sockets'
  BY DEF IInv, Sockets, Asks
<1>3. Gens'
  BY DEF IInv, Gens
<1>4. Commands'
  BY DEF IInv, Commands
<1>5. Entries'
  BY DEF IInv, Entries, Sure
<1>. QED
  BY <1>1, <1>2, <1>3, <1>4, <1>5 DEF IInv

\* The steps of an operation.
LEMMA OperationNext ==
    ASSUME IInv, NEW s \in Socket, OperationStep(s)
    PROVE  IInv'
<1>1. Types /\ Sockets
  BY DEF IInv
<1>2. lock \in Lock /\ budget \in Budget
  BY <1>1 DEF Types, Lock, Budget
<1>3. CASE RegisterRefused(s)
  <2>1. Quiet(s) /\ UNCHANGED <<owner, lock, call, uncertain, budget>>
    BY <1>1, <1>3, RegisterRefusedStep DEF RegisterRefused, ownerVars
  <2>. QED
    BY <1>2, <2>1, QuietNext
<1>4. CASE RegisterAttempt(s)
  <2>1. /\ Quiet(s) \/ Started(s)
        /\ UNCHANGED <<owner, lock, call, uncertain, budget>>
    BY <1>1, <1>4, RegisterAttemptStep DEF RegisterAttempt, ownerVars
  <2>. QED
    BY <1>2, <2>1, QuietNext, StartedNext
<1>5. CASE RefreshStart(s)
  <2>1. /\ Quiet(s) \/ Started(s)
        /\ UNCHANGED <<owner, lock, call, uncertain, budget>>
    BY <1>1, <1>5, RefreshStartStep DEF RefreshStart, ownerVars
  <2>. QED
    BY <1>2, <2>1, QuietNext, StartedNext
<1>6. CASE Remove(s)
  <2>1. /\ Quiet(s) \/ Started(s)
        /\ UNCHANGED <<owner, lock, call, uncertain, budget>>
    BY <1>1, <1>6, RemoveStep DEF Remove, ownerVars
  <2>. QED
    BY <1>2, <2>1, QuietNext, StartedNext
<1>7. CASE FenceBusy(s)
  <2>1. Quiet(s)
    BY <1>1, <1>7, FenceBusyStep
  <2>2. UNCHANGED <<owner, lock, call, uncertain, budget>>
    BY <1>7, Zenon DEF FenceBusy, ownerVars
  <2>. QED
    BY <1>2, <2>1, <2>2, QuietNext
<1>8. CASE FenceNotOwner(s)
  <2>1. Quiet(s) /\ UNCHANGED <<owner, lock, call, uncertain, budget>>
    BY <1>1, <1>8, FenceNotOwnerStep DEF FenceNotOwner, ownerVars
  <2>. QED
    BY <1>2, <2>1, QuietNext
<1>9. CASE FenceEntered(s)
  <2>1. Started(s) /\ UNCHANGED <<owner, call, uncertain, budget>>
    BY <1>1, <1>9, FenceEnteredStep DEF FenceEntered
  <2>2. s \in Fenced
    BY <1>1, <1>9, SocketFacts DEF FenceEntered, Running, Asks
  <2>3. lock' \in Lock
    BY <1>9, <2>2 DEF FenceEntered, Lock
  <2>. QED
    BY <2>1, <2>3, StartedNext
<1>10. CASE Reply(s)
  <2>1. Quiet(s) /\ UNCHANGED <<owner, call, uncertain, budget>>
    BY <1>1, <1>10, ReplyStep DEF Reply
  <2>2. lock' \in Lock
    BY <1>2, <1>10 DEF Reply, Unlock, Lock
  <2>. QED
    BY <1>2, <2>1, <2>2, QuietNext
<1>. QED
  BY <1>3, <1>4, <1>5, <1>6, <1>7, <1>8, <1>9, <1>10 DEF OperationStep

\* The steps of a socket's connection, timer and failures.
LEMMA SocketNext ==
    ASSUME IInv, NEW s \in Socket,
           \/ Connect(s) \/ Disconnect(s) \/ Tick(s)
           \/ CommandTimesOut(s) \/ CommandFails(s) \/ FenceFails(s) \/ FenceCommitFails(s)
    PROVE  IInv'
<1>1. Types /\ Sockets /\ Registry /\ Calls
  BY DEF IInv, Registry
<1>2. lock \in Lock /\ budget \in Budget
  BY <1>1 DEF Types, Lock, Budget
<1>3. CASE Connect(s)
  <2>1. /\ Sockets' /\ Registry' /\ client' \in [Socket -> Client]
        /\ owner' \in Fenced \union {None}
    BY <1>1, <1>3, ConnectInv
  <2>2. UNCHANGED <<redis, pipe, clock, lock, life, call, uncertain, budget>>
    BY <1>3, Zenon DEF Connect, registryVars
  <2>3. Types'
    BY <1>1, <2>1, <2>2 DEF Types
  <2>4. Calls'
    BY <1>1, <2>2 DEF Calls
  <2>. QED
    BY <2>1, <2>3, <2>4 DEF IInv, Registry
<1>4. CASE Disconnect(s)
  <2>1. PICK q : SocketStep(s, q) /\ Keeps(life[s], q) /\ Goes(life[s], q)
    BY <1>1, <1>4, DisconnectStep
  <2>2. UNCHANGED registryVars /\ UNCHANGED <<owner, lock, call, uncertain, budget>>
    BY <1>4, Zenon DEF Disconnect, ownerVars
  <2>3. Quiet(s)
    BY <2>1, <2>2 DEF Quiet
  <2>. QED
    BY <1>2, <2>2, <2>3, QuietNext
<1>5. CASE Tick(s)
  <2>1. PICK q : SocketStep(s, q) /\ Keeps(life[s], q) /\ Goes(life[s], q)
    BY <1>1, <1>5, TickStep
  <2>2. UNCHANGED registryVars /\ UNCHANGED <<owner, lock, call, uncertain, budget>>
    BY <1>5, Zenon DEF Tick, ownerVars
  <2>3. Quiet(s)
    BY <2>1, <2>2 DEF Quiet
  <2>. QED
    BY <1>2, <2>2, <2>3, QuietNext
<1>6. CASE CommandTimesOut(s) \/ CommandFails(s)
  <2>1. Fades(s)
    BY <1>1, <1>6, ThrowStep
  <2>2. Unlock(s) /\ SpendFault /\ UNCHANGED <<owner, call>>
    BY <1>6, Zenon DEF CommandTimesOut, CommandFails
  <2>3. lock' \in Lock /\ budget' \in Budget
    BY <1>2, <2>2, SpendTypes DEF Unlock, Lock
  <2>. QED
    BY <2>1, <2>2, <2>3, FadesNext
<1>7. CASE FenceFails(s)
  <2>1. Quiet(s)
    BY <1>1, <1>7, FenceFailsStep
  <2>2. SpendFault /\ UNCHANGED <<owner, lock, call, uncertain>>
    BY <1>7, Zenon DEF FenceFails, ownerVars
  <2>3. lock' \in Lock /\ budget' \in Budget
    BY <1>2, <2>2, SpendTypes
  <2>. QED
    BY <2>1, <2>2, <2>3, QuietNext
<1>8. CASE FenceCommitFails(s)
  <2>1. Quiet(s)
    BY <1>1, <1>8, FenceCommitFailsStep
  <2>2. Unlock(s) /\ SpendFault /\ UNCHANGED <<owner, call, uncertain>>
    BY <1>8, Zenon DEF FenceCommitFails
  <2>3. lock' \in Lock /\ budget' \in Budget
    BY <1>2, <2>2, SpendTypes DEF Unlock, Lock
  <2>. QED
    BY <2>1, <2>2, <2>3, QuietNext
<1>. QED
  BY <1>3, <1>4, <1>5, <1>6, <1>7, <1>8

\* The events of a client.
LEMMA EventNext ==
    ASSUME IInv, NEW s \in Socket, NEW m \in Method, RegisterEvent(s, m) \/ UnregisterEvent(s, m)
    PROVE  IInv'
<1>1. Types /\ Sockets /\ lock \in Lock /\ budget \in Budget
  BY DEF IInv, Types, Lock, Budget
<1>2. PICK q : SocketStep(s, q) /\ Keeps(life[s], q) /\ Goes(life[s], q)
  BY <1>1, EventStep
<1>3. SpendEvent /\ UNCHANGED registryVars /\ UNCHANGED <<owner, lock, call, uncertain>>
  BY Zenon DEF RegisterEvent, UnregisterEvent, ownerVars
<1>4. Quiet(s)
  BY <1>2, <1>3 DEF Quiet
<1>5. lock' \in Lock /\ budget' \in Budget
  BY <1>1, <1>3, SpendTypes
<1>. QED
  BY <1>3, <1>4, <1>5, QuietNext

\* The steps of a call.
LEMMA CallStepNext ==
    ASSUME IInv, NEW c \in Caller,
           CallStep(c) \/ \E m \in Method : Resolve(c, m) \/ ResolveFails(c, m)
    PROVE  IInv'
<1>1. Types /\ Calls /\ lock \in Lock /\ budget \in Budget
  BY DEF IInv, Types, Lock, Budget
<1>2. ASSUME NEW m \in Method, Resolve(c, m) \/ ResolveFails(c, m)
      PROVE  IInv'
  <2>1. Calls'
    <3>1. CASE Resolve(c, m)
      BY <1>1, <3>1, ResolveCalls
    <3>2. CASE ResolveFails(c, m)
      <4>1. Answer(c, "plain")
        BY <3>2 DEF ResolveFails
      <4>. QED
        BY <1>1, <4>1, AnswerCalls
    <3>. QED
      BY <1>2, <3>1, <3>2
  <2>2. SpendEvent /\ UNCHANGED <<redis, pipe, clock, owner, lock, life, client, uncertain>>
    BY <1>2, Zenon DEF Resolve, ResolveFails, registryVars, ownerVars
  <2>3. lock' \in Lock /\ budget' \in Budget
    BY <1>1, <2>2, SpendTypes
  <2>. QED
    BY <2>1, <2>2, <2>3, CallNext
<1>3. CASE EmitToRoom(c)
  <2>1. UNCHANGED <<redis, pipe, clock, owner, lock, life, client, uncertain, budget>>
    BY <1>3, Zenon DEF EmitToRoom, registryVars, ownerVars
  <2>. QED
    BY <1>1, <1>3, <2>1, EmitToRoomCalls, CallNext
<1>4. CASE AskOwner(c)
  <2>1. UNCHANGED <<redis, pipe, clock, owner, lock, life, client, uncertain, budget>>
    BY <1>4, Zenon DEF AskOwner, registryVars, ownerVars
  <2>. QED
    BY <1>1, <1>4, <2>1, AskOwnerCalls, CallNext
<1>5. CASE OwnerAnswers(c)
  <2>1. UNCHANGED <<redis, pipe, clock, owner, life, client, uncertain, budget>>
    BY <1>5, Zenon DEF OwnerAnswers, registryVars
  <2>2. Calls' /\ lock' \in Lock
    BY <1>1, <1>5, OwnerAnswersCalls DEF Lock
  <2>. QED
    BY <1>1, <2>1, <2>2, CallNext
<1>6. CASE Acknowledged(c) \/ Unacknowledged(c)
  <2>1. /\ Answer(c, "ok") \/ Answer(c, "unknown")
        /\ Unlock(c) /\ UNCHANGED <<redis, pipe, clock, owner, life, client, uncertain, budget>>
    BY <1>6, Zenon DEF Acknowledged, Unacknowledged, registryVars
  <2>2. Calls'
    BY <1>1, <2>1, AnswerCalls
  <2>3. lock' \in Lock
    BY <1>1, <2>1 DEF Unlock, Lock
  <2>. QED
    BY <1>1, <2>1, <2>2, <2>3, CallNext
<1>. QED
  BY <1>2, <1>3, <1>4, <1>5, <1>6 DEF CallStep

\* An entry of Redis expires or is lost.
LEMMA DropNext ==
    ASSUME IInv, NEW m \in Method, Expire(m) \/ Lose(m)
    PROVE  IInv'
<1>1. Types /\ Sockets /\ Registry /\ Calls /\ budget \in Budget
  BY DEF IInv, Registry, Types, Budget
<1>2. /\ redis' = [redis EXCEPT ![m] = Absent]
      /\ UNCHANGED <<pipe, clock, owner, lock, life, client, call, uncertain>>
      /\ SpendFault \/ budget' = budget
  BY Zenon DEF Expire, Lose, ownerVars
<1>3. Sockets' /\ Registry' /\ redis' \in [Method -> Entry]
  BY <1>1, <1>2, DropInv
<1>4. budget' \in Budget
  BY <1>1, <1>2, SpendTypes
<1>5. Types'
  BY <1>1, <1>2, <1>3, <1>4 DEF Types, Budget
<1>6. Calls'
  BY <1>1, <1>2 DEF Calls
<1>. QED
  BY <1>3, <1>5, <1>6 DEF IInv, Registry

\* Every step preserves the invariant.
LEMMA NextInv ==
    ASSUME IInv, [Next]_vars
    PROVE  IInv'
<1>1. Types /\ Sockets /\ Registry /\ Calls /\ lock \in Lock /\ budget \in Budget
  BY DEF IInv, Registry, Types, Lock, Budget
<1>2. CASE Execute
  <2>1. /\ Sockets' /\ Registry'
        /\ redis' \in [Method -> Entry] /\ pipe' \in Seq(Command)
        /\ life' \in [Socket -> Lifecycle]
    BY <1>1, <1>2, ExecuteInv
  <2>2. UNCHANGED <<clock, owner, lock, client, call, uncertain, budget>>
    BY <1>2, Zenon DEF Execute, ownerVars
  <2>3. Types'
    BY <1>1, <2>1, <2>2 DEF Types
  <2>4. Calls'
    BY <1>1, <2>2 DEF Calls
  <2>. QED
    BY <2>1, <2>3, <2>4 DEF IInv, Registry
<1>3. CASE LeaseEnds
  <2>1. Sockets' /\ Registry'
    BY <1>1, <1>3, LeaseEndsInv
  <2>2. /\ UNCHANGED <<redis, pipe, clock, lock, life, client, call, uncertain, budget>>
        /\ owner' = None
    BY <1>3 DEF LeaseEnds, registryVars
  <2>3. Types'
    BY <1>1, <2>2 DEF Types
  <2>4. Calls'
    BY <1>1, <2>2 DEF Calls
  <2>. QED
    BY <2>1, <2>3, <2>4 DEF IInv, Registry
<1>4. CASE Crash
  <2>1. /\ Sockets' /\ Registry' /\ pipe' \in Seq(Command)
        /\ life' \in [Socket -> Lifecycle] /\ client' \in [Socket -> Client]
        /\ uncertain' \subseteq Socket \X Method \X Nat
    BY <1>1, <1>4, CrashInv
  <2>2. SpendFault /\ lock' = None /\ UNCHANGED <<redis, clock, owner>>
    BY <1>4, Zenon DEF Crash
  <2>3. budget' \in Budget
    BY <1>1, <2>2, SpendTypes
  <2>4. Types'
    BY <1>1, <2>1, <2>2, <2>3 DEF Types, Budget
  <2>5. Calls'
    BY <1>1, <1>4, CrashCalls
  <2>. QED
    BY <2>1, <2>4, <2>5 DEF IInv, Registry
<1>5. CASE UNCHANGED vars
  BY <1>1, <1>5, CallNext DEF vars, Calls
<1>6. CASE \E s \in Socket : OperationStep(s)
  BY <1>6, OperationNext
<1>7. CASE \E s \in Socket :
             \/ Connect(s) \/ Disconnect(s) \/ Tick(s)
             \/ CommandTimesOut(s) \/ CommandFails(s) \/ FenceFails(s) \/ FenceCommitFails(s)
  BY <1>7, SocketNext
<1>8. CASE \E s \in Socket, m \in Method : RegisterEvent(s, m) \/ UnregisterEvent(s, m)
  BY <1>8, EventNext
<1>9. CASE \E c \in Caller :
             CallStep(c) \/ \E m \in Method : Resolve(c, m) \/ ResolveFails(c, m)
  BY <1>9, CallStepNext
<1>10. CASE \E m \in Method : Expire(m) \/ Lose(m)
  BY <1>10, DropNext
<1>. QED
  BY <1>2, <1>3, <1>4, <1>5, <1>6, <1>7, <1>8, <1>9, <1>10, Zenon DEF Next

\* The invariant holds initially.
LEMMA InitInv ==
    ASSUME Init
    PROVE  IInv
<1>1. PICK y \in BOOLEAN : y = FALSE
  OBVIOUS
<1>2. PICK n \in [Method -> Nat] : n = NoRegistrations
  BY NoRegistrationsType
<1>3. PICK w \in [Method -> BOOLEAN] : w = [m \in Method |-> FALSE]
  OBVIOUS
<1>4. PICK k : k = [state |-> "new", wants |-> w, acked |-> n]
  OBVIOUS
<1>5. k \in Client
  BY <1>4 DEF Client
<1>6. PICK q : q = [NewLife EXCEPT !.closing = y]
  OBVIOUS
<1>7. /\ Proper(q, k) /\ q.at = "idle"
      /\ q.held = NoRegistrations /\ q.sent = NoRegistrations
  BY <1>1, <1>5, <1>6, EmptyProper
<1>8. q = NewLife
  BY <1>1, <1>6, Zenon DEF NewLife
<1>9. /\ redis = [m \in Method |-> Absent] /\ pipe = <<>> /\ clock = 0 /\ owner = None
      /\ lock = None /\ uncertain = {} /\ life = [s \in Socket |-> q]
      /\ client = [s \in Socket |-> k]
  BY <1>2, <1>3, <1>4, <1>8, Zenon DEF Init
<1>10. Absent \in Entry /\ Absent.sock = None /\ Absent.gen = 0
  BY DEF Absent, Entry
<1>11. pipe \in Seq(Command) /\ DOMAIN pipe = {}
  <2>1. <<>> \in Seq(Command)
    BY EmptySeq
  <2>2. DOMAIN <<>> = {}
    OBVIOUS
  <2>. QED
    BY <1>9, <2>1, <2>2
<1>12. budget \in [events : Nat, faults : Nat]
  BY RegistryAssumption DEF Init
<1>13. q \in Lifecycle
  BY <1>7 DEF Proper
<1>14. Types
  BY <1>5, <1>9, <1>10, <1>11, <1>12, <1>13 DEF Types
<1>15. Sockets
  BY <1>7, <1>9 DEF Sockets, Asks
<1>16. Gens
  <2>1. \A m \in Method : q.held[m] = 0 /\ q.sent[m] = 0
    BY <1>7 DEF NoRegistrations
  <2>. QED
    BY <1>9, <1>10, <1>11, <2>1 DEF Gens
<1>17. Commands
  BY <1>11 DEF Commands
<1>18. Entries
  BY <1>9 DEF Entries, Sure
<1>19. Calls
  <2>1. PICK o \in Method : o = CHOOSE m \in Method : TRUE
    BY RegistryAssumption
  <2>2. PICK a \in Entry : a = Absent
    BY <1>10
  <2>3. PICK r : r = [at |-> "idle", target |-> a, method |-> o, saw |-> y, received |-> y,
                      delivered |-> 0, outcome |-> "none"]
    OBVIOUS
  <2>4. call = [c \in Caller |-> r]
    BY <1>1, <2>1, <2>2, <2>3, Zenon DEF Init, NewCall
  <2>5. GoodCall(r)
    BY <2>3 DEF GoodCall, Call
  <2>6. r \in Call
    BY <2>5 DEF GoodCall
  <2>7. call \in [Caller -> Call] /\ \A c \in Caller : GoodCall(call[c])
    BY <2>4, <2>5, <2>6
  <2>. QED
    BY <2>7, CallsPointwise
<1>. QED
  BY <1>14, <1>15, <1>16, <1>17, <1>18, <1>19 DEF IInv

-----------------------------------------------------------------------------
(* The theorems.                                                           *)

\* The inductive invariant: what the queue, the map, the pipe and Redis say of a
\* registration fits together after every event, fence, command and failure.
THEOREM Invariance == Spec => []IInv
<1>1. Init => IInv
  BY InitInv
<1>2. IInv /\ [Next]_vars => IInv'
  BY NextInv
<1>. QED
  BY <1>1, <1>2, PTL DEF Spec

\* A registration in Redis is replaced only by a fresher one: the generations that
\* createGeneration draws inside the fence grow along the connection, and the refresh
\* script compares them.
THEOREM RegistrationsAdvanceHolds == Spec => RegistrationsAdvance
<1>1. ASSUME IInv, [Next]_vars
      PROVE  [\A m \in Method :
                redis[m] # Absent /\ redis'[m] \notin {Absent, redis[m]}
                => redis'[m].gen > redis[m].gen]_vars
  <2>1. SUFFICES ASSUME NEW m \in Method, redis'[m] \notin {Absent, redis[m]}, redis[m] # Absent
                 PROVE  redis'[m].gen > redis[m].gen
    OBVIOUS
  <2>2. Types /\ Sockets /\ Registry
    BY <1>1 DEF IInv, Registry
  <2>3. CASE Execute
    BY <2>1, <2>2, <2>3, ExecuteInv
  <2>4. CASE \E n \in Method : redis' = [redis EXCEPT ![n] = Absent]
    BY <2>1, <2>2, <2>4 DEF Types
  <2>5. CASE UNCHANGED redis
    BY <2>1, <2>5
  <2>6. UNCHANGED redis \/ Execute \/ \E n \in Method : redis' = [redis EXCEPT ![n] = Absent]
    <3>1. CASE UNCHANGED vars
      BY <3>1 DEF vars
    <3>2. ASSUME NEW s \in Socket, OperationStep(s)
          PROVE  UNCHANGED redis
      BY <3>2, Zenon DEF OperationStep, RegisterRefused, RegisterAttempt, RefreshStart, Remove,
         FenceBusy, FenceNotOwner, FenceEntered, Reply, EnterFence, FencedBody, registryVars
    <3>3. ASSUME NEW s \in Socket,
                 \/ Connect(s) \/ Disconnect(s) \/ Tick(s) \/ CommandTimesOut(s)
                 \/ CommandFails(s) \/ FenceFails(s) \/ FenceCommitFails(s)
          PROVE  UNCHANGED redis
      BY <3>3, Zenon DEF Connect, Disconnect, Tick, CommandTimesOut, CommandFails, FenceFails,
         FenceCommitFails, registryVars
    <3>4. ASSUME NEW s \in Socket, NEW n \in Method, RegisterEvent(s, n) \/ UnregisterEvent(s, n)
          PROVE  UNCHANGED redis
      BY <3>4, Zenon DEF RegisterEvent, UnregisterEvent, registryVars
    <3>5. ASSUME NEW c \in Caller, NEW n \in Method, Resolve(c, n) \/ ResolveFails(c, n)
          PROVE  UNCHANGED redis
      BY <3>5, Zenon DEF Resolve, ResolveFails, registryVars
    <3>6. ASSUME NEW c \in Caller, CallStep(c)
          PROVE  UNCHANGED redis
      BY <3>6, Zenon DEF CallStep, EmitToRoom, AskOwner, OwnerAnswers, Acknowledged,
         Unacknowledged, registryVars
    <3>7. ASSUME NEW n \in Method, Expire(n) \/ Lose(n)
          PROVE  redis' = [redis EXCEPT ![n] = Absent]
      BY <3>7, Zenon DEF Expire, Lose
    <3>8. CASE LeaseEnds \/ Crash
      BY <3>8, Zenon DEF LeaseEnds, Crash, registryVars
    <3>. QED
      BY <1>1, <3>1, <3>2, <3>3, <3>4, <3>5, <3>6, <3>7, <3>8, Zenon DEF Next
  <2>. QED
    BY <2>3, <2>4, <2>5, <2>6
<1>. QED
  BY <1>1, Invariance, PTL DEF Spec, RegistrationsAdvance

\* Type correctness, and no stray routing: an entry of a socket with an empty queue is
\* in that socket's registrations map, unless a command about it failed or its runtime
\* lost the session; and the map stays within its limit.
THEOREM LookedAfterHolds == Spec => []EntryIsLookedAfter
<1>1. ASSUME IInv
      PROVE  EntryIsLookedAfter
  <2>1. Types /\ Sockets /\ Gens /\ Entries /\ Calls
    BY <1>1 DEF IInv
  <2>2. \A s \in Socket : Cardinality(Methods(life[s].held)) <= MaxRegistrations
    BY <2>1, SocketFacts DEF Small
  <2>3. TypeOK
    BY <2>1, <2>2 DEF TypeOK, Types, Client, Calls
  <2>4. ASSUME NEW m \in Method, redis[m] # Absent, life[redis[m].sock].tail = <<>>,
               <<redis[m].sock, m, redis[m].gen>> \notin uncertain,
               redis[m].sock \in Fenced => owner = redis[m].sock
        PROVE  life[redis[m].sock].held[m] = redis[m].gen
    <3>1. redis[m].sock \in Socket
      BY <2>1, <2>4, EntryFacts
    <3>2. Works(life[redis[m].sock])
      BY <2>1, <3>1, SocketFacts
    <3>3. life[redis[m].sock].at = "idle"
      BY <2>4, <3>2 DEF Works
    <3>4. Sure(m)
      BY <2>4 DEF Sure
    <3>5. Tended(life[redis[m].sock], m, redis[m].gen)
      BY <2>1, <3>4 DEF Entries
    <3>. QED
      BY <3>3, <3>5 DEF Tended
  <2>. QED
    BY <2>3, <2>4 DEF EntryIsLookedAfter
<1>. QED
  BY <1>1, Invariance, PTL

\* The last event wins: once a socket's queue has run dry, the map holds only methods
\* whose last event was rpc-register, and nothing after the close, whatever was
\* cancelled, retried or refused on the way.
THEOREM LastEventHolds == Spec => []LastEventWins
<1>1. ASSUME IInv
      PROVE  LastEventWins
  <2>1. SUFFICES ASSUME NEW s \in Socket, life[s].tail = <<>>
                 PROVE  /\ \A m \in Methods(life[s].held) : client[s].wants[m]
                        /\ life[s].closing => life[s].held = NoRegistrations /\ ~life[s].timer
    BY DEF LastEventWins
  <2>2. Proper(life[s], client[s])
    BY <1>1, SocketFacts DEF IInv
  <2>3. life[s].closing => life[s].held = NoRegistrations /\ ~life[s].timer
    BY <2>1, <2>2 DEF Proper, Closes
  <2>4. ASSUME NEW m \in Method, ~client[s].wants[m]
        PROVE  life[s].held[m] = 0
    <3>1. DOMAIN life[s].tail = {}
      BY <2>1
    <3>. QED
      BY <2>2, <2>4, <3>1 DEF Proper, Obeys
  <2>. QED
    BY <2>3, <2>4 DEF Methods
<1>. QED
  BY <1>1, Invariance, PTL

\* At most one delivery of a call that is repeated after every not_started answer, and
\* after no other.
THEOREM AtMostOnceHolds == Spec => []AtMostOnce
<1>1. IInv => AtMostOnce
  BY DEF IInv, Calls, AtMostOnce
<1>. QED
  BY <1>1, Invariance, PTL
=============================================================================
