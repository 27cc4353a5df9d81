----------------------------- MODULE RpcRegistry -----------------------------
(***************************************************************************)
(* RPC registrations and RPC calls of one account.                         *)
(*                                                                         *)
(* A socket registers methods with rpc-register; the registration lives in *)
(* Redis, under a key per (account, method), as the socket's ID and a      *)
(* generation, and in the registrations map of the socket's lifecycle      *)
(* object, which refreshes it every 20 seconds and compare-deletes it on   *)
(* unregister and disconnect (rpcRegistrationRegistry.ts).  rpc-call       *)
(* resolves the key and delivers one request (rpcHandler.ts).  The sockets *)
(* in Fenced are runtimes of one session: their installs and refreshes,    *)
(* and the calls they serve, run under runWithRuntimeConnectionOwnerLock.  *)
(*                                                                         *)
(* The server is one process, the supported deployment.  Its registry      *)
(* commands share one Redis connection, so Redis executes them in the      *)
(* order they were written; a command whose client has timed out is still  *)
(* executed.                                                               *)
(*                                                                         *)
(* Definitions whose name ends in Mut are deliberate defects of the        *)
(* definition that follows them: each one breaks a property below.         *)
(***************************************************************************)
EXTENDS Integers, Sequences, FiniteSets

CONSTANTS
    Socket,             \* sockets of the account
    Fenced,             \* the session-scoped ones: runtimes of one session
    Caller,             \* the user sockets that issue an rpc-call; one that is not in
                        \* Socket registers nothing, and only its calls are followed
    Method,             \* RPC methods
    MaxRegistrations,   \* DEFAULT_MAX_REGISTRATIONS_PER_SOCKET
    None,               \* no socket
    MaxEvents,          \* bound: rpc-register, rpc-unregister and rpc-call packets
    MaxFaults           \* bound: failures of Redis, the database or the process

ASSUME RegistryAssumption ==
    /\ Fenced \subseteq Socket
    /\ Caller \intersect Fenced = {}
    /\ Method # {}
    /\ MaxRegistrations \in Nat \ {0}
    /\ None \notin Socket \union Caller
    /\ MaxEvents \in Nat /\ MaxFaults \in Nat

VARIABLES
    redis,      \* per method: the entry stored under its key
    pipe,       \* commands written to the Redis connection, not yet executed
    clock,      \* last generation drawn by createGeneration
    owner,      \* the runtime socket the Session row names
    lock,       \* holder of the session's advisory lock
    life,       \* per socket: its RpcRegistrationLifecycle
    client,     \* per socket: its connection, the last event it sent per method, and
                \* the generation behind the rpc-registered it got for it
    call,       \* per caller: its rpc-call
    uncertain,  \* registrations a command about which failed or timed out
    budget      \* events and faults left

registryVars == <<redis, pipe, clock>>
ownerVars == <<owner, lock>>
vars == <<redis, pipe, clock, owner, lock, life, client, call, uncertain, budget>>

Entry == [sock : Socket \union {None}, gen : Nat]
Absent == [sock |-> None, gen |-> 0]
NoRegistrations == [m \in Method |-> 0]
Methods(regs) == {m \in Method : regs[m] # 0}
Only(m, g) == [NoRegistrations EXCEPT ![m] = g]

Operation == [op : {"register", "unregister"}, method : Method]
             \union [op : {"refresh", "close"}]

Command ==
    [sock : Socket, op : {"set", "refresh", "delete"}, regs : [Method -> Nat], live : BOOLEAN]

Lifecycle ==
    [held : [Method -> Nat],          \* registrations: generation, 0 if none
     cancelled : SUBSET Method,       \* cancelledMethods
     tail : Seq(Operation),           \* operationTail, the running operation first
     closing : BOOLEAN,
     timer : BOOLEAN,                 \* refreshTimer is set
     at : {"idle", "retry", "asked", "wait", "replied"},
     saw : BOOLEAN,                   \* ownership in the fence statement's snapshot
     sent : [Method -> Nat],          \* registrations of the command awaited
     kept : SUBSET Method]            \* its result

NewLife ==
    [held |-> NoRegistrations, cancelled |-> {}, tail |-> <<>>, closing |-> FALSE,
     timer |-> FALSE, at |-> "idle", saw |-> FALSE, sent |-> NoRegistrations, kept |-> {}]

Call ==
    [at : {"idle", "resolved", "asked", "sent", "done"},
     target : Entry, method : Method, saw : BOOLEAN, received : BOOLEAN,
     delivered : Nat,                 \* rpc-requests that reached a target
     outcome : {"none", "plain", "not_started", "unknown", "ok"}]

NewCall(m) ==
    [at |-> "idle", target |-> Absent, method |-> m, saw |-> FALSE, received |-> FALSE,
     delivered |-> 0, outcome |-> "none"]

(* One type invariant; a socket never holds more methods than its limit. *)
TypeOK ==
    /\ redis \in [Method -> Entry]
    /\ pipe \in Seq(Command)
    /\ clock \in Nat
    /\ owner \in Fenced \union {None}
    /\ lock \in Fenced \union Caller \union {None}
    /\ life \in [Socket -> Lifecycle]
    /\ client \in [Socket -> [state : {"new", "up", "down"},
                              wants : [Method -> BOOLEAN], acked : [Method -> Nat]]]
    /\ call \in [Caller -> Call]
    /\ uncertain \subseteq Socket \X Method \X Nat
    /\ budget \in [events : Nat, faults : Nat]
    /\ \A s \in Socket : Cardinality(Methods(life[s].held)) <= MaxRegistrations

Init ==
    /\ redis = [m \in Method |-> Absent]
    /\ pipe = <<>>
    /\ clock = 0
    /\ owner = None
    /\ lock = None
    /\ life = [s \in Socket |-> NewLife]
    /\ client = [s \in Socket |-> [state |-> "new", wants |-> [m \in Method |-> FALSE],
                                   acked |-> NoRegistrations]]
    /\ call = [c \in Caller |-> NewCall(CHOOSE m \in Method : TRUE)]
    /\ uncertain = {}
    /\ budget = [events |-> MaxEvents, faults |-> MaxFaults]

SpendEvent == budget.events > 0 /\ budget' = [budget EXCEPT !.events = @ - 1]
SpendFault == budget.faults > 0 /\ budget' = [budget EXCEPT !.faults = @ - 1]
-----------------------------------------------------------------------------
(* Redis: what the scripts and commands of RedisRpcRegistrationRegistry do. *)

(* REFRESH_CURRENT_BATCH_SCRIPT on one key: extend, reclaim or take over. *)
RefreshEntryAnyMut(current, candidate) == candidate
RefreshEntryNoReclaimMut(current, candidate) ==
    IF current # Absent /\ current.gen < candidate.gen THEN candidate ELSE current
RefreshEntry(current, candidate) ==
    IF current = Absent \/ current.gen < candidate.gen THEN candidate ELSE current

(* DELETE_CURRENT_BATCH_SCRIPT on one key. *)
DeleteEntry(current, candidate) == IF current = candidate THEN Absent ELSE current

Executed(c, m) ==
    LET candidate == [sock |-> c.sock, gen |-> c.regs[m]] IN
    IF c.regs[m] = 0 THEN redis[m]
    ELSE CASE c.op = "set"      -> candidate
           [] c.op = "refresh"  -> RefreshEntry(redis[m], candidate)
           [] c.op = "delete"   -> DeleteEntry(redis[m], candidate)

(* Redis executes the oldest command; a client still waiting gets the result. *)
Execute ==
    /\ pipe # <<>>
    /\ LET c == Head(pipe) IN
         /\ redis' = [m \in Method |-> Executed(c, m)]
         /\ life' = IF c.live
                    THEN [life EXCEPT ![c.sock].at = "replied",
                                      ![c.sock].kept = {m \in Methods(c.regs) :
                                         redis'[m] = [sock |-> c.sock, gen |-> c.regs[m]]}]
                    ELSE life
    /\ pipe' = Tail(pipe)
    /\ UNCHANGED <<clock, ownerVars, client, call, uncertain, budget>>

(* The TTL of an entry that no lifecycle refreshes any more runs out. *)
Expire(m) ==
    /\ redis[m] # Absent
    /\ LET l == life[redis[m].sock] IN
         /\ l.held[m] # redis[m].gen
         /\ l.at \in {"wait", "replied"} => l.sent[m] # redis[m].gen
    /\ redis' = [redis EXCEPT ![m] = Absent]
    /\ UNCHANGED <<pipe, clock, ownerVars, life, client, call, uncertain, budget>>

(* Redis loses an entry, or a refreshed entry expires because refreshes failed. *)
Lose(m) ==
    /\ redis[m] # Absent
    /\ SpendFault
    /\ redis' = [redis EXCEPT ![m] = Absent]
    /\ UNCHANGED <<pipe, clock, ownerVars, life, client, call, uncertain>>
-----------------------------------------------------------------------------
(* Sockets: the client's events as the lifecycle sees them. *)

Queued(l, o) == [l EXCEPT !.tail = Append(@, o)]

(* The synchronous part of close(). *)
Closing(l) ==
    IF l.closing THEN l ELSE Queued([l EXCEPT !.closing = TRUE, !.timer = FALSE], [op |-> "close"])

(* A runtime's handshake claims the session; the claim waits for the lock. *)
Connect(s) ==
    /\ client[s].state = "new"
    /\ client' = [client EXCEPT ![s].state = "up"]
    /\ IF s \in Fenced THEN lock = None /\ owner' = s ELSE owner' = owner
    /\ UNCHANGED <<registryVars, lock, life, call, uncertain, budget>>

(* The runtime's lease ends or expires; that too waits for the lock. *)
LeaseEnds ==
    /\ owner # None /\ lock = None
    /\ owner' = None
    /\ UNCHANGED <<registryVars, lock, life, client, call, uncertain, budget>>

Disconnect(s) ==
    /\ client[s].state = "up"
    /\ client' = [client EXCEPT ![s].state = "down"]
    /\ life' = [life EXCEPT ![s] = Closing(@)]
    /\ UNCHANGED <<registryVars, ownerVars, call, uncertain, budget>>

Registering(l, m) ==
    Queued([l EXCEPT !.cancelled = @ \ {m}], [op |-> "register", method |-> m])

RegisterEvent(s, m) ==
    /\ client[s].state = "up"
    /\ SpendEvent
    /\ client' = [client EXCEPT ![s].wants[m] = TRUE, ![s].acked[m] = 0]
    /\ life' = [life EXCEPT ![s] = Registering(@, m)]
    /\ UNCHANGED <<registryVars, ownerVars, call, uncertain>>

Unregistering(l, m) ==
    Queued([l EXCEPT !.cancelled = @ \union {m}], [op |-> "unregister", method |-> m])

(* Defect: an unregister of a method that is not installed yet is ignored. *)
UnregisterEventMut(s, m) ==
    /\ client[s].state = "up"
    /\ SpendEvent
    /\ client' = [client EXCEPT ![s].wants[m] = FALSE, ![s].acked[m] = 0]
    /\ life' = IF life[s].held[m] = 0 THEN life
               ELSE [life EXCEPT ![s] = Unregistering(@, m)]
    /\ UNCHANGED <<registryVars, ownerVars, call, uncertain>>

UnregisterEvent(s, m) ==
    /\ client[s].state = "up"
    /\ SpendEvent
    /\ client' = [client EXCEPT ![s].wants[m] = FALSE, ![s].acked[m] = 0]
    /\ life' = [life EXCEPT ![s] = Unregistering(@, m)]
    /\ UNCHANGED <<registryVars, ownerVars, call, uncertain>>

(* The refresh interval elapses; overlapping ticks share one refresh. *)
Tick(s) ==
    /\ life[s].timer
    /\ \A i \in DOMAIN life[s].tail : life[s].tail[i].op # "refresh"
    /\ life' = [life EXCEPT ![s] = Queued(@, [op |-> "refresh"])]
    /\ UNCHANGED <<registryVars, ownerVars, client, call, uncertain, budget>>
-----------------------------------------------------------------------------
(* The operations that operationTail runs one after the other. *)

Running(s, at, ops) ==
    life[s].tail # <<>> /\ life[s].at \in at /\ Head(life[s].tail).op \in ops

Finished(l) ==
    [l EXCEPT !.tail = Tail(@), !.at = "idle", !.saw = FALSE, !.sent = NoRegistrations, !.kept = {}]
Uncancelled(l, m) == [l EXCEPT !.cancelled = @ \ {m}]
StopTimerIfIdle(l) == [l EXCEPT !.timer = @ /\ l.held # NoRegistrations]

Write(s, op, regs) ==
    pipe' = Append(pipe, [sock |-> s, op |-> op, regs |-> regs, live |-> TRUE])
Awaiting(l, regs) == [l EXCEPT !.at = "wait", !.sent = regs]
Unlock(s) == lock' = IF lock = s THEN None ELSE lock

(* The body that runs inside the owner fence: a SET of a new generation, or *)
(* the refresh script over all registrations.                               *)
FencedBody(s) ==
    LET o == Head(life[s].tail)
        regs == IF o.op = "register" THEN Only(o.method, clock + 1) ELSE life[s].held
    IN /\ clock' = IF o.op = "register" THEN clock + 1 ELSE clock
       /\ Write(s, IF o.op = "register" THEN "set" ELSE "refresh", regs)
       /\ life' = [life EXCEPT ![s] = Awaiting(@, regs)]
       /\ UNCHANGED redis

(* runWithOwnerFence: without a runtime owner the body runs at once; with one, *)
(* the ownership is read in the snapshot of the statement that takes the lock. *)
EnterFence(s) ==
    IF s \in Fenced
    THEN /\ life' = [life EXCEPT ![s].at = "asked", ![s].saw = owner = s]
         /\ UNCHANGED registryVars
    ELSE FencedBody(s)

AtLimit(l, m) == l.held[m] = 0 /\ Cardinality(Methods(l.held)) >= MaxRegistrations

Refused(l) == l.at = "idle" /\ (l.closing \/ AtLimit(l, Head(l.tail).method))

RegisterRefused(s) ==
    /\ Running(s, {"idle"}, {"register"})
    /\ Refused(life[s])
    /\ life' = [life EXCEPT ![s] = Finished(@)]
    /\ UNCHANGED <<registryVars, ownerVars, client, call, uncertain, budget>>

(* One turn of the retry loop of register(). *)
RegisterAttempt(s) ==
    /\ Running(s, {"idle", "retry"}, {"register"})
    /\ ~Refused(life[s])
    /\ LET m == Head(life[s].tail).method IN
         IF life[s].closing \/ m \in life[s].cancelled
         THEN /\ life' = [life EXCEPT ![s] = Finished(Uncancelled(@, m))]
              /\ UNCHANGED registryVars
         ELSE EnterFence(s)
    /\ UNCHANGED <<ownerVars, client, call, uncertain, budget>>

RefreshStart(s) ==
    /\ Running(s, {"idle"}, {"refresh"})
    /\ IF life[s].closing \/ life[s].held = NoRegistrations
       THEN /\ life' = [life EXCEPT ![s] = Finished(@)]
            /\ UNCHANGED registryVars
       ELSE EnterFence(s)
    /\ UNCHANGED <<ownerVars, client, call, uncertain, budget>>

(* The lock is held by another operation: register waits and retries, a refresh *)
(* leaves it to the next tick.                                                   *)
FenceBusy(s) ==
    /\ Running(s, {"asked"}, {"register", "refresh"})
    /\ lock # None
    /\ life' = [life EXCEPT ![s] = IF Head(@.tail).op = "register"
                                   THEN [@ EXCEPT !.at = "retry", !.saw = FALSE]
                                   ELSE StopTimerIfIdle(Finished(@))]
    /\ UNCHANGED <<registryVars, ownerVars, client, call, uncertain, budget>>

(* Ownership is lost: register rejects the connection, refresh forgets what it held. *)
FenceNotOwner(s) ==
    /\ Running(s, {"asked"}, {"register", "refresh"})
    /\ lock = None /\ ~life[s].saw
    /\ IF Head(life[s].tail).op = "register"
       THEN /\ life' = [life EXCEPT ![s] =
                   Closing(Finished(Uncancelled(@, Head(@.tail).method)))]
            /\ client' = [client EXCEPT ![s].state = "down"]
       ELSE /\ life' = [life EXCEPT ![s] =
                   StopTimerIfIdle(Finished([@ EXCEPT !.held = NoRegistrations]))]
            /\ UNCHANGED client
    /\ UNCHANGED <<registryVars, ownerVars, call, uncertain, budget>>

FenceEntered(s) ==
    /\ Running(s, {"asked"}, {"register", "refresh"})
    /\ lock = None /\ life[s].saw
    /\ lock' = s
    /\ FencedBody(s)
    /\ UNCHANGED <<owner, client, call, uncertain, budget>>

(* unregister and close delete what the map held; they need no fence. *)
Removed(s) ==
    LET o == Head(life[s].tail) IN
    IF o.op = "close" THEN life[s].held ELSE Only(o.method, life[s].held[o.method])

Forgotten(l) ==
    LET o == Head(l.tail) IN
    IF o.op = "close"
    THEN [l EXCEPT !.held = NoRegistrations, !.cancelled = {}]
    ELSE StopTimerIfIdle([l EXCEPT !.held[o.method] = 0])

RemovalEnds(l) ==
    LET o == Head(l.tail) IN
    Finished(IF o.op = "unregister" THEN Uncancelled(l, o.method) ELSE l)

(* Defect: the map is cleared before its registrations are collected. *)
RemoveMut(s) ==
    /\ Running(s, {"idle"}, {"unregister", "close"})
    /\ life' = [life EXCEPT ![s] = RemovalEnds(Forgotten(@))]
    /\ UNCHANGED <<registryVars, ownerVars, client, call, uncertain, budget>>

Remove(s) ==
    /\ Running(s, {"idle"}, {"unregister", "close"})
    /\ LET regs == Removed(s) IN
         IF regs = NoRegistrations
         THEN /\ life' = [life EXCEPT ![s] = RemovalEnds(Forgotten(@))]
              /\ UNCHANGED pipe
         ELSE /\ life' = [life EXCEPT ![s] = Awaiting(Forgotten(@), regs)]
              /\ Write(s, "delete", regs)
    /\ UNCHANGED <<redis, clock, ownerVars, client, call, uncertain, budget>>

(* registrations.set and ensureRefreshTimer. *)
Installed(l) ==
    LET m == Head(l.tail).method IN
    [l EXCEPT !.held[m] = l.sent[m], !.timer = @ \/ ~l.closing]

Surviving(l) ==
    StopTimerIfIdle([l EXCEPT !.held =
        [m \in Method |-> IF m \in Methods(l.sent) \ l.kept THEN 0 ELSE l.held[m]]])

(* The awaited command was executed and its result arrives. *)
Reply(s) ==
    /\ Running(s, {"replied"}, {"register", "refresh", "unregister", "close"})
    /\ life' = [life EXCEPT ![s] =
           CASE Head(@.tail).op = "register" -> Finished(Installed(@))
             [] Head(@.tail).op = "refresh"  -> Finished(Surviving(@))
             [] OTHER                        -> RemovalEnds(@)]
    /\ client' = IF Head(life[s].tail).op = "register"
                 THEN [client EXCEPT ![s].acked[Head(life[s].tail).method] =
                          life[s].sent[Head(life[s].tail).method]]
                 ELSE client
    /\ Unlock(s)
    /\ UNCHANGED <<registryVars, owner, call, uncertain, budget>>

(* What an operation does when its command or its transaction throws. *)
Thrown(l) ==
    CASE Head(l.tail).op = "register" ->
             [l EXCEPT !.at = "retry", !.saw = FALSE, !.sent = NoRegistrations, !.kept = {}]
      [] Head(l.tail).op = "refresh"  -> StopTimerIfIdle(Finished(l))
      [] OTHER                        -> RemovalEnds(l)

InDoubt(s) ==
    uncertain' = uncertain \union {<<s, m, life[s].sent[m]>> : m \in Methods(life[s].sent)}

(* commandTimeout: the promise rejects, the command stays in the pipe. *)
CommandTimesOut(s) ==
    /\ life[s].at \in {"wait", "replied"}
    /\ SpendFault
    /\ pipe' = [i \in DOMAIN pipe |-> [pipe[i] EXCEPT !.live = @ /\ pipe[i].sock # s]]
    /\ life' = [life EXCEPT ![s] = Thrown(@)]
    /\ InDoubt(s)
    /\ Unlock(s)
    /\ UNCHANGED <<redis, clock, owner, client, call>>

(* Redis is not connected, or answers with an error: the command touches no key. *)
CommandFails(s) ==
    /\ life[s].at = "wait"
    /\ SpendFault
    /\ pipe' = [i \in DOMAIN pipe |->
                  IF pipe[i].sock = s /\ pipe[i].live
                  THEN [pipe[i] EXCEPT !.regs = NoRegistrations, !.live = FALSE]
                  ELSE pipe[i]]
    /\ life' = [life EXCEPT ![s] = Thrown(@)]
    /\ InDoubt(s)
    /\ Unlock(s)
    /\ UNCHANGED <<redis, clock, owner, client, call>>

(* The transaction of the fence cannot start or read: the body never runs. *)
FenceFails(s) ==
    /\ Running(s, {"asked"}, {"register", "refresh"})
    /\ SpendFault
    /\ life' = [life EXCEPT ![s] = Thrown(@)]
    /\ UNCHANGED <<registryVars, ownerVars, client, call, uncertain>>

(* The body succeeded, but the COMMIT of the fence's transaction failed. *)
FenceCommitFails(s) ==
    /\ s \in Fenced
    /\ Running(s, {"replied"}, {"register", "refresh"})
    /\ SpendFault
    /\ life' = [life EXCEPT ![s] =
           Thrown(IF Head(@.tail).op = "register" THEN Installed(@) ELSE @)]
    /\ Unlock(s)
    /\ UNCHANGED <<registryVars, owner, client, call, uncertain>>
-----------------------------------------------------------------------------
(* rpc-call.  A session-scoped socket that tries it is disconnected, which is *)
(* Disconnect above; the checks of the arguments are left out.                *)

Answer(c, outcome) ==
    call' = [call EXCEPT ![c].at = "done", ![c].outcome = outcome]

(* A client calls once, and repeats the call only if it was answered not_started. *)
MayCall(c, m) ==
    /\ c \in Socket => client[c].state = "up"
    /\ \/ call[c].at = "idle"
       \/ call[c].at = "done" /\ call[c].outcome = "not_started" /\ call[c].method = m

(* The registry is read: no entry, or the caller's own, is answered at once. *)
Resolve(c, m) ==
    /\ MayCall(c, m)
    /\ SpendEvent
    /\ call' = [call EXCEPT ![c] =
           LET found == redis[m].sock \notin {None, c} IN
           [@ EXCEPT !.at = IF found THEN "resolved" ELSE "done",
                     !.outcome = IF found THEN "none" ELSE "plain",
                     !.target = IF found THEN redis[m] ELSE Absent,
                     !.method = m]]
    /\ UNCHANGED <<registryVars, ownerVars, life, client, uncertain>>

(* The registry cannot be read. *)
ResolveFails(c, m) ==
    /\ MayCall(c, m)
    /\ SpendEvent
    /\ Answer(c, "plain")
    /\ UNCHANGED <<registryVars, ownerVars, life, client, uncertain>>

(* A target without a runtime owner: one emit to the room of its socket ID. *)
EmitToRoom(c) ==
    /\ call[c].at = "resolved" /\ call[c].target.sock \notin Fenced
    /\ LET reached == client[call[c].target.sock].state = "up" IN
         call' = [call EXCEPT ![c].at = "sent", ![c].received = reached,
                              ![c].delivered = @ + (IF reached THEN 1 ELSE 0)]
    /\ UNCHANGED <<registryVars, ownerVars, life, client, uncertain, budget>>

(* A runtime's registration: the fence statement takes its snapshot ... *)
AskOwner(c) ==
    /\ call[c].at = "resolved" /\ call[c].target.sock \in Fenced
    /\ call' = [call EXCEPT ![c].at = "asked", ![c].saw = owner = call[c].target.sock]
    /\ UNCHANGED <<registryVars, ownerVars, life, client, uncertain, budget>>

(* ... and tries the lock; the request is emitted while it is held. *)
OwnerAnswers(c) ==
    /\ call[c].at = "asked"
    /\ LET t == call[c].target.sock IN
         CASE lock # None -> Answer(c, "not_started") /\ UNCHANGED lock
           [] lock = None /\ ~call[c].saw -> Answer(c, "plain") /\ UNCHANGED lock
           [] lock = None /\ call[c].saw /\ client[t].state # "up" ->
                Answer(c, "not_started") /\ UNCHANGED lock
           [] OTHER ->
                /\ call' = [call EXCEPT ![c].at = "sent", ![c].received = TRUE,
                                        ![c].delivered = @ + 1]
                /\ lock' = c
    /\ UNCHANGED <<registryVars, owner, life, client, uncertain, budget>>

(* The acknowledgement. *)
Acknowledged(c) ==
    /\ call[c].at = "sent" /\ call[c].received
    /\ Answer(c, "ok")
    /\ Unlock(c)
    /\ UNCHANGED <<registryVars, owner, life, client, uncertain, budget>>

(* No acknowledgement in time, or the transaction fails: the outcome is unknown. *)
UnacknowledgedMut(c) ==
    /\ call[c].at \in {"asked", "sent"}
    /\ Answer(c, "not_started")
    /\ Unlock(c)
    /\ UNCHANGED <<registryVars, owner, life, client, uncertain, budget>>
Unacknowledged(c) ==
    /\ call[c].at \in {"asked", "sent"}
    /\ Answer(c, "unknown")
    /\ Unlock(c)
    /\ UNCHANGED <<registryVars, owner, life, client, uncertain, budget>>
-----------------------------------------------------------------------------
(* The process dies: its sockets, queues and Redis connection are gone, the *)
(* database drops its locks; the registrations stay until their TTL.        *)
Crash ==
    /\ \E s \in Socket : client[s].state = "up"
    /\ SpendFault
    /\ client' = [s \in Socket |->
           IF client[s].state = "up" THEN [client[s] EXCEPT !.state = "down"] ELSE client[s]]
    /\ life' = [s \in Socket |->
           IF client[s].state = "new" THEN life[s] ELSE [NewLife EXCEPT !.closing = TRUE]]
    /\ call' = [c \in Caller |->
           IF call[c].at \in {"idle", "done"} THEN call[c]
           ELSE [call[c] EXCEPT !.at = "done", !.outcome = "unknown"]]
    /\ uncertain' = uncertain \union
           {<<redis[m].sock, m, redis[m].gen>> : m \in {n \in Method : redis[n] # Absent}}
    /\ pipe' = <<>>
    /\ lock' = None
    /\ UNCHANGED <<redis, clock, owner>>

OperationStep(s) ==
    \/ RegisterRefused(s) \/ RegisterAttempt(s) \/ RefreshStart(s) \/ Remove(s)
    \/ FenceBusy(s) \/ FenceNotOwner(s) \/ FenceEntered(s)
    \/ Reply(s)

CallStep(c) ==
    EmitToRoom(c) \/ AskOwner(c) \/ OwnerAnswers(c) \/ Acknowledged(c) \/ Unacknowledged(c)

Next ==
    \/ \E s \in Socket :
         \/ Connect(s) \/ Disconnect(s) \/ Tick(s) \/ OperationStep(s)
         \/ CommandTimesOut(s) \/ CommandFails(s) \/ FenceFails(s) \/ FenceCommitFails(s)
    \/ \E s \in Socket, m \in Method : RegisterEvent(s, m) \/ UnregisterEvent(s, m)
    \/ \E c \in Caller, m \in Method : Resolve(c, m) \/ ResolveFails(c, m)
    \/ \E c \in Caller : CallStep(c)
    \/ \E m \in Method : Expire(m) \/ Lose(m)
    \/ Execute
    \/ LeaseEnds
    \/ Crash

Spec == Init /\ [][Next]_vars

(***************************************************************************)
(* Fairness.  The event loop runs every queued operation, Redis executes   *)
(* what was written and expires what nobody refreshes, the refresh         *)
(* interval fires, and a call ends at the latest with its 30 second        *)
(* acknowledgement timeout.                                                *)
(***************************************************************************)
Fairness ==
    /\ \A s \in Socket : WF_vars(OperationStep(s)) /\ WF_vars(Tick(s))
    /\ \A c \in Caller : WF_vars(CallStep(c))
    /\ \A m \in Method : WF_vars(Expire(m))
    /\ WF_vars(Execute)

FairSpec == Spec /\ Fairness
-----------------------------------------------------------------------------
(***************************************************************************)
(* A registration in Redis is replaced only by a fresher one: neither a    *)
(* refresh of a superseded socket nor a command whose client has timed     *)
(* out brings an older one back over it (REFRESH_CURRENT_BATCH_SCRIPT,     *)
(* createGeneration inside the fence).                                     *)
(***************************************************************************)
RegistrationsAdvance ==
    [][\A m \in Method :
         redis[m] # Absent /\ redis'[m] \notin {Absent, redis[m]}
         => redis'[m].gen > redis[m].gen]_vars

(***************************************************************************)
(* No stray routing: an entry in Redis whose socket has no operation       *)
(* queued is in that socket's registrations map, so that its refresh or    *)
(* its close takes care of it.  Left to the TTL are only entries about     *)
(* which a command failed and those of a runtime that lost the session.    *)
(* The map never exceeds the limit of registrations (TypeOK).              *)
(***************************************************************************)
EntryIsLookedAfter ==
    /\ TypeOK
    /\ \A m \in Method :
         LET e == redis[m] IN
         /\ e # Absent
         /\ life[e.sock].tail = <<>>
         /\ <<e.sock, m, e.gen>> \notin uncertain
         /\ e.sock \in Fenced => owner = e.sock
         => life[e.sock].held[m] = e.gen

(***************************************************************************)
(* The last event wins: when a socket's queue has run dry, it holds only   *)
(* methods whose last event was rpc-register, and after its close none,    *)
(* whatever was cancelled, retried or refused on the way.                  *)
(***************************************************************************)
LastEventWins ==
    \A s \in Socket :
        life[s].tail = <<>> =>
            /\ \A m \in Methods(life[s].held) : client[s].wants[m]
            /\ life[s].closing => life[s].held = NoRegistrations /\ ~life[s].timer

(***************************************************************************)
(* At most one delivery: a caller that repeats its call after every        *)
(* not_started answer, and after no other, never makes a target execute    *)
(* it twice (rpc-call in rpcHandler.ts, docs/protocol.md on rpc-call).     *)
(***************************************************************************)
AtMostOnce ==
    \A c \in Caller :
        /\ call[c].delivered <= 1
        /\ call[c].outcome = "not_started" => call[c].delivered = 0

(***************************************************************************)
(* Once events and failures cease, Redis converges to the freshest live    *)
(* registration of every method, also after Redis lost its keys, commands  *)
(* timed out or the process died; and the socket that was last told        *)
(* rpc-registered stays the target for as long as it is connected and owns *)
(* its session (comment on RpcRegistrationLifecycle).                      *)
(***************************************************************************)
Freshest(m) ==
    LET holders == {s \in Socket : life[s].held[m] # 0} IN
    IF holders = {} THEN Absent
    ELSE LET s == CHOOSE t \in holders : \A u \in holders : life[u].held[m] <= life[t].held[m]
         IN [sock |-> s, gen |-> life[s].held[m]]

LastRegistered(s, m) ==
    /\ client[s].state = "up" /\ client[s].wants[m]
    /\ client[s].acked[m] = clock
    /\ s \in Fenced => owner = s

Converges ==
    <>[](\A m \in Method :
            /\ redis[m] = Freshest(m)
            /\ \A s \in Socket : LastRegistered(s, m) => redis[m].sock = s)
=============================================================================
