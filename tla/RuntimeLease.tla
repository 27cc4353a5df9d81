----------------------------- MODULE RuntimeLease -----------------------------
(***************************************************************************)
(* The runtime-connection lease of one session: who, among the sockets of  *)
(* the session's process incarnations, is allowed to act as its runtime.   *)
(*                                                                         *)
(* sources/app/presence/runtimeConnectionLease.ts keeps the lease in the   *)
(* Session row and the retired incarnations in their own table; socket.ts, *)
(* runtimeConnectionGuard.ts and sessionUpdateHandler.ts issue its         *)
(* statements; timeout.ts sweeps silent sessions.                          *)
(*                                                                         *)
(* Every lease transition is ONE PostgreSQL statement at READ COMMITTED.   *)
(* Its snapshot and its CURRENT_TIMESTAMP are fixed when it starts; it may *)
(* then wait for the session's advisory lock or for the row lock.  When it *)
(* gets through, the Session row is tested again at its newest version and *)
(* ON CONFLICT sees the newest retirement row, but a NOT EXISTS over the   *)
(* retirement table still reads the old snapshot.  So a statement is two   *)
(* steps here: Begin records what it saw, Commit applies it.               *)
(*                                                                         *)
(* Definitions whose name ends in Mut are deliberate defects of the        *)
(* definition that follows them: each one breaks a property below.         *)
(***************************************************************************)
EXTENDS Integers, FiniteSets

CONSTANTS
    Instance,       \* sessionInstanceIds that processes pick for themselves
    Socket,         \* sockets; the lease ID a handshake draws is the socket's name
    Synthetic,      \* the incarnation ID drawn for a no-ID replay of a virgin row
    Tombstone,      \* a lease ID that no socket owns
    Null,           \* SQL NULL / undefined
    LeaseDuration,  \* RUNTIME_CONNECTION_LEASE_DURATION_MS, also the legacy grace
    SweepAge,       \* the ten minutes of the timeout sweep
    ClockSkew,      \* bound on |application clock - database clock|
    Handshake,      \* bound: the handshake inputs considered
    Activity,       \* bound: the kinds of activity considered after the handshake
    Horizon,        \* bound: no new client activity starts after this time
    MaxTime,        \* bound: the clock stops here
    MaxInFlight     \* bound: statements in flight at once

ASSUME TimeAssumption ==
    /\ LeaseDuration \in Nat \ {0}
    /\ ClockSkew \in Nat
    /\ SweepAge \in Nat
    /\ SweepAge >= LeaseDuration + ClockSkew

ASSUME InputAssumption ==
    /\ Handshake \subseteq [replayOnly : BOOLEAN, asked : Instance \union {Null}]
    /\ Activity \subseteq {"renew", "write", "end", "owner", "sweep", "silence", "abort"}

ASSUME ValueAssumption ==
    /\ Null \notin Nat /\ Null \notin Socket /\ Null \notin Instance
    /\ Synthetic \notin Instance /\ Synthetic # Null
    /\ Tombstone \notin Socket /\ Tombstone # Null

VARIABLES
    session,        \* the lease columns of the Session row
    retirement,     \* status column of SessionRuntimeInstanceRetirement, per incarnation
    socket,         \* what the server process knows of each socket
    inflight,       \* statements whose snapshot is taken and that have not finished
    lock,           \* socket whose owner operation holds the advisory lock, or Null
    evicting,       \* displaced lease IDs whose eviction command is under way
    sweep,          \* cutoff of a timeout iteration between its find and its write, or Null
    now             \* database clock

vars == <<session, retirement, socket, inflight, lock, evicting, sweep, now>>

Incarnation == Instance \union {Synthetic}

Status == {"none", "replaying", "superseded", "ended"}

SessionRow ==
    [active : BOOLEAN,
     activeInstanceId : Incarnation \union {Null},
     leaseId : Socket \union {Tombstone, Null},
     leaseInstanceId : Incarnation \union {Null},
     leaseExpiresAt : Nat \union {Null},
     lastActiveAt : Nat]

(***************************************************************************)
(* A socket is idle, then claiming (handshake), then open.  closing: the   *)
(* disconnect handler ran and owes the lease expiry; closed: nothing owed. *)
(* silent: the client or the server process is gone and nobody noticed, so *)
(* it starts nothing more, at time `since'.                                *)
(***************************************************************************)
Phase == {"idle", "claiming", "open", "closing", "closed", "silent"}

SocketData ==
    [phase : Phase,
     replayOnly : BOOLEAN,
     asked : Instance \union {Null},     \* handshake.auth.sessionInstanceId
     inst : Incarnation \union {Null},   \* socket.data.sessionInstanceId
     leased : BOOLEAN,                   \* socket.data.runtimeConnectionLeaseId is set
     since : Nat]

Op == {"claim", "replay", "renew", "write", "expire", "end", "owner"}

(***************************************************************************)
(* A statement in flight: the retirement table and the clock it started    *)
(* with, and whether the Session row qualified in its snapshot (a row that *)
(* did not is never looked at again).                                      *)
(***************************************************************************)
Statement ==
    [op : Op, sock : Socket, at : Nat, seen : [Incarnation -> Status], hit : BOOLEAN]

TypeOK ==
    /\ session \in SessionRow
    /\ retirement \in [Incarnation -> Status]
    /\ socket \in [Socket -> SocketData]
    /\ inflight \subseteq Statement
    /\ lock \in Socket \union {Null}
    /\ evicting \subseteq Socket
    /\ sweep \in Nat \union {Null}
    /\ now \in Nat

-----------------------------------------------------------------------------
(* WHERE clauses, over a version r of the row, a view of the retirements   *)
(* and the statement's CURRENT_TIMESTAMP t.                                *)

Unleased(r) ==
    r.leaseId = Null /\ r.leaseInstanceId = Null /\ r.leaseExpiresAt = Null

ExpiredMut(r, t) == r.leaseExpiresAt # Null /\ r.leaseExpiresAt < t

Expired(r, t) == r.leaseExpiresAt # Null /\ r.leaseExpiresAt <= t

UnexpiredMut(r, t) == r.leaseExpiresAt # Null /\ r.leaseExpiresAt >= t

Unexpired(r, t) == r.leaseExpiresAt # Null /\ r.leaseExpiresAt > t

LegacyGraceOver(r, t) == Unleased(r) /\ r.lastActiveAt <= t - LeaseDuration

LiveClaimable(r, i, seen, t) ==
    /\ seen[i] = "none"
    /\ \/ r.activeInstanceId \in {Null, i}
       \/ ~r.active
       \/ Expired(r, t)
       \/ LegacyGraceOver(r, t)

\* The incarnation a replay transport speaks for.
ReplayInstance(r, asked) ==
    IF asked # Null THEN asked
    ELSE IF r.activeInstanceId = Null THEN Synthetic
    ELSE r.activeInstanceId

ReplayClaimable(r, asked, seen, t) ==
    /\ \/ asked # Null /\ r.activeInstanceId \in {Null, asked}
       \/ asked = Null
    /\ \/ asked # Null
       \/ ~r.active
       \/ /\ ~Unleased(r)
          /\ \/ r.leaseId = Null
             \/ r.leaseInstanceId # r.activeInstanceId
             \/ Expired(r, t)
       \/ LegacyGraceOver(r, t)
    /\ seen[ReplayInstance(r, asked)] \in {"none", "replaying"}

ExactGenerationMut(r, s, i, seen) ==
    r.active /\ r.activeInstanceId = i /\ r.leaseInstanceId = i /\ seen[i] = "none"

\* The exact process/socket generation, active and not retired.
ExactGeneration(r, s, i, seen) ==
    /\ r.active
    /\ r.activeInstanceId = i
    /\ r.leaseInstanceId = i
    /\ r.leaseId = s
    /\ seen[i] = "none"

\* A row that no lease-aware runtime has ever touched.
WhollyLegacy(r) == r.activeInstanceId = Null /\ Unleased(r)

\* runtimeConnectionOwnershipSql: a partial tuple never owns.
Owns(r, s, k, seen, t) ==
    \/ /\ k.inst = Null /\ ~k.leased
       /\ r.active /\ WhollyLegacy(r)
    \/ /\ k.inst # Null /\ k.leased
       /\ ExactGeneration(r, s, k.inst, seen)
       /\ Unexpired(r, t)

Renewable(r, s, k, seen) ==
    \/ k.inst = Null /\ ~k.leased /\ WhollyLegacy(r)
    \/ k.inst # Null /\ k.leased /\ ExactGeneration(r, s, k.inst, seen)

Endable(r, i, seen) ==
    /\ r.activeInstanceId = i
    /\ seen[i] \in {"none", "replaying"}

\* The incarnation a session-end packet of this socket names.
EndInstance(k) == IF k.replayOnly /\ k.asked # Null THEN k.asked ELSE k.inst

Qualifies(op, s, k, seen, t, r) ==
    \/ op = "claim" /\ LiveClaimable(r, k.asked, seen, t)
    \/ op = "replay" /\ ReplayClaimable(r, k.asked, seen, t)
    \/ op = "renew" /\ Renewable(r, s, k, seen)
    \/ op \in {"write", "owner"} /\ Owns(r, s, k, seen, t)
    \/ op = "expire" /\ ExactGeneration(r, s, k.inst, seen)
    \/ op = "end" /\ Endable(r, EndInstance(k), seen)

MatchesMut(q) == q.hit

\* Qualified in its snapshot, and again at the newest version of the row.
Matches(q) ==
    /\ q.hit
    /\ Qualifies(q.op, q.sock, socket[q.sock], q.seen, q.at, session)

\* isRuntimeConnected, findRuntimeConnectionSession: what readers are told.
RuntimeConnected(r, seen, t) ==
    /\ r.active
    /\ r.activeInstanceId # Null
    /\ seen[r.activeInstanceId] = "none"
    /\ IF Unleased(r)
       THEN r.lastActiveAt > t - LeaseDuration
       ELSE /\ r.leaseId # Null
            /\ r.leaseInstanceId = r.activeInstanceId
            /\ Unexpired(r, t)
-----------------------------------------------------------------------------
(* A session as POST /v1/sessions leaves it, or as the binary before the   *)
(* lease protocol left it: with an incarnation and no lease columns.       *)
Init ==
    /\ \E i \in Instance \union {Null} : session =
         [active |-> TRUE, activeInstanceId |-> i,
          leaseId |-> Null, leaseInstanceId |-> Null, leaseExpiresAt |-> Null,
          lastActiveAt |-> 0]
    /\ retirement = [i \in Incarnation |-> "none"]
    /\ socket = [s \in Socket |->
         [phase |-> "idle", replayOnly |-> FALSE, asked |-> Null,
          inst |-> Null, leased |-> FALSE, since |-> 0]]
    /\ inflight = {}
    /\ lock = Null
    /\ evicting = {}
    /\ sweep = Null
    /\ now = 0

Begin(op, s, k) ==
    /\ Cardinality(inflight) < MaxInFlight
    /\ inflight' = inflight \union
         {[op |-> op, sock |-> s, at |-> now, seen |-> retirement,
           hit |-> Qualifies(op, s, k, retirement, now, session)]}

Finish(q) == inflight' = inflight \ {q}

\* socket.disconnect / the disconnect event: the expiry is owed only by a
\* socket that owned a lease.
Close(k) ==
    [k EXCEPT !.phase = IF k.inst # Null /\ k.leased THEN "closing" ELSE "closed"]

\* rejectRuntimeConnection
Reject(k) == IF k.phase = "open" THEN Close(k) ELSE k

(***************************************************************************)
(* Handshake.  A live transport without an incarnation ID is a legacy      *)
(* client and claims nothing.                                              *)
(***************************************************************************)
Legacy(h) == ~h.replayOnly /\ h.asked = Null

ClaimKind(h) == IF h.replayOnly THEN "replay" ELSE "claim"

Shake(k, h) ==
    [k EXCEPT !.phase = IF Legacy(h) THEN "open" ELSE "claiming",
              !.replayOnly = h.replayOnly, !.asked = h.asked]

Connect(s) ==
    /\ now <= Horizon
    /\ socket[s].phase = "idle"
    /\ \E h \in Handshake :
         /\ socket' = [socket EXCEPT ![s] = Shake(socket[s], h)]
         /\ \/ Legacy(h) /\ UNCHANGED inflight
            \/ ~Legacy(h) /\ Begin(ClaimKind(h), s, Shake(socket[s], h))
    /\ UNCHANGED <<session, retirement, lock, evicting, sweep, now>>

\* The claim answered: a handshake still waited for enters phase p.
Answered(k, p) == IF k.phase = "claiming" THEN p ELSE k.phase

Opened(s, i) ==
    socket' = [socket EXCEPT ![s] = [socket[s] EXCEPT
        !.phase = Answered(socket[s], "open"), !.inst = i, !.leased = TRUE]]

Refused(s) ==
    socket' = [socket EXCEPT ![s] = [socket[s] EXCEPT
        !.phase = Answered(socket[s], "closed")]]

EvictDisplacedRoomMut(s) ==
    evicting' = evicting \union ({session.leaseId, s} \cap Socket)

\* disconnectSockets on the room of the displaced generation
EvictDisplaced(s) ==
    evicting' = evicting \union ({session.leaseId} \cap (Socket \ {s}))

ClaimLive(q) ==
    LET i == socket[q.sock].asked
        previous == session.activeInstanceId
    IN  /\ retirement' =
             IF previous # Null /\ previous # i
             THEN [retirement EXCEPT ![previous] =
                     IF @ \in {"none", "replaying"} THEN "superseded" ELSE @]
             ELSE retirement
        /\ session' = [session EXCEPT
             !.active = TRUE, !.activeInstanceId = i,
             !.leaseId = q.sock, !.leaseInstanceId = i,
             !.leaseExpiresAt = q.at + LeaseDuration, !.lastActiveAt = q.at]
        /\ Opened(q.sock, i)
        /\ EvictDisplaced(q.sock)

CommitClaim(q) ==
    /\ q.op = "claim"
    /\ lock = Null
    /\ Finish(q)
    /\ \/ Matches(q) /\ ClaimLive(q)
       \/ /\ ~Matches(q)
          /\ Refused(q.sock)
          /\ UNCHANGED <<session, retirement, evicting>>
    /\ UNCHANGED <<lock, sweep, now>>

ClaimReplay(q, i) ==
    /\ retirement' = [retirement EXCEPT ![i] = IF @ = "none" THEN "replaying" ELSE @]
    /\ session' = [session EXCEPT
         !.active = FALSE, !.activeInstanceId = i,
         !.leaseId = q.sock, !.leaseInstanceId = i,
         !.leaseExpiresAt = q.at + LeaseDuration]
    /\ Opened(q.sock, i)
    /\ EvictDisplaced(q.sock)

ReplayConflictFreeMut(i) == TRUE

\* ON CONFLICT ... WHERE status = 'replaying' tests the newest retirement row.
ReplayConflictFree(i) == retirement[i] \in {"none", "replaying"}

\* A replay transport that claims nothing still connects, for duplicates only.
CommitReplay(q) ==
    LET i == ReplayInstance(session, socket[q.sock].asked)
        claimed == Matches(q) /\ ReplayConflictFree(i)
    IN  /\ q.op = "replay"
        /\ lock = Null
        /\ Finish(q)
        /\ \/ claimed /\ ClaimReplay(q, i)
           \/ /\ ~claimed
              /\ socket' = [socket EXCEPT ![q.sock] = [socket[q.sock] EXCEPT
                   !.phase = Answered(socket[q.sock], "open"),
                   !.inst = socket[q.sock].asked]]
              /\ UNCHANGED <<session, retirement, evicting>>
        /\ UNCHANGED <<lock, sweep, now>>

(***************************************************************************)
(* session-alive.  A packet received before the disconnect may reach the   *)
(* database after it.                                                      *)
(***************************************************************************)
Handling(k) == k.phase \in {"open", "closing", "closed"}

Partial(k) == (k.inst = Null) # (~k.leased)

BeginRenew(s) ==
    /\ "renew" \in Activity /\ now <= Horizon
    /\ Handling(socket[s])
    /\ ~socket[s].replayOnly /\ ~Partial(socket[s])
    /\ Begin("renew", s, socket[s])
    /\ UNCHANGED <<session, retirement, socket, lock, evicting, sweep, now>>

CommitRenew(q) ==
    /\ q.op = "renew"
    /\ Finish(q)
    /\ \/ /\ Matches(q)
          /\ session' =
               IF socket[q.sock].leased
               THEN [session EXCEPT !.leaseExpiresAt = q.at + LeaseDuration,
                                    !.lastActiveAt = q.at]
               ELSE [session EXCEPT !.active = TRUE, !.lastActiveAt = q.at]
          /\ UNCHANGED socket
       \/ /\ ~Matches(q)
          /\ socket' = [socket EXCEPT ![q.sock] = Reject(@)]
          /\ UNCHANGED session
    /\ UNCHANGED <<retirement, lock, evicting, sweep, now>>

(***************************************************************************)
(* update-metadata / update-state: one UPDATE guarded by ownership.  The   *)
(* values it stores are the business of VersionedWrite; here only who may  *)
(* store.  On a lost write the handler asks again whether it still owns.   *)
(***************************************************************************)
BeginWrite(s) ==
    /\ "write" \in Activity /\ now <= Horizon
    /\ Handling(socket[s])
    /\ ~socket[s].replayOnly /\ ~Partial(socket[s])
    /\ Begin("write", s, socket[s])
    /\ UNCHANGED <<session, retirement, socket, lock, evicting, sweep, now>>

CommitWrite(q) ==
    /\ q.op = "write"
    /\ Finish(q)
    /\ socket' =
         IF Matches(q) \/ Owns(session, q.sock, socket[q.sock], retirement, now)
         THEN socket
         ELSE [socket EXCEPT ![q.sock] = Reject(@)]
    /\ UNCHANGED <<session, retirement, lock, evicting, sweep, now>>

(***************************************************************************)
(* session-end.                                                            *)
(***************************************************************************)
BeginEnd(s) ==
    /\ "end" \in Activity /\ now <= Horizon
    /\ Handling(socket[s])
    /\ EndInstance(socket[s]) # Null
    /\ Begin("end", s, socket[s])
    /\ UNCHANGED <<session, retirement, socket, lock, evicting, sweep, now>>

End(q) ==
    LET i == EndInstance(socket[q.sock])
    IN  /\ retirement' = [retirement EXCEPT ![i] = "ended"]
        /\ session' = [session EXCEPT
             !.active = FALSE, !.lastActiveAt = q.at,
             !.leaseId = Tombstone, !.leaseInstanceId = i, !.leaseExpiresAt = q.at]

CommitEnd(q) ==
    /\ q.op = "end"
    /\ lock = Null
    /\ Finish(q)
    /\ \/ Matches(q) /\ End(q)
       \/ ~Matches(q) /\ UNCHANGED <<session, retirement>>
    /\ UNCHANGED <<socket, lock, evicting, sweep, now>>

\* The timestamp-fenced end of a client without incarnation: no advisory lock.
LegacyEnd(s) ==
    /\ "end" \in Activity /\ now <= Horizon
    /\ Handling(socket[s])
    /\ ~socket[s].replayOnly /\ socket[s].inst = Null
    /\ WhollyLegacy(session)
    /\ \E t \in session.lastActiveAt .. now + ClockSkew :
         session' = [session EXCEPT
           !.active = FALSE, !.lastActiveAt = t,
           !.leaseId = Tombstone, !.leaseExpiresAt = t]
    /\ UNCHANGED <<retirement, socket, inflight, lock, evicting, sweep, now>>

(***************************************************************************)
(* Disconnects.                                                            *)
(***************************************************************************)
Disconnect(s) ==
    /\ socket[s].phase = "open"
    /\ socket' = [socket EXCEPT ![s] = Close(@)]
    /\ UNCHANGED <<session, retirement, inflight, lock, evicting, sweep, now>>

BeginExpire(s) ==
    /\ socket[s].phase = "closing"
    /\ socket' = [socket EXCEPT ![s].phase = "closed"]
    /\ Begin("expire", s, socket[s])
    /\ UNCHANGED <<session, retirement, lock, evicting, sweep, now>>

Expire(q) ==
    session' = [session EXCEPT
      !.leaseId = Tombstone, !.leaseInstanceId = socket[q.sock].inst,
      !.leaseExpiresAt = q.at]

CommitExpireMut(q) ==
    /\ q.op = "expire"
    /\ Finish(q)
    /\ \/ Matches(q) /\ Expire(q)
       \/ ~Matches(q) /\ UNCHANGED session
    /\ UNCHANGED <<retirement, socket, lock, evicting, sweep, now>>

CommitExpire(q) ==
    /\ q.op = "expire"
    /\ lock = Null
    /\ Finish(q)
    /\ \/ Matches(q) /\ Expire(q)
       \/ ~Matches(q) /\ UNCHANGED session
    /\ UNCHANGED <<retirement, socket, lock, evicting, sweep, now>>

\* The server process or the client is lost without a disconnect event.
Silence(s) ==
    /\ "silence" \in Activity
    /\ socket[s].phase \in {"claiming", "open", "closing"}
    /\ socket' = [socket EXCEPT ![s].phase = "silent", ![s].since = now]
    /\ UNCHANGED <<session, retirement, inflight, lock, evicting, sweep, now>>

\* A statement fails in the database or on the way to it: it changes nothing.
Abort(q) ==
    /\ "abort" \in Activity
    /\ Finish(q)
    /\ Refused(q.sock)
    /\ UNCHANGED <<session, retirement, lock, evicting, sweep, now>>

DeliverEvict(s) ==
    /\ s \in evicting
    /\ evicting' = evicting \ {s}
    /\ socket' = [socket EXCEPT ![s] = Reject(@)]
    /\ UNCHANGED <<session, retirement, inflight, lock, sweep, now>>

LoseEvict(s) ==
    /\ s \in evicting
    /\ evicting' = evicting \ {s}
    /\ UNCHANGED <<session, retirement, socket, inflight, lock, sweep, now>>

(***************************************************************************)
(* runWithRuntimeConnectionOwnerLock: ownership is read in the statement   *)
(* that tries the lock, hence in a snapshot that precedes the lock.        *)
(***************************************************************************)
BeginOwnerOp(s) ==
    /\ "owner" \in Activity /\ now <= Horizon
    /\ Handling(socket[s]) /\ ~socket[s].replayOnly
    /\ Begin("owner", s, socket[s])
    /\ UNCHANGED <<session, retirement, socket, lock, evicting, sweep, now>>

TryOwnerLock(q) ==
    /\ q.op = "owner"
    /\ Finish(q)
    /\ lock' = IF lock = Null /\ q.hit THEN q.sock ELSE lock
    /\ UNCHANGED <<session, retirement, socket, evicting, sweep, now>>

FinishOwnerOpMut ==
    /\ lock # Null
    /\ socket[lock].phase = "open"
    /\ lock' = Null
    /\ UNCHANGED <<session, retirement, socket, inflight, evicting, sweep, now>>

\* The operation returned, or its transaction timed out.
FinishOwnerOp ==
    /\ lock # Null
    /\ lock' = Null
    /\ UNCHANGED <<session, retirement, socket, inflight, evicting, sweep, now>>

(***************************************************************************)
(* startTimeout, session part: the cutoff is read off the application      *)
(* clock once and repeated in the write.                                   *)
(***************************************************************************)
SweepFind ==
    /\ "sweep" \in Activity
    /\ sweep = Null
    /\ session.active
    /\ \E cutoff \in now - ClockSkew - SweepAge .. now + ClockSkew - SweepAge :
         cutoff >= session.lastActiveAt /\ sweep' = cutoff
    /\ UNCHANGED <<session, retirement, socket, inflight, lock, evicting, now>>

SweepWriteMut ==
    /\ sweep # Null
    /\ sweep' = Null
    /\ session' = [session EXCEPT !.active = FALSE]
    /\ UNCHANGED <<retirement, socket, inflight, lock, evicting, now>>

SweepWrite ==
    /\ sweep # Null
    /\ sweep' = Null
    /\ session' = IF session.active /\ session.lastActiveAt <= sweep
                  THEN [session EXCEPT !.active = FALSE] ELSE session
    /\ UNCHANGED <<retirement, socket, inflight, lock, evicting, now>>

Tick ==
    /\ now < MaxTime
    /\ now' = now + 1
    /\ UNCHANGED <<session, retirement, socket, inflight, lock, evicting, sweep>>
-----------------------------------------------------------------------------
Commit(q) ==
    \/ CommitClaim(q) \/ CommitReplay(q) \/ CommitRenew(q) \/ CommitWrite(q)
    \/ CommitEnd(q) \/ CommitExpire(q) \/ TryOwnerLock(q)

Next ==
    \/ \E s \in Socket :
         \/ Connect(s) \/ BeginRenew(s) \/ BeginWrite(s) \/ BeginEnd(s)
         \/ LegacyEnd(s) \/ Disconnect(s) \/ BeginExpire(s) \/ Silence(s)
         \/ BeginOwnerOp(s) \/ DeliverEvict(s) \/ LoseEvict(s)
    \/ \E q \in inflight : Commit(q) \/ Abort(q)
    \/ FinishOwnerOp
    \/ SweepFind
    \/ SweepWrite
    \/ Tick

Spec == Init /\ [][Next]_vars

(***************************************************************************)
(* Fairness.  A statement in flight ends; the advisory lock is queued      *)
(* first come first served, hence strong fairness of what waits for it;    *)
(* an owner operation is bounded by its transaction timeout.               *)
(***************************************************************************)
Fairness ==
    /\ \A s \in Socket : SF_vars(\E q \in inflight :
         q.sock = s /\ (CommitClaim(q) \/ CommitReplay(q)))
    /\ WF_vars(FinishOwnerOp)

FairSpec == Spec /\ Fairness
-----------------------------------------------------------------------------
(***************************************************************************)
(* The write fence.  A heartbeat, a metadata or state write or a           *)
(* disconnect expiry that is about to take effect belongs to an            *)
(* incarnation that is not retired NOW, although the statement tests the   *)
(* retirement table in a snapshot that may be older than the retirement    *)
(* (renewRuntimeConnectionLease, runtimeConnectionOwnershipSql,            *)
(* expireRuntimeConnectionLease).                                          *)
(***************************************************************************)
WriteFence ==
    \A q \in inflight :
        /\ q.op \in {"renew", "write", "expire"}
        /\ socket[q.sock].leased
        /\ Matches(q)
        => retirement[socket[q.sock].inst] = "none"

(***************************************************************************)
(* A replay transport that holds the lease speaks for an incarnation that  *)
(* is still 'replaying': an end or a successor that committed while the    *)
(* replay handshake waited for the lock is not undone by it.               *)
(***************************************************************************)
ReplayLeaseNotFinal ==
    \A s \in Socket :
        socket[s].replayOnly /\ session.leaseId = s
        => retirement[session.activeInstanceId] = "replaying"

(***************************************************************************)
(* A handshake never takes the session from a runtime that readers of      *)
(* findRuntimeConnectionSession are still told is connected.               *)
(***************************************************************************)
NoPrematureTakeover ==
    [][session'.activeInstanceId # session.activeInstanceId
       => ~RuntimeConnected(session, retirement, now)]_vars

(***************************************************************************)
(* The late disconnect of an older socket does not clear the lease of a    *)
(* newer one: a lease turns into a tombstone only after its own socket     *)
(* closed or its incarnation ended (disconnect handler of socket.ts).      *)
(***************************************************************************)
LateDisconnectHarmless ==
    [][\A s \in Socket :
         session.leaseId = s /\ session'.leaseId = Tombstone
         => \/ socket[s].phase = "closed"
            \/ retirement'[session.activeInstanceId] = "ended"]_vars

(***************************************************************************)
(* The timeout sweep never deactivates a session whose runtime is          *)
(* connected, whatever heartbeat or takeover slipped in between its find   *)
(* and its write and whatever the skew of the application clock.           *)
(***************************************************************************)
SweepSparesConnected ==
    [][session.active /\ ~session'.active /\ retirement' = retirement
       => ~RuntimeConnected(session, retirement, now)]_vars

(***************************************************************************)
(* A runtime that vanished without a disconnect event is reported          *)
(* connected for less than one lease duration.                             *)
(***************************************************************************)
StalePositiveBounded ==
    \A s \in Socket :
        /\ socket[s].phase = "silent"
        /\ session.leaseId = s
        /\ RuntimeConnected(session, retirement, now)
        => now < socket[s].since + LeaseDuration

(***************************************************************************)
(* Once a disconnect or an end left its tombstone, no reader is told that  *)
(* the runtime is connected, queued heartbeats notwithstanding.            *)
(***************************************************************************)
TombstoneNotConnected ==
    session.leaseId = Tombstone => ~RuntimeConnected(session, retirement, now)

(***************************************************************************)
(* While an owner operation holds the advisory lock no claim, end or       *)
(* disconnect changes the generation or the retirements under it.          *)
(***************************************************************************)
OwnerLockFence ==
    [][lock # Null /\ session.leaseId \in Socket
       => session'.leaseId = session.leaseId /\ retirement' = retirement]_vars

(***************************************************************************)
(* An eviction command under way never names the current lease: delivered  *)
(* late, it cannot disconnect the winner.                                  *)
(***************************************************************************)
EvictionsAreStale == session.leaseId \notin evicting

(***************************************************************************)
(* Readiness and admission agree: when readers are told that nobody is     *)
(* connected, and the last incarnation is not retired, a fresh incarnation *)
(* is admitted at once.                                                    *)
(***************************************************************************)
ReadinessMatchesAdmission ==
    /\ ~RuntimeConnected(session, retirement, now)
    /\ session.activeInstanceId # Null => retirement[session.activeInstanceId] = "none"
    => \A i \in Instance :
         retirement[i] = "none" => LiveClaimable(session, i, retirement, now)

(***************************************************************************)
(* Every handshake is answered, although owner operations of other sockets *)
(* keep taking the advisory lock it waits for.                             *)
(***************************************************************************)
HandshakeResolves ==
    \A s \in Socket :
        socket[s].phase = "claiming" ~> socket[s].phase # "claiming"

(***************************************************************************)
(* What docs/protocol.md says: "a normally retired incarnation cannot      *)
(* become live again".                                                     *)
(***************************************************************************)
RetiredNeverLive ==
    session.active /\ session.leaseId \in Socket
    => retirement[session.activeInstanceId] = "none"
=============================================================================
