-------------------------- MODULE RuntimeLeaseProofs --------------------------
(***************************************************************************)
(* Proofs about RuntimeLease, for any set of incarnations and sockets, any *)
(* lease duration and any number of statements in flight.                  *)
(***************************************************************************)
EXTENDS RuntimeLease, TLAPS

-----------------------------------------------------------------------------
(* The inductive invariant, in the parts the theorems need.                *)

ClaimOp == {"claim", "replay"}
FencedOp == {"renew", "write", "expire"}

\* Nothing in the row, in flight or under eviction mentions a socket before
\* its handshake, and nothing but the claim itself mentions it before the
\* claim finished.
Freshness ==
    /\ \A s \in Socket :
         socket[s].phase = "idle" =>
           /\ session.leaseId # s
           /\ s \notin evicting
           /\ ~socket[s].leased
           /\ \A q \in inflight : q.sock # s
    /\ \A q \in inflight :
         q.op \in ClaimOp =>
           /\ session.leaseId # q.sock
           /\ q.sock \notin evicting
           /\ ~socket[q.sock].leased
           /\ socket[q.sock].phase \in {"claiming", "silent"}
           /\ q.op = "replay" <=> socket[q.sock].replayOnly
           /\ q.op = "claim" => socket[q.sock].asked # Null
           /\ \A p \in inflight : p.sock = q.sock => p = q

\* Every retirement rotates the lease, so a statement of the current lease
\* holder has seen all the retirements there are.
SeenFence ==
    \A q \in inflight :
        /\ q.op \in FencedOp
        /\ socket[q.sock].leased
        /\ session.leaseId = q.sock
        /\ q.seen[socket[q.sock].inst] = "none"
        => retirement[socket[q.sock].inst] = "none"

\* The shape of the row.
RowShape ==
    /\ session.leaseId = Null => Unleased(session)
    /\ session.leaseId # Null => session.leaseExpiresAt # Null
    /\ session.leaseId \in Socket =>
         /\ session.activeInstanceId # Null
         /\ session.leaseInstanceId = session.activeInstanceId
         /\ session.leaseExpiresAt <= now + LeaseDuration
         /\ session.active => session.leaseExpiresAt = session.lastActiveAt + LeaseDuration
    /\ session.leaseId = Tombstone /\ session.active => session.leaseExpiresAt <= now

\* Statements and the sweep carry times of the past.
PastTimes ==
    /\ \A q \in inflight : q.at <= now
    /\ \A q \in inflight :
         socket[q.sock].phase = "silent" => q.at <= socket[q.sock].since
    /\ \A s \in Socket :
         socket[s].phase = "silent" /\ session.leaseId = s
         => session.leaseExpiresAt <= socket[s].since + LeaseDuration
    /\ sweep # Null => sweep <= now + ClockSkew - SweepAge

\* The expiry of a lease is issued only after its socket closed.
ExpiryOfClosed ==
    \A q \in inflight : q.op = "expire" => socket[q.sock].phase = "closed"

IInv ==
    /\ TypeOK
    /\ Freshness
    /\ SeenFence
    /\ RowShape
    /\ PastTimes
    /\ ExpiryOfClosed
    /\ ReplayLeaseNotFinal
    /\ EvictionsAreStale
-----------------------------------------------------------------------------
\* Begin keeps the set of statements in flight well typed.
LEMMA BeginType ==
    ASSUME TypeOK, NEW op \in Op, NEW s \in Socket, NEW k, Begin(op, s, k)
    PROVE  inflight' \subseteq Statement
<1>1. Qualifies(op, s, k, retirement, now, session) \in BOOLEAN
  BY DEF Qualifies, LiveClaimable, ReplayClaimable, Renewable, Owns, ExactGeneration, Endable
<1>2. [op |-> op, sock |-> s, at |-> now, seen |-> retirement,
       hit |-> Qualifies(op, s, k, retirement, now, session)] \in Statement
  BY <1>1 DEF TypeOK, Statement
<1> QED
  BY <1>2 DEF TypeOK, Begin

\* The answer of a claim leaves every socket well typed.
LEMMA OpenedType ==
    ASSUME TypeOK, NEW s \in Socket, NEW i \in Incarnation \union {Null}, Opened(s, i)
    PROVE  socket' \in [Socket -> SocketData]
<1>1. socket[s] \in SocketData
  BY DEF TypeOK
<1>2. [socket[s] EXCEPT !.phase = Answered(socket[s], "open"), !.inst = i, !.leased = TRUE]
      \in SocketData
  BY <1>1 DEF SocketData, Phase, Answered
<1> QED
  BY <1>2 DEF TypeOK, Opened

\* A refused claim leaves every socket well typed.
LEMMA RefusedType ==
    ASSUME TypeOK, NEW s \in Socket, Refused(s)
    PROVE  socket' \in [Socket -> SocketData]
<1>1. socket[s] \in SocketData
  BY DEF TypeOK
<1>2. [socket[s] EXCEPT !.phase = Answered(socket[s], "closed")] \in SocketData
  BY <1>1 DEF SocketData, Phase, Answered
<1> QED
  BY <1>2 DEF TypeOK, Refused

\* Closing or rejecting a socket leaves its record well typed.
LEMMA CloseType ==
    ASSUME NEW k \in SocketData
    PROVE  Close(k) \in SocketData /\ Reject(k) \in SocketData
BY DEF Close, Reject, SocketData, Phase

\* Initially every variable has its type.
LEMMA InitType == Init => TypeOK
<1> SUFFICES ASSUME Init PROVE TypeOK
  OBVIOUS
<1>1. session \in SessionRow
  BY DEF Init, SessionRow, Incarnation
<1>2. retirement \in [Incarnation -> Status]
  BY DEF Init, Status
<1>3. socket \in [Socket -> SocketData]
  BY DEF Init, SocketData, Phase
<1> QED
  BY <1>1, <1>2, <1>3 DEF Init, TypeOK

\* Every step keeps every variable in its type.
LEMMA NextType == TypeOK /\ [Next]_vars => TypeOK'
<1> SUFFICES ASSUME TypeOK, [Next]_vars PROVE TypeOK'
  OBVIOUS
<1> USE TimeAssumption, ValueAssumption
<1>1. ASSUME NEW s \in Socket, Connect(s) PROVE TypeOK'
  <2>1. PICK h \in Handshake :
          /\ socket' = [socket EXCEPT ![s] = Shake(socket[s], h)]
          /\ UNCHANGED inflight \/ Begin(ClaimKind(h), s, Shake(socket[s], h))
    BY <1>1 DEF Connect
  <2>2. Shake(socket[s], h) \in SocketData
    <3>1. h.replayOnly \in BOOLEAN /\ h.asked \in Instance \union {Null}
      BY InputAssumption
    <3>2. socket[s] \in SocketData
      BY DEF TypeOK
    <3> QED
      BY <3>1, <3>2 DEF Shake, SocketData, Phase
  <2>3. inflight' \subseteq Statement
    BY <2>1, BeginType DEF TypeOK, Op, ClaimKind
  <2> QED
    BY <1>1, <2>1, <2>2, <2>3 DEF TypeOK, Connect
<1>2. ASSUME NEW s \in Socket, BeginRenew(s) PROVE TypeOK'
  BY <1>2, BeginType DEF TypeOK, BeginRenew, Op
<1>3. ASSUME NEW s \in Socket, BeginWrite(s) PROVE TypeOK'
  BY <1>3, BeginType DEF TypeOK, BeginWrite, Op
<1>4. ASSUME NEW s \in Socket, BeginEnd(s) PROVE TypeOK'
  BY <1>4, BeginType DEF TypeOK, BeginEnd, Op
<1>5. ASSUME NEW s \in Socket, LegacyEnd(s) PROVE TypeOK'
  <2>1. PICK t \in session.lastActiveAt .. now + ClockSkew :
          session' = [session EXCEPT !.active = FALSE, !.lastActiveAt = t,
                                     !.leaseId = Tombstone, !.leaseExpiresAt = t]
    BY <1>5 DEF LegacyEnd
  <2>2. t \in Nat
    BY DEF TypeOK, SessionRow
  <2>3. session' \in SessionRow
    BY <2>1, <2>2 DEF TypeOK, SessionRow
  <2> QED
    BY <1>5, <2>3 DEF TypeOK, LegacyEnd
<1>6. ASSUME NEW s \in Socket, Disconnect(s) PROVE TypeOK'
  BY <1>6, CloseType DEF TypeOK, Disconnect
<1>7. ASSUME NEW s \in Socket, BeginExpire(s) PROVE TypeOK'
  <2>1. socket' \in [Socket -> SocketData]
    BY <1>7 DEF TypeOK, BeginExpire, SocketData, Phase
  <2>2. inflight' \subseteq Statement
    BY <1>7, BeginType DEF BeginExpire, Op
  <2> QED
    BY <1>7, <2>1, <2>2 DEF TypeOK, BeginExpire
<1>8. ASSUME NEW s \in Socket, Silence(s) PROVE TypeOK'
  <2>1. socket[s] \in SocketData /\ now \in Nat
    BY DEF TypeOK
  <2>2. [socket[s] EXCEPT !.phase = "silent", !.since = now] \in SocketData
    BY <2>1 DEF SocketData, Phase
  <2>3. socket' = [socket EXCEPT ![s] = [socket[s] EXCEPT !.phase = "silent", !.since = now]]
    BY <1>8, <2>1 DEF Silence, TypeOK, SocketData
  <2> QED
    BY <1>8, <2>2, <2>3 DEF TypeOK, Silence
<1>9. ASSUME NEW s \in Socket, BeginOwnerOp(s) PROVE TypeOK'
  BY <1>9, BeginType DEF TypeOK, BeginOwnerOp, Op
<1>10. ASSUME NEW s \in Socket, DeliverEvict(s) PROVE TypeOK'
  BY <1>10, CloseType DEF TypeOK, DeliverEvict
<1>11. ASSUME NEW s \in Socket, LoseEvict(s) PROVE TypeOK'
  BY <1>11 DEF TypeOK, LoseEvict
<1>12. ASSUME NEW q \in inflight, CommitClaim(q) PROVE TypeOK'
  <2>1. q \in Statement /\ socket[q.sock] \in SocketData
    BY DEF TypeOK, Statement
  <2>2. inflight' \subseteq Statement
    BY <1>12 DEF TypeOK, CommitClaim, Finish
  <2>3. CASE Matches(q) /\ ClaimLive(q)
    <3>1. socket[q.sock].asked \in Incarnation \union {Null}
      BY <2>1 DEF SocketData, Incarnation
    <3>2. socket' \in [Socket -> SocketData]
      BY <2>1, <2>3, <3>1, OpenedType DEF ClaimLive, Statement
    <3>3. session' \in SessionRow
      <4>1. q.at \in Nat /\ q.at + LeaseDuration \in Nat /\ q.sock \in Socket
        BY <2>1 DEF Statement
      <4> QED
        BY <2>3, <3>1, <4>1 DEF ClaimLive, TypeOK, SessionRow
    <3>4. retirement' \in [Incarnation -> Status]
      BY <2>3 DEF ClaimLive, TypeOK, Status
    <3>5. evicting' \subseteq Socket
      BY <2>3 DEF ClaimLive, EvictDisplaced, TypeOK
    <3> QED
      BY <1>12, <2>2, <3>2, <3>3, <3>4, <3>5 DEF CommitClaim, TypeOK
  <2>4. CASE ~(Matches(q) /\ ClaimLive(q))
    <3>1. socket' \in [Socket -> SocketData]
      BY <1>12, <2>1, <2>4, RefusedType DEF CommitClaim, Statement
    <3> QED
      BY <1>12, <2>2, <2>4, <3>1 DEF CommitClaim, TypeOK
  <2> QED
    BY <2>3, <2>4
<1>13. ASSUME NEW q \in inflight, CommitReplay(q) PROVE TypeOK'
  <2> DEFINE i == ReplayInstance(session, socket[q.sock].asked)
  <2>1. q \in Statement /\ socket[q.sock] \in SocketData
    BY DEF TypeOK, Statement
  <2>2. inflight' \subseteq Statement
    BY <1>13 DEF TypeOK, CommitReplay, Finish
  <2>3. i \in Incarnation
    BY <2>1 DEF TypeOK, SessionRow, SocketData, Incarnation, ReplayInstance
  <2> HIDE DEF i
  <2>4. CASE ClaimReplay(q, i)
    <3>2. socket' \in [Socket -> SocketData]
      BY <2>1, <2>3, <2>4, OpenedType DEF ClaimReplay, Statement
    <3>3. session' \in SessionRow
      <4>1. q.at \in Nat /\ q.at + LeaseDuration \in Nat /\ q.sock \in Socket
        BY <2>1 DEF Statement
      <4> QED
        BY <2>3, <2>4, <4>1 DEF ClaimReplay, TypeOK, SessionRow
    <3>4. retirement' \in [Incarnation -> Status]
      BY <2>4 DEF ClaimReplay, TypeOK, Status
    <3>5. evicting' \subseteq Socket
      BY <2>4 DEF ClaimReplay, EvictDisplaced, TypeOK
    <3> QED
      BY <1>13, <2>2, <3>2, <3>3, <3>4, <3>5 DEF CommitReplay, TypeOK
  <2>5. CASE ~ClaimReplay(q, i)
    <3>1. socket' \in [Socket -> SocketData]
      <4>1. [socket[q.sock] EXCEPT !.phase = Answered(socket[q.sock], "open"),
                                   !.inst = socket[q.sock].asked] \in SocketData
        BY <2>1 DEF SocketData, Phase, Incarnation, Answered
      <4> QED
        BY <1>13, <2>5, <4>1 DEF CommitReplay, TypeOK, i
    <3> QED
      BY <1>13, <2>2, <2>5, <3>1 DEF CommitReplay, TypeOK, i
  <2> QED
    BY <2>4, <2>5
<1>14. ASSUME NEW q \in inflight, CommitRenew(q) PROVE TypeOK'
  <2>1. q \in Statement /\ socket[q.sock] \in SocketData
    BY DEF TypeOK, Statement
  <2>2. socket' \in [Socket -> SocketData]
    BY <1>14, <2>1, CloseType DEF TypeOK, CommitRenew
  <2>3. session' \in SessionRow
    <3>1. q.at \in Nat /\ q.at + LeaseDuration \in Nat
      BY <2>1 DEF Statement
    <3> QED
      BY <1>14, <3>1 DEF TypeOK, CommitRenew, SessionRow
  <2> QED
    BY <1>14, <2>2, <2>3 DEF TypeOK, CommitRenew, Finish
<1>15. ASSUME NEW q \in inflight, CommitWrite(q) PROVE TypeOK'
  BY <1>15, CloseType DEF TypeOK, CommitWrite, Finish
<1>16. ASSUME NEW q \in inflight, CommitEnd(q) PROVE TypeOK'
  <2>1. q \in Statement /\ socket[q.sock] \in SocketData
    BY DEF TypeOK, Statement
  <2>2. EndInstance(socket[q.sock]) \in Incarnation \union {Null}
    BY <2>1 DEF EndInstance, SocketData, Incarnation
  <2>3. session' \in SessionRow
    BY <1>16, <2>1, <2>2 DEF TypeOK, CommitEnd, End, SessionRow, Statement
  <2>4. retirement' \in [Incarnation -> Status]
    BY <1>16 DEF TypeOK, CommitEnd, End, Status
  <2> QED
    BY <1>16, <2>3, <2>4 DEF TypeOK, CommitEnd, Finish
<1>17. ASSUME NEW q \in inflight, CommitExpire(q) PROVE TypeOK'
  <2>1. q \in Statement /\ socket[q.sock] \in SocketData
    BY DEF TypeOK, Statement
  <2>2. session' \in SessionRow
    BY <1>17, <2>1 DEF TypeOK, CommitExpire, Expire, SessionRow, Statement, SocketData
  <2> QED
    BY <1>17, <2>2 DEF TypeOK, CommitExpire, Finish
<1>18. ASSUME NEW q \in inflight, TryOwnerLock(q) PROVE TypeOK'
  BY <1>18 DEF TypeOK, TryOwnerLock, Finish, Statement
<1>19. ASSUME NEW q \in inflight, Abort(q) PROVE TypeOK'
  <2>1. socket' \in [Socket -> SocketData]
    BY <1>19, RefusedType DEF Abort, TypeOK, Statement
  <2> QED
    BY <1>19, <2>1 DEF TypeOK, Abort, Finish
<1>20. CASE FinishOwnerOp
  BY <1>20 DEF TypeOK, FinishOwnerOp
<1>21. CASE SweepFind
  BY <1>21 DEF TypeOK, SweepFind, SessionRow
<1>22. CASE SweepWrite
  BY <1>22 DEF TypeOK, SweepWrite, SessionRow
<1>23. CASE Tick
  BY <1>23 DEF TypeOK, Tick
<1>24. CASE UNCHANGED vars
  BY <1>24 DEF TypeOK, vars
<1> QED
  BY <1>1, <1>2, <1>3, <1>4, <1>5, <1>6, <1>7, <1>8, <1>9, <1>10, <1>11, <1>12,
     <1>13, <1>14, <1>15, <1>16, <1>17, <1>18, <1>19, <1>20, <1>21, <1>22, <1>23, <1>24
  DEF Next, Commit

(***************************************************************************)
(* Type correctness: the row, the retirement table, the sockets and the    *)
(* statements in flight keep their shape.                                  *)
(***************************************************************************)
THEOREM TypeCorrect == Spec => []TypeOK
BY InitType, NextType, PTL DEF Spec

\* The initial states satisfy the inductive invariant.
LEMMA InitInv == Init => IInv
<1> SUFFICES ASSUME Init PROVE IInv
  OBVIOUS
<1>1. TypeOK
  BY InitType
<1>2. Freshness /\ ReplayLeaseNotFinal /\ EvictionsAreStale
  BY ValueAssumption DEF Init, Freshness, ReplayLeaseNotFinal, EvictionsAreStale
<1>3. SeenFence /\ PastTimes /\ ExpiryOfClosed
  BY ValueAssumption DEF Init, SeenFence, PastTimes, ExpiryOfClosed
<1>4. RowShape
  BY ValueAssumption DEF Init, RowShape, Unleased
<1> QED
  BY <1>1, <1>2, <1>3, <1>4 DEF IInv

\* Every step preserves the inductive invariant.
LEMMA NextInv == IInv /\ [Next]_vars => IInv'
<1> SUFFICES ASSUME IInv, [Next]_vars PROVE IInv'
  OBVIOUS
<1> USE TimeAssumption, ValueAssumption
<1>0. TypeOK'
  BY NextType DEF IInv
<1>1. ASSUME NEW s \in Socket, Connect(s) PROVE IInv'
  <2>1. PICK h \in Handshake :
          /\ socket' = [socket EXCEPT ![s] = Shake(socket[s], h)]
          /\ \/ UNCHANGED inflight
             \/ ~Legacy(h) /\ Begin(ClaimKind(h), s, Shake(socket[s], h))
    BY <1>1 DEF Connect
  <2>2. /\ socket[s] \in SocketData /\ ~socket[s].leased
        /\ session.leaseId # s /\ s \notin evicting
        /\ \A q \in inflight : q \in Statement /\ q.sock # s
        /\ UNCHANGED <<session, retirement, evicting, sweep, now>>
    BY <1>1 DEF Connect, IInv, TypeOK, Freshness
  <2>3. /\ \A t \in Socket : t # s => socket'[t] = socket[t]
        /\ socket'[s].phase = IF Legacy(h) THEN "open" ELSE "claiming"
        /\ ~socket'[s].leased
        /\ socket'[s].replayOnly = h.replayOnly /\ socket'[s].asked = h.asked
    BY <2>1, <2>2 DEF IInv, TypeOK, SocketData, Shake
  <2>4. \/ inflight' = inflight
        \/ \E p : /\ inflight' = inflight \union {p}
                  /\ p.sock = s /\ p.at = now /\ p.op \in ClaimOp
                  /\ p.op = "replay" <=> socket'[s].replayOnly
                  /\ p.op = "claim" => socket'[s].asked # Null
                  /\ socket'[s].phase = "claiming"
    <3>1. h.replayOnly \in BOOLEAN
      BY InputAssumption
    <3>2. CASE ~Legacy(h) /\ Begin(ClaimKind(h), s, Shake(socket[s], h))
      <4> DEFINE p == [op |-> ClaimKind(h), sock |-> s, at |-> now, seen |-> retirement,
                       hit |-> Qualifies(ClaimKind(h), s, Shake(socket[s], h),
                                         retirement, now, session)]
      <4>1. inflight' = inflight \union {p}
        BY <3>2 DEF Begin
      <4>2. p.sock = s /\ p.at = now /\ p.op = ClaimKind(h)
        OBVIOUS
      <4> HIDE DEF p
      <4> QED
        BY <2>3, <3>1, <3>2, <4>1, <4>2 DEF ClaimOp, ClaimKind, Legacy
    <3> QED
      BY <2>1, <3>2
  <2>5. socket'[s].phase # "idle"
    BY <2>3
  <2>6. Freshness'
    BY <2>2, <2>3, <2>4, <2>5 DEF IInv, TypeOK, SessionRow, SocketData, Statement, Freshness, ClaimOp
  <2>7. SeenFence'
    BY <2>2, <2>3, <2>4, <2>5 DEF IInv, TypeOK, SessionRow, SocketData, Statement, SeenFence, FencedOp, Freshness, ClaimOp
  <2>8. RowShape'
    BY <2>2, <2>3, <2>4, <2>5 DEF IInv, TypeOK, SessionRow, SocketData, Statement, RowShape, Unleased, PastTimes
  <2>9. PastTimes'
    BY <2>2, <2>3, <2>4, <2>5 DEF IInv, TypeOK, SessionRow, SocketData, Statement, PastTimes, RowShape
  <2>10. ExpiryOfClosed'
    BY <2>2, <2>3, <2>4, <2>5 DEF IInv, TypeOK, SessionRow, SocketData, Statement, ExpiryOfClosed, ClaimOp
  <2>11. ReplayLeaseNotFinal'
    BY <2>2, <2>3, <2>4, <2>5 DEF IInv, TypeOK, SessionRow, SocketData, Statement, ReplayLeaseNotFinal, Freshness, ClaimOp
  <2>12. EvictionsAreStale'
    BY <2>2, <2>3, <2>4, <2>5 DEF IInv, TypeOK, SessionRow, SocketData, Statement, EvictionsAreStale, Freshness, ClaimOp
  <2> QED
    BY <1>0, <2>6, <2>7, <2>8, <2>9, <2>10, <2>11, <2>12 DEF IInv
<1>2. ASSUME NEW s \in Socket, BeginRenew(s) PROVE IInv'
  BY <1>0, <1>2 DEF IInv, TypeOK, SessionRow, SocketData, Statement, BeginRenew, Begin, Handling,
     Freshness, ClaimOp, SeenFence, FencedOp, RowShape, Unleased, PastTimes, ExpiryOfClosed,
     ReplayLeaseNotFinal, EvictionsAreStale
<1>3. ASSUME NEW s \in Socket, BeginWrite(s) PROVE IInv'
  BY <1>0, <1>3 DEF IInv, TypeOK, SessionRow, SocketData, Statement, BeginWrite, Begin, Handling,
     Freshness, ClaimOp, SeenFence, FencedOp, RowShape, Unleased, PastTimes, ExpiryOfClosed,
     ReplayLeaseNotFinal, EvictionsAreStale
<1>4. ASSUME NEW s \in Socket, BeginEnd(s) PROVE IInv'
  BY <1>0, <1>4 DEF IInv, TypeOK, SessionRow, SocketData, Statement, BeginEnd, Begin, Handling,
     Freshness, ClaimOp, SeenFence, FencedOp, RowShape, Unleased, PastTimes, ExpiryOfClosed,
     ReplayLeaseNotFinal, EvictionsAreStale
<1>5. ASSUME NEW s \in Socket, LegacyEnd(s) PROVE IInv'
  BY <1>0, <1>5 DEF IInv, TypeOK, SessionRow, SocketData, Statement, LegacyEnd, WhollyLegacy,
     Freshness, ClaimOp, SeenFence, FencedOp, RowShape, Unleased, PastTimes, ExpiryOfClosed,
     ReplayLeaseNotFinal, EvictionsAreStale
<1>6. ASSUME NEW s \in Socket, Disconnect(s) PROVE IInv'
  BY <1>0, <1>6 DEF IInv, TypeOK, SessionRow, SocketData, Statement, Disconnect, Close,
     Freshness, ClaimOp, SeenFence, FencedOp, RowShape, Unleased, PastTimes, ExpiryOfClosed,
     ReplayLeaseNotFinal, EvictionsAreStale
<1>7. ASSUME NEW s \in Socket, BeginExpire(s) PROVE IInv'
  BY <1>0, <1>7 DEF IInv, TypeOK, SessionRow, SocketData, Statement, BeginExpire, Begin,
     Freshness, ClaimOp, SeenFence, FencedOp, RowShape, Unleased, PastTimes, ExpiryOfClosed,
     ReplayLeaseNotFinal, EvictionsAreStale
<1>8. ASSUME NEW s \in Socket, Silence(s) PROVE IInv'
  <2>1. Freshness'
    BY <1>8 DEF IInv, TypeOK, SessionRow, SocketData, Statement, Silence, Freshness, ClaimOp
  <2>2. SeenFence'
    BY <1>8 DEF IInv, TypeOK, SessionRow, SocketData, Statement, Silence, SeenFence, FencedOp, Freshness, ClaimOp
  <2>3. RowShape'
    BY <1>8 DEF IInv, TypeOK, SessionRow, SocketData, Statement, Silence, RowShape, Unleased, PastTimes
  <2>4. PastTimes'
    BY <1>8 DEF IInv, TypeOK, SessionRow, SocketData, Statement, Silence, PastTimes, RowShape
  <2>5. ExpiryOfClosed'
    BY <1>8 DEF IInv, TypeOK, SessionRow, SocketData, Statement, Silence, ExpiryOfClosed, ClaimOp
  <2>6. ReplayLeaseNotFinal'
    BY <1>8 DEF IInv, TypeOK, SessionRow, SocketData, Statement, Silence, ReplayLeaseNotFinal, Freshness, ClaimOp
  <2>7. EvictionsAreStale'
    BY <1>8 DEF IInv, TypeOK, SessionRow, SocketData, Statement, Silence, EvictionsAreStale, Freshness, ClaimOp
  <2> QED
    BY <1>0, <2>1, <2>2, <2>3, <2>4, <2>5, <2>6, <2>7 DEF IInv
<1>9. ASSUME NEW s \in Socket, BeginOwnerOp(s) PROVE IInv'
  BY <1>0, <1>9 DEF IInv, TypeOK, SessionRow, SocketData, Statement, BeginOwnerOp, Begin, Handling,
     Freshness, ClaimOp, SeenFence, FencedOp, RowShape, Unleased, PastTimes, ExpiryOfClosed,
     ReplayLeaseNotFinal, EvictionsAreStale
<1>10. ASSUME NEW s \in Socket, DeliverEvict(s) PROVE IInv'
  BY <1>0, <1>10 DEF IInv, TypeOK, SessionRow, SocketData, Statement, DeliverEvict, Reject, Close,
     Freshness, ClaimOp, SeenFence, FencedOp, RowShape, Unleased, PastTimes, ExpiryOfClosed,
     ReplayLeaseNotFinal, EvictionsAreStale
<1>11. ASSUME NEW s \in Socket, LoseEvict(s) PROVE IInv'
  BY <1>0, <1>11 DEF IInv, TypeOK, SessionRow, SocketData, Statement, LoseEvict,
     Freshness, ClaimOp, SeenFence, FencedOp, RowShape, Unleased, PastTimes, ExpiryOfClosed,
     ReplayLeaseNotFinal, EvictionsAreStale
<1>12. ASSUME NEW q \in inflight, CommitClaim(q) PROVE IInv'
  <2>1. /\ q \in Statement /\ q.op = "claim"
        /\ inflight' = inflight \ {q}
        /\ UNCHANGED <<sweep, now>>
    BY <1>12 DEF IInv, TypeOK, CommitClaim, Finish
  <2>2. /\ session.leaseId # q.sock /\ q.sock \notin evicting
        /\ ~socket[q.sock].replayOnly /\ socket[q.sock].asked # Null
        /\ socket[q.sock].phase \in {"claiming", "silent"}
        /\ ~socket[q.sock].leased
        /\ \A p \in inflight' : p \in inflight /\ p \in Statement /\ p.sock # q.sock
    BY <2>1 DEF IInv, TypeOK, Freshness, ClaimOp
  <2>3. CASE Matches(q) /\ ClaimLive(q)
    <3>1. /\ session'.active
          /\ session'.activeInstanceId = socket[q.sock].asked
          /\ session'.leaseInstanceId = socket[q.sock].asked
          /\ session'.leaseId = q.sock
          /\ session'.leaseExpiresAt = q.at + LeaseDuration
          /\ session'.lastActiveAt = q.at
      BY <2>3 DEF ClaimLive, IInv, TypeOK, SessionRow
    <3>2. /\ \A t \in Socket : t # q.sock => socket'[t] = socket[t]
          /\ ~socket'[q.sock].replayOnly
          /\ socket'[q.sock].since = socket[q.sock].since
          /\ socket'[q.sock].phase # "idle"
          /\ socket'[q.sock].phase = "silent" => socket[q.sock].phase = "silent"
      BY <2>1, <2>2, <2>3 DEF ClaimLive, Opened, Answered, IInv, TypeOK, SocketData, Statement
    <3>3. evicting' = evicting \union ({session.leaseId} \cap (Socket \ {q.sock}))
      BY <2>3 DEF ClaimLive, EvictDisplaced
    <3>4. Freshness'
      BY <2>1, <2>2, <3>1, <3>2, <3>3 DEF IInv, TypeOK, SessionRow, SocketData, Statement, Freshness, ClaimOp
    <3>5. SeenFence'
      BY <2>1, <2>2, <3>1, <3>2, <3>3 DEF IInv, TypeOK, SessionRow, SocketData, Statement, SeenFence, FencedOp, Freshness, ClaimOp
    <3>6. RowShape'
      BY <2>1, <2>2, <3>1, <3>2, <3>3 DEF IInv, TypeOK, SessionRow, SocketData, Statement, RowShape, Unleased, PastTimes
    <3>7. PastTimes'
      BY <2>1, <2>2, <3>1, <3>2, <3>3 DEF IInv, TypeOK, SessionRow, SocketData, Statement, PastTimes, RowShape
    <3>8. ExpiryOfClosed'
      BY <2>1, <2>2, <3>1, <3>2, <3>3 DEF IInv, TypeOK, SessionRow, SocketData, Statement, ExpiryOfClosed, ClaimOp
    <3>9. ReplayLeaseNotFinal'
      BY <2>1, <2>2, <3>1, <3>2, <3>3 DEF IInv, TypeOK, SessionRow, SocketData, Statement, ReplayLeaseNotFinal, Freshness, ClaimOp
    <3>10. EvictionsAreStale'
      BY <2>1, <2>2, <3>1, <3>2, <3>3 DEF IInv, TypeOK, SessionRow, SocketData, Statement, EvictionsAreStale, Freshness, ClaimOp
    <3> QED
      BY <1>0, <3>4, <3>5, <3>6, <3>7, <3>8, <3>9, <3>10 DEF IInv
  <2>4. CASE ~(Matches(q) /\ ClaimLive(q))
    <3>1. /\ \A t \in Socket : t # q.sock => socket'[t] = socket[t]
          /\ socket'[q.sock] = [socket[q.sock] EXCEPT !.phase = Answered(socket[q.sock], "closed")]
          /\ UNCHANGED <<session, retirement, evicting>>
      BY <1>12, <2>1, <2>4 DEF CommitClaim, Refused, IInv, TypeOK, Statement
    <3>2. Freshness'
      BY <2>1, <2>2, <3>1 DEF IInv, TypeOK, SessionRow, SocketData, Statement, Answered, Freshness, ClaimOp
    <3>3. SeenFence'
      BY <2>1, <2>2, <3>1 DEF IInv, TypeOK, SessionRow, SocketData, Statement, Answered, SeenFence, FencedOp, Freshness, ClaimOp
    <3>4. RowShape'
      BY <2>1, <2>2, <3>1 DEF IInv, TypeOK, SessionRow, SocketData, Statement, Answered, RowShape, Unleased, PastTimes
    <3>5. PastTimes'
      BY <2>1, <2>2, <3>1 DEF IInv, TypeOK, SessionRow, SocketData, Statement, Answered, PastTimes, RowShape
    <3>6. ExpiryOfClosed'
      BY <2>1, <2>2, <3>1 DEF IInv, TypeOK, SessionRow, SocketData, Statement, Answered, ExpiryOfClosed, ClaimOp
    <3>7. ReplayLeaseNotFinal'
      BY <2>1, <2>2, <3>1 DEF IInv, TypeOK, SessionRow, SocketData, Statement, Answered, ReplayLeaseNotFinal, Freshness, ClaimOp
    <3>8. EvictionsAreStale'
      BY <2>1, <2>2, <3>1 DEF IInv, TypeOK, SessionRow, SocketData, Statement, Answered, EvictionsAreStale, Freshness, ClaimOp
    <3> QED
      BY <1>0, <3>2, <3>3, <3>4, <3>5, <3>6, <3>7, <3>8 DEF IInv
  <2> QED
    BY <2>3, <2>4
<1>13. ASSUME NEW q \in inflight, CommitReplay(q) PROVE IInv'
  <2> DEFINE i == ReplayInstance(session, socket[q.sock].asked)
  <2>1. /\ q \in Statement /\ q.op = "replay"
        /\ inflight' = inflight \ {q}
        /\ UNCHANGED <<sweep, now>>
    BY <1>13 DEF IInv, TypeOK, CommitReplay, Finish
  <2>2. /\ session.leaseId # q.sock /\ q.sock \notin evicting
        /\ socket[q.sock].replayOnly
        /\ socket[q.sock].phase \in {"claiming", "silent"}
        /\ ~socket[q.sock].leased
        /\ \A p \in inflight' : p \in inflight /\ p \in Statement /\ p.sock # q.sock
    BY <2>1 DEF IInv, TypeOK, Freshness, ClaimOp
  <2>3. i \in Incarnation /\ i # Null
    BY <2>1 DEF IInv, TypeOK, SessionRow, SocketData, Statement, Incarnation, ReplayInstance
  <2> HIDE DEF i
  <2>5. CASE Matches(q) /\ ReplayConflictFree(i) /\ ClaimReplay(q, i)
    <3>1. /\ ~session'.active
          /\ session'.activeInstanceId = i
          /\ session'.leaseInstanceId = i
          /\ session'.leaseId = q.sock
          /\ session'.leaseExpiresAt = q.at + LeaseDuration
          /\ retirement'[i] = "replaying"
      BY <2>3, <2>5 DEF ClaimReplay, ReplayConflictFree, IInv, TypeOK, SessionRow
    <3>2. /\ \A t \in Socket : t # q.sock => socket'[t] = socket[t]
          /\ socket'[q.sock].replayOnly
          /\ socket'[q.sock].since = socket[q.sock].since
          /\ socket'[q.sock].phase # "idle"
          /\ socket'[q.sock].phase = "silent" => socket[q.sock].phase = "silent"
      BY <2>1, <2>2, <2>5 DEF ClaimReplay, Opened, Answered, IInv, TypeOK, SocketData, Statement
    <3>3. evicting' = evicting \union ({session.leaseId} \cap (Socket \ {q.sock}))
      BY <2>5 DEF ClaimReplay, EvictDisplaced
    <3>4. Freshness'
      BY <2>1, <2>2, <2>3, <3>1, <3>2, <3>3 DEF IInv, TypeOK, SessionRow, SocketData, Statement, Freshness, ClaimOp
    <3>5. SeenFence'
      BY <2>1, <2>2, <2>3, <3>1, <3>2, <3>3 DEF IInv, TypeOK, SessionRow, SocketData, Statement, SeenFence, FencedOp, Freshness, ClaimOp
    <3>6. RowShape'
      BY <2>1, <2>2, <2>3, <3>1, <3>2, <3>3 DEF IInv, TypeOK, SessionRow, SocketData, Statement, RowShape, Unleased, PastTimes
    <3>7. PastTimes'
      BY <2>1, <2>2, <2>3, <3>1, <3>2, <3>3 DEF IInv, TypeOK, SessionRow, SocketData, Statement, PastTimes, RowShape
    <3>8. ExpiryOfClosed'
      BY <2>1, <2>2, <2>3, <3>1, <3>2, <3>3 DEF IInv, TypeOK, SessionRow, SocketData, Statement, ExpiryOfClosed, ClaimOp
    <3>9. ReplayLeaseNotFinal'
      BY <2>1, <2>2, <2>3, <3>1, <3>2, <3>3 DEF IInv, TypeOK, SessionRow, SocketData, Statement, ReplayLeaseNotFinal, Freshness, ClaimOp
    <3>10. EvictionsAreStale'
      BY <2>1, <2>2, <2>3, <3>1, <3>2, <3>3 DEF IInv, TypeOK, SessionRow, SocketData, Statement, EvictionsAreStale, Freshness, ClaimOp
    <3> QED
      BY <1>0, <3>4, <3>5, <3>6, <3>7, <3>8, <3>9, <3>10 DEF IInv
  <2>6. CASE ~(Matches(q) /\ ReplayConflictFree(i) /\ ClaimReplay(q, i))
    <3>1. /\ \A t \in Socket : t # q.sock => socket'[t] = socket[t]
          /\ socket'[q.sock].phase \in {"open", "silent"}
          /\ socket'[q.sock].phase = "silent" => socket[q.sock].phase = "silent"
          /\ socket'[q.sock].since = socket[q.sock].since
          /\ UNCHANGED <<session, retirement, evicting>>
      <4>1. /\ socket' = [socket EXCEPT ![q.sock] = [socket[q.sock] EXCEPT
                 !.phase = Answered(socket[q.sock], "open"), !.inst = socket[q.sock].asked]]
            /\ UNCHANGED <<session, retirement, evicting>>
        BY <1>13, <2>6 DEF CommitReplay, i
      <4> QED
        BY <2>1, <2>2, <4>1 DEF Answered, IInv, TypeOK, SocketData, Statement
    <3>2. Freshness'
      BY <2>1, <2>2, <3>1 DEF IInv, TypeOK, SessionRow, SocketData, Statement, Answered, Freshness, ClaimOp
    <3>3. SeenFence'
      BY <2>1, <2>2, <3>1 DEF IInv, TypeOK, SessionRow, SocketData, Statement, Answered, SeenFence, FencedOp, Freshness, ClaimOp
    <3>4. RowShape'
      BY <2>1, <2>2, <3>1 DEF IInv, TypeOK, SessionRow, SocketData, Statement, Answered, RowShape, Unleased, PastTimes
    <3>5. PastTimes'
      BY <2>1, <2>2, <3>1 DEF IInv, TypeOK, SessionRow, SocketData, Statement, Answered, PastTimes, RowShape
    <3>6. ExpiryOfClosed'
      BY <2>1, <2>2, <3>1 DEF IInv, TypeOK, SessionRow, SocketData, Statement, Answered, ExpiryOfClosed, ClaimOp
    <3>7. ReplayLeaseNotFinal'
      BY <2>1, <2>2, <3>1 DEF IInv, TypeOK, SessionRow, SocketData, Statement, Answered, ReplayLeaseNotFinal, Freshness, ClaimOp
    <3>8. EvictionsAreStale'
      BY <2>1, <2>2, <3>1 DEF IInv, TypeOK, SessionRow, SocketData, Statement, Answered, EvictionsAreStale, Freshness, ClaimOp
    <3> QED
      BY <1>0, <3>2, <3>3, <3>4, <3>5, <3>6, <3>7, <3>8 DEF IInv
  <2> QED
    BY <2>5, <2>6
<1>14. ASSUME NEW q \in inflight, CommitRenew(q) PROVE IInv'
  <2>1. /\ q \in Statement /\ q.op = "renew"
        /\ inflight' = inflight \ {q}
        /\ UNCHANGED <<retirement, evicting, sweep, now>>
        /\ socket[q.sock] \in SocketData
    BY <1>14 DEF IInv, TypeOK, CommitRenew, Finish, Statement
  <2>2. CASE Matches(q) /\ socket[q.sock].leased
    <3>1. /\ session.active /\ session.leaseId = q.sock
          /\ session'.active
          /\ session'.activeInstanceId = session.activeInstanceId
          /\ session'.leaseInstanceId = session.leaseInstanceId
          /\ session'.leaseId = session.leaseId
          /\ session'.leaseExpiresAt = q.at + LeaseDuration
          /\ session'.lastActiveAt = q.at
          /\ UNCHANGED socket
      BY <1>14, <2>1, <2>2 DEF CommitRenew, Matches, Qualifies, Renewable, ExactGeneration,
                               IInv, TypeOK, SessionRow
    <3>2. Freshness'
      BY <2>1, <3>1 DEF IInv, TypeOK, SessionRow, SocketData, Statement, Freshness, ClaimOp
    <3>3. SeenFence'
      BY <2>1, <3>1 DEF IInv, TypeOK, SessionRow, SocketData, Statement, SeenFence, FencedOp, Freshness, ClaimOp
    <3>4. RowShape'
      BY <2>1, <3>1 DEF IInv, TypeOK, SessionRow, SocketData, Statement, RowShape, Unleased, PastTimes
    <3>5. PastTimes'
      BY <2>1, <3>1 DEF IInv, TypeOK, SessionRow, SocketData, Statement, PastTimes, RowShape
    <3>6. ExpiryOfClosed'
      BY <2>1, <3>1 DEF IInv, TypeOK, SessionRow, SocketData, Statement, ExpiryOfClosed, ClaimOp
    <3>7. ReplayLeaseNotFinal'
      BY <2>1, <3>1 DEF IInv, TypeOK, SessionRow, SocketData, Statement, ReplayLeaseNotFinal, Freshness, ClaimOp
    <3>8. EvictionsAreStale'
      BY <2>1, <3>1 DEF IInv, TypeOK, SessionRow, SocketData, Statement, EvictionsAreStale, Freshness, ClaimOp
    <3> QED
      BY <1>0, <3>2, <3>3, <3>4, <3>5, <3>6, <3>7, <3>8 DEF IInv
  <2>3. CASE Matches(q) /\ ~socket[q.sock].leased
    <3>1. /\ WhollyLegacy(session)
          /\ session'.activeInstanceId = session.activeInstanceId
          /\ session'.leaseInstanceId = session.leaseInstanceId
          /\ session'.leaseId = session.leaseId
          /\ session'.leaseExpiresAt = session.leaseExpiresAt
          /\ UNCHANGED socket
      BY <1>14, <2>1, <2>3 DEF CommitRenew, Matches, Qualifies, Renewable,
                               IInv, TypeOK, SessionRow
    <3>2. Freshness'
      BY <2>1, <3>1 DEF IInv, TypeOK, SessionRow, SocketData, Statement, WhollyLegacy, Freshness, ClaimOp
    <3>3. SeenFence'
      BY <2>1, <3>1 DEF IInv, TypeOK, SessionRow, SocketData, Statement, WhollyLegacy, SeenFence, FencedOp, Freshness, ClaimOp
    <3>4. RowShape'
      BY <2>1, <3>1 DEF IInv, TypeOK, SessionRow, SocketData, Statement, WhollyLegacy, RowShape, Unleased, PastTimes
    <3>5. PastTimes'
      BY <2>1, <3>1 DEF IInv, TypeOK, SessionRow, SocketData, Statement, WhollyLegacy, PastTimes, RowShape
    <3>6. ExpiryOfClosed'
      BY <2>1, <3>1 DEF IInv, TypeOK, SessionRow, SocketData, Statement, WhollyLegacy, ExpiryOfClosed, ClaimOp
    <3>7. ReplayLeaseNotFinal'
      BY <2>1, <3>1 DEF IInv, TypeOK, SessionRow, SocketData, Statement, WhollyLegacy, ReplayLeaseNotFinal, Freshness, ClaimOp
    <3>8. EvictionsAreStale'
      BY <2>1, <3>1 DEF IInv, TypeOK, SessionRow, SocketData, Statement, WhollyLegacy, EvictionsAreStale, Freshness, ClaimOp
    <3> QED
      BY <1>0, <3>2, <3>3, <3>4, <3>5, <3>6, <3>7, <3>8 DEF IInv
  <2>4. CASE ~Matches(q)
    <3>1. /\ \A t \in Socket : t # q.sock => socket'[t] = socket[t]
          /\ socket'[q.sock] = Reject(socket[q.sock])
          /\ UNCHANGED session
      BY <1>14, <2>1, <2>4 DEF CommitRenew, IInv, TypeOK, Statement
    <3>2. Freshness'
      BY <2>1, <3>1 DEF IInv, TypeOK, SessionRow, SocketData, Statement, Reject, Close, Freshness, ClaimOp
    <3>3. SeenFence'
      BY <2>1, <3>1 DEF IInv, TypeOK, SessionRow, SocketData, Statement, Reject, Close, SeenFence, FencedOp, Freshness, ClaimOp
    <3>4. RowShape'
      BY <2>1, <3>1 DEF IInv, TypeOK, SessionRow, SocketData, Statement, Reject, Close, RowShape, Unleased, PastTimes
    <3>5. PastTimes'
      BY <2>1, <3>1 DEF IInv, TypeOK, SessionRow, SocketData, Statement, Reject, Close, PastTimes, RowShape
    <3>6. ExpiryOfClosed'
      BY <2>1, <3>1 DEF IInv, TypeOK, SessionRow, SocketData, Statement, Reject, Close, ExpiryOfClosed, ClaimOp
    <3>7. ReplayLeaseNotFinal'
      BY <2>1, <3>1 DEF IInv, TypeOK, SessionRow, SocketData, Statement, Reject, Close, ReplayLeaseNotFinal, Freshness, ClaimOp
    <3>8. EvictionsAreStale'
      BY <2>1, <3>1 DEF IInv, TypeOK, SessionRow, SocketData, Statement, Reject, Close, EvictionsAreStale, Freshness, ClaimOp
    <3> QED
      BY <1>0, <3>2, <3>3, <3>4, <3>5, <3>6, <3>7, <3>8 DEF IInv
  <2> QED
    BY <2>2, <2>3, <2>4 DEF IInv, TypeOK, Statement, SocketData
<1>15. ASSUME NEW q \in inflight, CommitWrite(q) PROVE IInv'
  BY <1>0, <1>15 DEF IInv, TypeOK, SessionRow, SocketData, Statement, CommitWrite, Finish, Reject, Close,
     Freshness, ClaimOp, SeenFence, FencedOp, RowShape, Unleased, PastTimes, ExpiryOfClosed,
     ReplayLeaseNotFinal, EvictionsAreStale
<1>16. ASSUME NEW q \in inflight, CommitEnd(q) PROVE IInv'
  <2>1. /\ q \in Statement /\ inflight' = inflight \ {q}
        /\ UNCHANGED <<socket, evicting, sweep, now>>
    BY <1>16 DEF IInv, TypeOK, CommitEnd, Finish
  <2>2. CASE Matches(q) /\ End(q)
    <3>1. /\ ~session'.active
          /\ session'.leaseId = Tombstone
          /\ session'.leaseExpiresAt = q.at
      BY <2>2 DEF End, IInv, TypeOK, SessionRow
    <3>2. Freshness'
      BY <2>1, <3>1 DEF IInv, TypeOK, SessionRow, SocketData, Statement, Freshness, ClaimOp
    <3>3. SeenFence'
      BY <2>1, <3>1 DEF IInv, TypeOK, SessionRow, SocketData, Statement, SeenFence, FencedOp, Freshness, ClaimOp
    <3>4. RowShape'
      BY <2>1, <3>1 DEF IInv, TypeOK, SessionRow, SocketData, Statement, RowShape, Unleased, PastTimes
    <3>5. PastTimes'
      BY <2>1, <3>1 DEF IInv, TypeOK, SessionRow, SocketData, Statement, PastTimes, RowShape
    <3>6. ExpiryOfClosed'
      BY <2>1, <3>1 DEF IInv, TypeOK, SessionRow, SocketData, Statement, ExpiryOfClosed, ClaimOp
    <3>7. ReplayLeaseNotFinal'
      BY <2>1, <3>1 DEF IInv, TypeOK, SessionRow, SocketData, Statement, ReplayLeaseNotFinal, Freshness, ClaimOp
    <3>8. EvictionsAreStale'
      BY <2>1, <3>1 DEF IInv, TypeOK, SessionRow, SocketData, Statement, EvictionsAreStale, Freshness, ClaimOp
    <3> QED
      BY <1>0, <3>2, <3>3, <3>4, <3>5, <3>6, <3>7, <3>8 DEF IInv
  <2>3. CASE ~Matches(q) /\ UNCHANGED <<session, retirement>>
    <3>1. Freshness'
      BY <2>1, <2>3 DEF IInv, TypeOK, SessionRow, SocketData, Statement, Freshness, ClaimOp
    <3>2. SeenFence'
      BY <2>1, <2>3 DEF IInv, TypeOK, SessionRow, SocketData, Statement, SeenFence, FencedOp, Freshness, ClaimOp
    <3>3. RowShape'
      BY <2>1, <2>3 DEF IInv, TypeOK, SessionRow, SocketData, Statement, RowShape, Unleased, PastTimes
    <3>4. PastTimes'
      BY <2>1, <2>3 DEF IInv, TypeOK, SessionRow, SocketData, Statement, PastTimes, RowShape
    <3>5. ExpiryOfClosed'
      BY <2>1, <2>3 DEF IInv, TypeOK, SessionRow, SocketData, Statement, ExpiryOfClosed, ClaimOp
    <3>6. ReplayLeaseNotFinal'
      BY <2>1, <2>3 DEF IInv, TypeOK, SessionRow, SocketData, Statement, ReplayLeaseNotFinal, Freshness, ClaimOp
    <3>7. EvictionsAreStale'
      BY <2>1, <2>3 DEF IInv, TypeOK, SessionRow, SocketData, Statement, EvictionsAreStale, Freshness, ClaimOp
    <3> QED
      BY <1>0, <3>1, <3>2, <3>3, <3>4, <3>5, <3>6, <3>7 DEF IInv
  <2> QED
    BY <1>16, <2>2, <2>3 DEF CommitEnd
<1>17. ASSUME NEW q \in inflight, CommitExpire(q) PROVE IInv'
  <2>1. /\ q \in Statement /\ inflight' = inflight \ {q}
        /\ UNCHANGED <<retirement, socket, evicting, sweep, now>>
    BY <1>17 DEF IInv, TypeOK, CommitExpire, Finish
  <2>2. CASE Matches(q) /\ Expire(q)
    <3>1. /\ session'.leaseId = Tombstone
          /\ session'.leaseExpiresAt = q.at
      BY <2>2 DEF Expire, IInv, TypeOK, SessionRow
    <3>2. Freshness'
      BY <2>1, <3>1 DEF IInv, TypeOK, SessionRow, SocketData, Statement, Freshness, ClaimOp
    <3>3. SeenFence'
      BY <2>1, <3>1 DEF IInv, TypeOK, SessionRow, SocketData, Statement, SeenFence, FencedOp, Freshness, ClaimOp
    <3>4. RowShape'
      BY <2>1, <3>1 DEF IInv, TypeOK, SessionRow, SocketData, Statement, RowShape, Unleased, PastTimes
    <3>5. PastTimes'
      BY <2>1, <3>1 DEF IInv, TypeOK, SessionRow, SocketData, Statement, PastTimes, RowShape
    <3>6. ExpiryOfClosed'
      BY <2>1, <3>1 DEF IInv, TypeOK, SessionRow, SocketData, Statement, ExpiryOfClosed, ClaimOp
    <3>7. ReplayLeaseNotFinal'
      BY <2>1, <3>1 DEF IInv, TypeOK, SessionRow, SocketData, Statement, ReplayLeaseNotFinal, Freshness, ClaimOp
    <3>8. EvictionsAreStale'
      BY <2>1, <3>1 DEF IInv, TypeOK, SessionRow, SocketData, Statement, EvictionsAreStale, Freshness, ClaimOp
    <3> QED
      BY <1>0, <3>2, <3>3, <3>4, <3>5, <3>6, <3>7, <3>8 DEF IInv
  <2>3. CASE ~Matches(q) /\ UNCHANGED session
    <3>1. Freshness'
      BY <2>1, <2>3 DEF IInv, TypeOK, SessionRow, SocketData, Statement, Freshness, ClaimOp
    <3>2. SeenFence'
      BY <2>1, <2>3 DEF IInv, TypeOK, SessionRow, SocketData, Statement, SeenFence, FencedOp, Freshness, ClaimOp
    <3>3. RowShape'
      BY <2>1, <2>3 DEF IInv, TypeOK, SessionRow, SocketData, Statement, RowShape, Unleased, PastTimes
    <3>4. PastTimes'
      BY <2>1, <2>3 DEF IInv, TypeOK, SessionRow, SocketData, Statement, PastTimes, RowShape
    <3>5. ExpiryOfClosed'
      BY <2>1, <2>3 DEF IInv, TypeOK, SessionRow, SocketData, Statement, ExpiryOfClosed, ClaimOp
    <3>6. ReplayLeaseNotFinal'
      BY <2>1, <2>3 DEF IInv, TypeOK, SessionRow, SocketData, Statement, ReplayLeaseNotFinal, Freshness, ClaimOp
    <3>7. EvictionsAreStale'
      BY <2>1, <2>3 DEF IInv, TypeOK, SessionRow, SocketData, Statement, EvictionsAreStale, Freshness, ClaimOp
    <3> QED
      BY <1>0, <3>1, <3>2, <3>3, <3>4, <3>5, <3>6, <3>7 DEF IInv
  <2> QED
    BY <1>17, <2>2, <2>3 DEF CommitExpire
<1>18. ASSUME NEW q \in inflight, TryOwnerLock(q) PROVE IInv'
  BY <1>0, <1>18 DEF IInv, TypeOK, SessionRow, SocketData, Statement, TryOwnerLock, Finish,
     Freshness, ClaimOp, SeenFence, FencedOp, RowShape, Unleased, PastTimes, ExpiryOfClosed,
     ReplayLeaseNotFinal, EvictionsAreStale
<1>19. ASSUME NEW q \in inflight, Abort(q) PROVE IInv'
  <2>1. Freshness'
    BY <1>19 DEF IInv, TypeOK, SessionRow, SocketData, Statement, Abort, Finish, Refused, Answered, Freshness, ClaimOp
  <2>2. SeenFence'
    BY <1>19 DEF IInv, TypeOK, SessionRow, SocketData, Statement, Abort, Finish, Refused, Answered, SeenFence, FencedOp, Freshness, ClaimOp
  <2>3. RowShape'
    BY <1>19 DEF IInv, TypeOK, SessionRow, SocketData, Statement, Abort, Finish, Refused, Answered, RowShape, Unleased, PastTimes
  <2>4. PastTimes'
    BY <1>19 DEF IInv, TypeOK, SessionRow, SocketData, Statement, Abort, Finish, Refused, Answered, PastTimes, RowShape
  <2>5. ExpiryOfClosed'
    BY <1>19 DEF IInv, TypeOK, SessionRow, SocketData, Statement, Abort, Finish, Refused, Answered, ExpiryOfClosed, ClaimOp
  <2>6. ReplayLeaseNotFinal'
    BY <1>19 DEF IInv, TypeOK, SessionRow, SocketData, Statement, Abort, Finish, Refused, Answered, ReplayLeaseNotFinal, Freshness, ClaimOp
  <2>7. EvictionsAreStale'
    BY <1>19 DEF IInv, TypeOK, SessionRow, SocketData, Statement, Abort, Finish, Refused, Answered, EvictionsAreStale, Freshness, ClaimOp
  <2> QED
    BY <1>0, <2>1, <2>2, <2>3, <2>4, <2>5, <2>6, <2>7 DEF IInv
<1>20. CASE FinishOwnerOp
  BY <1>0, <1>20 DEF IInv, TypeOK, SessionRow, SocketData, Statement, FinishOwnerOp,
     Freshness, ClaimOp, SeenFence, FencedOp, RowShape, Unleased, PastTimes, ExpiryOfClosed,
     ReplayLeaseNotFinal, EvictionsAreStale
<1>21. CASE SweepFind
  BY <1>0, <1>21 DEF IInv, TypeOK, SessionRow, SocketData, Statement, SweepFind,
     Freshness, ClaimOp, SeenFence, FencedOp, RowShape, Unleased, PastTimes, ExpiryOfClosed,
     ReplayLeaseNotFinal, EvictionsAreStale
<1>22. CASE SweepWrite
  BY <1>0, <1>22 DEF IInv, TypeOK, SessionRow, SocketData, Statement, SweepWrite,
     Freshness, ClaimOp, SeenFence, FencedOp, RowShape, Unleased, PastTimes, ExpiryOfClosed,
     ReplayLeaseNotFinal, EvictionsAreStale
<1>23. CASE Tick
  BY <1>0, <1>23 DEF IInv, TypeOK, SessionRow, SocketData, Statement, Tick,
     Freshness, ClaimOp, SeenFence, FencedOp, RowShape, Unleased, PastTimes, ExpiryOfClosed,
     ReplayLeaseNotFinal, EvictionsAreStale
<1>24. CASE UNCHANGED vars
  BY <1>0, <1>24 DEF IInv, TypeOK, SessionRow, SocketData, Statement, vars,
     Freshness, ClaimOp, SeenFence, FencedOp, RowShape, Unleased, PastTimes, ExpiryOfClosed,
     ReplayLeaseNotFinal, EvictionsAreStale
<1> QED
  BY <1>1, <1>2, <1>3, <1>4, <1>5, <1>6, <1>7, <1>8, <1>9, <1>10, <1>11, <1>12,
     <1>13, <1>14, <1>15, <1>16, <1>17, <1>18, <1>19, <1>20, <1>21, <1>22, <1>23, <1>24
  DEF Next, Commit

(***************************************************************************)
(* The inductive invariant holds throughout.                               *)
(***************************************************************************)
THEOREM Invariance == Spec => []IInv
BY InitInv, NextInv, PTL DEF Spec

(***************************************************************************)
(* The write fence: whatever the interleaving of claims, ends, replays and *)
(* queued heartbeats, a renewal, state write or expiry about to take       *)
(* effect belongs to an incarnation that is not retired now.               *)
(***************************************************************************)
THEOREM WriteFenceHolds == Spec => []WriteFence
<1>1. IInv => WriteFence
  <2> SUFFICES ASSUME IInv, NEW q \in inflight, q.op \in FencedOp,
                      socket[q.sock].leased, Matches(q)
               PROVE  retirement[socket[q.sock].inst] = "none"
    BY DEF WriteFence, FencedOp
  <2>1. ExactGeneration(session, q.sock, socket[q.sock].inst, q.seen)
    BY DEF Matches, Qualifies, Renewable, Owns, FencedOp
  <2> QED
    BY <2>1 DEF ExactGeneration, IInv, SeenFence
<1> QED
  BY <1>1, Invariance, PTL

(***************************************************************************)
(* A replay transport that holds the lease (claimRuntimeConnectionLease    *)
(* with replayOnly) speaks for an incarnation that is still 'replaying'.   *)
(***************************************************************************)
THEOREM ReplayLeaseHolds == Spec => []ReplayLeaseNotFinal
BY Invariance, PTL DEF IInv

(***************************************************************************)
(* A delayed eviction command of disconnectSockets never hits the winner.  *)
(***************************************************************************)
THEOREM EvictionsHold == Spec => []EvictionsAreStale
BY Invariance, PTL DEF IInv

(***************************************************************************)
(* The stale-positive window of a vanished runtime is shorter than one     *)
(* lease duration, for every lease duration.                               *)
(***************************************************************************)
THEOREM StalePositiveHolds == Spec => []StalePositiveBounded
<1>1. IInv => StalePositiveBounded
  <2> SUFFICES ASSUME IInv, NEW s \in Socket, socket[s].phase = "silent",
                      session.leaseId = s, RuntimeConnected(session, retirement, now)
               PROVE  now < socket[s].since + LeaseDuration
    BY DEF StalePositiveBounded
  <2>1. ~Unleased(session)
    BY ValueAssumption DEF Unleased
  <2>2. session.leaseExpiresAt \in Nat /\ session.leaseExpiresAt > now
    BY <2>1 DEF RuntimeConnected, Unexpired, IInv, TypeOK, SessionRow
  <2>3. session.leaseExpiresAt <= socket[s].since + LeaseDuration
    BY DEF IInv, PastTimes
  <2> QED
    BY <2>2, <2>3, TimeAssumption DEF IInv, TypeOK, SocketData
<1> QED
  BY <1>1, Invariance, PTL

(***************************************************************************)
(* After the tombstone of a disconnect or of an end, readers are told the  *)
(* runtime is not connected.                                               *)
(***************************************************************************)
THEOREM TombstoneHolds == Spec => []TombstoneNotConnected
<1>1. IInv => TombstoneNotConnected
  BY ValueAssumption DEF IInv, TypeOK, SessionRow, RowShape, Unleased,
     TombstoneNotConnected, RuntimeConnected, Unexpired
<1> QED
  BY <1>1, Invariance, PTL

(***************************************************************************)
(* Readiness and admission agree: when findRuntimeConnectionSession says   *)
(* that nobody is connected and the last incarnation is not retired,       *)
(* claimRuntimeConnectionLease admits a fresh incarnation.                 *)
(***************************************************************************)
THEOREM ReadinessHolds == Spec => []ReadinessMatchesAdmission
<1>1. IInv => ReadinessMatchesAdmission
  <2> SUFFICES ASSUME IInv, ~RuntimeConnected(session, retirement, now),
                      session.activeInstanceId # Null
                        => retirement[session.activeInstanceId] = "none",
                      NEW i \in Instance, retirement[i] = "none"
               PROVE  LiveClaimable(session, i, retirement, now)
    BY DEF ReadinessMatchesAdmission
  <2>1. CASE session.leaseId = Null
    BY <2>1, TimeAssumption DEF IInv, TypeOK, SessionRow, RowShape, Unleased,
       RuntimeConnected, Unexpired, LiveClaimable, LegacyGraceOver
  <2>2. CASE session.leaseId \in Socket
    BY <2>2, ValueAssumption DEF IInv, TypeOK, SessionRow, RowShape, Unleased,
       RuntimeConnected, Unexpired, LiveClaimable, Expired
  <2>3. CASE session.leaseId = Tombstone
    BY <2>3, ValueAssumption DEF IInv, TypeOK, SessionRow, RowShape,
       LiveClaimable, Expired
  <2> QED
    BY <2>1, <2>2, <2>3 DEF IInv, TypeOK, SessionRow
<1> QED
  BY <1>1, Invariance, PTL

ClaimCommitted(q) ==
    \/ q.op = "claim" /\ ClaimLive(q)
    \/ q.op = "replay" /\ ClaimReplay(q, ReplayInstance(session, socket[q.sock].asked))

\* Only the commit of a claim changes the incarnation of the row.
LEMMA InstanceChange ==
    ASSUME IInv, [Next]_vars, session'.activeInstanceId # session.activeInstanceId
    PROVE  \E q \in inflight : Matches(q) /\ ClaimCommitted(q)
<1>1. ASSUME NEW s \in Socket, LegacyEnd(s) PROVE FALSE
  BY <1>1 DEF LegacyEnd, IInv, TypeOK, SessionRow
<1>2. ASSUME NEW q \in inflight, CommitRenew(q) \/ CommitEnd(q) \/ CommitExpire(q) PROVE FALSE
  BY <1>2 DEF CommitRenew, CommitEnd, End, CommitExpire, Expire, IInv, TypeOK, SessionRow
<1>3. CASE SweepWrite
  BY <1>3 DEF SweepWrite, IInv, TypeOK, SessionRow
<1>4. ASSUME NEW q \in inflight, CommitClaim(q) PROVE Matches(q) /\ ClaimLive(q) /\ q.op = "claim"
  BY <1>4 DEF CommitClaim
<1>5. ASSUME NEW q \in inflight, CommitReplay(q)
      PROVE  Matches(q) /\ q.op = "replay"
             /\ ClaimReplay(q, ReplayInstance(session, socket[q.sock].asked))
  BY <1>5 DEF CommitReplay
<1>6. CASE UNCHANGED session
  BY <1>6
<1> QED
  BY <1>1, <1>2, <1>3, <1>4, <1>5, <1>6 DEF ClaimCommitted, Next, Commit, Connect, BeginRenew, BeginWrite,
     BeginEnd, Disconnect, BeginExpire, Silence, BeginOwnerOp, DeliverEvict, LoseEvict,
     CommitWrite, TryOwnerLock, Abort, FinishOwnerOp, SweepFind, Tick, vars

(***************************************************************************)
(* No handshake takes the session from a connected runtime.                *)
(***************************************************************************)
THEOREM NoPrematureTakeoverHolds == Spec => NoPrematureTakeover
<1>1. IInv /\ [Next]_vars =>
        [session'.activeInstanceId # session.activeInstanceId
         => ~RuntimeConnected(session, retirement, now)]_vars
  <2> SUFFICES ASSUME IInv, [Next]_vars,
                      session'.activeInstanceId # session.activeInstanceId
               PROVE  ~RuntimeConnected(session, retirement, now)
    OBVIOUS
  <2>1. PICK q \in inflight : Matches(q) /\ ClaimCommitted(q)
    BY InstanceChange
  <2>2. q \in Statement /\ q.at <= now /\ session \in SessionRow /\ now \in Nat
    BY DEF IInv, TypeOK, PastTimes
  <2>3. CASE ClaimLive(q) /\ q.op = "claim"
    <3>1. session'.activeInstanceId = socket[q.sock].asked
      BY <2>2, <2>3 DEF ClaimLive, SessionRow
    <3>2. LiveClaimable(session, socket[q.sock].asked, q.seen, q.at)
      BY <2>1, <2>3 DEF Matches, Qualifies
    <3> QED
      BY <2>2, <3>1, <3>2, TimeAssumption, ValueAssumption DEF LiveClaimable, Expired,
         LegacyGraceOver, Unleased, RuntimeConnected, Unexpired, SessionRow, Statement
  <2>4. CASE q.op = "replay" /\ ClaimReplay(q, ReplayInstance(session, socket[q.sock].asked))
    <3>1. session'.activeInstanceId = ReplayInstance(session, socket[q.sock].asked)
      BY <2>2, <2>4 DEF ClaimReplay, SessionRow
    <3>2. ReplayClaimable(session, socket[q.sock].asked, q.seen, q.at)
      BY <2>1, <2>4 DEF Matches, Qualifies
    <3>3. session.activeInstanceId = Null
      BY <3>1, <3>2 DEF ReplayInstance, ReplayClaimable
    <3> QED
      BY <3>3 DEF RuntimeConnected
  <2> QED
    BY <2>1, <2>3, <2>4 DEF ClaimCommitted
<1> QED
  BY <1>1, Invariance, PTL DEF Spec, NoPrematureTakeover

(***************************************************************************)
(* The late disconnect of an older socket never clears a newer lease.      *)
(***************************************************************************)
THEOREM LateDisconnectHolds == Spec => LateDisconnectHarmless
<1> DEFINE Harmless ==
      \A s \in Socket :
         session.leaseId = s /\ session'.leaseId = Tombstone
         => \/ socket[s].phase = "closed"
            \/ retirement'[session.activeInstanceId] = "ended"
<1>1. IInv /\ [Next]_vars => [Harmless]_vars
  <2> SUFFICES ASSUME IInv, [Next]_vars, NEW s \in Socket,
                      session.leaseId = s, session'.leaseId = Tombstone
               PROVE  \/ socket[s].phase = "closed"
                      \/ retirement'[session.activeInstanceId] = "ended"
    OBVIOUS
  <2>0. session \in SessionRow /\ session.leaseId # Tombstone
    BY ValueAssumption DEF IInv, TypeOK
  <2>1. ASSUME NEW q \in inflight, CommitExpire(q) PROVE socket[s].phase = "closed"
    BY <2>0, <2>1 DEF CommitExpire, Matches, Qualifies, ExactGeneration, IInv, ExpiryOfClosed
  <2>2. ASSUME NEW q \in inflight, CommitEnd(q)
        PROVE  retirement'[session.activeInstanceId] = "ended"
    <3>1. Endable(session, EndInstance(socket[q.sock]), q.seen) /\ End(q)
      BY <2>0, <2>2 DEF CommitEnd, Matches, Qualifies
    <3>2. session.activeInstanceId \in Incarnation
      BY DEF IInv, RowShape, TypeOK, SessionRow
    <3> QED
      BY <3>1, <3>2 DEF End, Endable, IInv, TypeOK
  <2>3. ASSUME NEW t \in Socket, LegacyEnd(t) PROVE FALSE
    BY <2>3, ValueAssumption DEF LegacyEnd, WhollyLegacy, Unleased
  <2>4. ASSUME NEW q \in inflight, CommitClaim(q) PROVE FALSE
    BY <2>0, <2>4, ValueAssumption DEF CommitClaim, ClaimLive, IInv, TypeOK, SessionRow, Statement
  <2>5. ASSUME NEW q \in inflight, CommitReplay(q) PROVE FALSE
    BY <2>0, <2>5, ValueAssumption DEF CommitReplay, ClaimReplay, IInv, TypeOK, SessionRow, Statement
  <2>6. ASSUME NEW q \in inflight, CommitRenew(q) PROVE FALSE
    BY <2>0, <2>6 DEF CommitRenew, SessionRow
  <2>7. CASE SweepWrite
    BY <2>0, <2>7 DEF SweepWrite, SessionRow
  <2>8. CASE UNCHANGED session
    BY <2>0, <2>8
  <2> QED
    BY <2>1, <2>2, <2>3, <2>4, <2>5, <2>6, <2>7, <2>8 DEF Next, Commit, Connect, BeginRenew,
       BeginWrite, BeginEnd, Disconnect, BeginExpire, Silence, BeginOwnerOp, DeliverEvict,
       LoseEvict, CommitWrite, TryOwnerLock, Abort, FinishOwnerOp, SweepFind, Tick, vars
<1> QED
  BY <1>1, Invariance, PTL DEF Spec, LateDisconnectHarmless, Harmless

(***************************************************************************)
(* The sweep never deactivates a connected runtime, provided the sweep age *)
(* exceeds the lease duration by at least the clock skew (TimeAssumption). *)
(***************************************************************************)
THEOREM SweepHolds == Spec => SweepSparesConnected
<1> DEFINE Spares ==
      session.active /\ ~session'.active /\ retirement' = retirement
      => ~RuntimeConnected(session, retirement, now)
<1>1. IInv /\ [Next]_vars => [Spares]_vars
  <2> SUFFICES ASSUME IInv, [Next]_vars, session.active, ~session'.active,
                      retirement' = retirement
               PROVE  ~RuntimeConnected(session, retirement, now)
    OBVIOUS
  <2>0. session \in SessionRow /\ retirement \in [Incarnation -> Status]
    BY DEF IInv, TypeOK
  <2>1. CASE SweepWrite
    <3>1. session.lastActiveAt <= sweep /\ sweep \in Nat
          /\ sweep <= now + ClockSkew - SweepAge /\ now \in Nat
      BY <2>0, <2>1 DEF SweepWrite, IInv, TypeOK, PastTimes
    <3>2. session.lastActiveAt + LeaseDuration <= now
      BY <2>0, <3>1, TimeAssumption DEF SessionRow
    <3> QED
      BY <2>0, <3>1, <3>2, TimeAssumption, ValueAssumption DEF IInv, RowShape, Unleased,
         RuntimeConnected, Unexpired, SessionRow
  <2>2. ASSUME NEW s \in Socket, LegacyEnd(s) PROVE ~RuntimeConnected(session, retirement, now)
    BY <2>2 DEF LegacyEnd, WhollyLegacy, RuntimeConnected
  <2>3. ASSUME NEW q \in inflight, CommitEnd(q)
        PROVE  ~RuntimeConnected(session, retirement, now)
    <3>1. Endable(session, EndInstance(socket[q.sock]), q.seen) /\ End(q)
      BY <2>3 DEF CommitEnd, Matches, Qualifies
    <3>2. CASE session.activeInstanceId \in Incarnation
      <4>1. retirement'[session.activeInstanceId] = "ended"
        BY <2>0, <3>1, <3>2 DEF End, Endable
      <4> QED
        BY <4>1 DEF RuntimeConnected
    <3>3. CASE session.activeInstanceId = Null
      BY <3>3 DEF RuntimeConnected
    <3> QED
      BY <2>0, <3>2, <3>3 DEF SessionRow
  <2>4. ASSUME NEW q \in inflight, CommitReplay(q)
        PROVE  ~RuntimeConnected(session, retirement, now)
    <3> DEFINE i == ReplayInstance(session, socket[q.sock].asked)
    <3>1. ClaimReplay(q, i) /\ ReplayClaimable(session, socket[q.sock].asked, q.seen, q.at)
      BY <2>4 DEF CommitReplay, Matches, Qualifies
    <3>2. CASE session.activeInstanceId = Null
      BY <3>2 DEF RuntimeConnected
    <3>3. CASE session.activeInstanceId \in Incarnation
      <4>1. i = session.activeInstanceId
        BY <3>1, <3>3, ValueAssumption DEF ReplayClaimable, ReplayInstance, Incarnation
      <4>2. retirement'[session.activeInstanceId] # "none"
        BY <2>0, <3>1, <3>3, <4>1 DEF ClaimReplay
      <4> QED
        BY <4>2 DEF RuntimeConnected
    <3> QED
      BY <2>0, <3>2, <3>3 DEF SessionRow
  <2>5. ASSUME NEW q \in inflight, CommitClaim(q) \/ CommitRenew(q) \/ CommitExpire(q) PROVE FALSE
    BY <2>0, <2>5 DEF CommitClaim, ClaimLive, CommitRenew, CommitExpire, Expire, SessionRow
  <2>6. CASE UNCHANGED session
    BY <2>6
  <2> QED
    BY <2>1, <2>2, <2>3, <2>4, <2>5, <2>6 DEF Next, Commit, Connect, BeginRenew,
       BeginWrite, BeginEnd, Disconnect, BeginExpire, Silence, BeginOwnerOp, DeliverEvict,
       LoseEvict, CommitWrite, TryOwnerLock, Abort, FinishOwnerOp, SweepFind, Tick, vars
<1> QED
  BY <1>1, Invariance, PTL DEF Spec, SweepSparesConnected, Spares

(***************************************************************************)
(* While an owner operation holds the advisory lock, the generation and    *)
(* the retirements stand still.                                            *)
(***************************************************************************)
THEOREM OwnerLockHolds == Spec => OwnerLockFence
<1> DEFINE Fence ==
      lock # Null /\ session.leaseId \in Socket
      => session'.leaseId = session.leaseId /\ retirement' = retirement
<1>1. IInv /\ [Next]_vars => [Fence]_vars
  <2> SUFFICES ASSUME IInv, [Next]_vars, lock # Null, session.leaseId \in Socket
               PROVE  session'.leaseId = session.leaseId /\ retirement' = retirement
    OBVIOUS
  <2>0. session \in SessionRow
    BY DEF IInv, TypeOK
  <2>1. ASSUME NEW q \in inflight,
               CommitClaim(q) \/ CommitReplay(q) \/ CommitEnd(q) \/ CommitExpire(q)
        PROVE  FALSE
    BY <2>1 DEF CommitClaim, CommitReplay, CommitEnd, CommitExpire
  <2>2. ASSUME NEW s \in Socket, LegacyEnd(s) PROVE FALSE
    BY <2>2, ValueAssumption DEF LegacyEnd, WhollyLegacy, Unleased
  <2>3. ASSUME NEW q \in inflight, CommitRenew(q)
        PROVE  session'.leaseId = session.leaseId /\ retirement' = retirement
    BY <2>0, <2>3 DEF CommitRenew, SessionRow
  <2>4. CASE SweepWrite
    BY <2>0, <2>4 DEF SweepWrite, SessionRow
  <2>5. CASE UNCHANGED <<session, retirement>>
    BY <2>5
  <2> QED
    BY <2>1, <2>2, <2>3, <2>4, <2>5 DEF Next, Commit, Connect, BeginRenew,
       BeginWrite, BeginEnd, Disconnect, BeginExpire, Silence, BeginOwnerOp, DeliverEvict,
       LoseEvict, CommitWrite, TryOwnerLock, Abort, FinishOwnerOp, SweepFind, Tick, vars
<1> QED
  BY <1>1, Invariance, PTL DEF Spec, OwnerLockFence, Fence
=============================================================================
