------------------------- MODULE ActivityCacheProofs -------------------------
(***************************************************************************)
(* Proofs about ActivityCache, for any machines, sessions, incarnations,   *)
(* thresholds and clocks: no heartbeat is lost on its way to the row, and  *)
(* a late flush does no harm.                                              *)
(***************************************************************************)
EXTENDS ActivityCache, TLAPS

-----------------------------------------------------------------------------
(* The inductive invariant, in parts.                                      *)

\* An update that a heartbeat of x can have made: not of the future, and a
\* machine's names no incarnation.
Proper(x, u) ==
    u \in Update /\ u.t <= now /\ (x \in Machine => u.inst = None)

\* Everything remembered is of the past.
Carried ==
    /\ \A x \in Target : row[x].lastActiveAt <= now
    /\ \A v \in validating : Proper(v.target, v.update)
    /\ \A x \in Target : entry[x] # NoEntry =>
         \A u \in {entry[x].pending, entry[x].inFlight} \ {None} : Proper(x, u)

\* An entry is marked in flight exactly while the flush is writing it; a row
\* that a write missed is gone for good.
UnderWay ==
    /\ \A w \in flush.writes :
         /\ entry[w.target] # NoEntry /\ entry[w.target].inFlight = w.update
         /\ w.at = "missing" => w.target \in Machine /\ ~row[w.target].exists
    /\ \A x \in Target : entry[x] # NoEntry /\ entry[x].inFlight # None =>
         \E w \in flush.writes : w.target = x
    /\ flush.writes # {} => flush.running

\* After shutdown was called there is another turn to come, or it has taken
\* everything.
Stopping ==
    /\ phase = "stopping" => flush.running
    /\ phase = "stopping" /\ ~flush.again /\ ~flush.failed =>
         \A x \in Target : entry[x] # NoEntry => entry[x].pending = None

(***************************************************************************)
(* While heartbeats come in order, the entry follows the row: what is      *)
(* known to be written is in the row, what is queued or in flight is not   *)
(* behind it, and the queued one is far ahead of the one in flight.        *)
(***************************************************************************)
Ordered(e, r, h) ==
    e # NoEntry =>
        /\ e.lastUpdateSent <= r.lastActiveAt
        /\ \A u \in {e.pending, e.inFlight} \ {None} : r.lastActiveAt <= u.t /\ u.t <= h.t
        /\ e.pending # None /\ e.inFlight # None => e.pending.t > e.inFlight.t + Threshold

Kept(e, r, h) ==
    \/ h.t - r.lastActiveAt <= Threshold
    \/ /\ e # NoEntry
       /\ h.t - Larger(SlotTime(e.pending, None), SlotTime(e.inFlight, None)) <= Threshold

Followed ==
    \A x \in Machine : row[x].exists /\ heard[x].ordered =>
        /\ Ordered(entry[x], row[x], heard[x])
        /\ Kept(entry[x], row[x], heard[x])
        /\ \A w \in flush.writes :
             w.target = x /\ w.at = "applied" => w.update.t <= row[x].lastActiveAt

IInv == TypeOK /\ Carried /\ UnderWay /\ Stopping /\ ShutdownFlushes /\ Followed
-----------------------------------------------------------------------------
(* Facts about the model's operators.                                      *)

RowType == [exists : BOOLEAN, active : BOOLEAN, lastActiveAt : Nat, inst : Instance \union {None}]
FlushType == [running : BOOLEAN, again : BOOLEAN, failed : BOOLEAN, writes : SUBSET Write]
HeardType == [t : Nat, ordered : BOOLEAN]

\* The fields of the flush state that a turn begins with.
LEMMA FlushFields ==
    ASSUME NEW a \in BOOLEAN, NEW b \in BOOLEAN, NEW c \in BOOLEAN, NEW W \in SUBSET Write
    PROVE  LET q == [running |-> a, again |-> b, failed |-> c, writes |-> W]
           IN  q \in FlushType /\ q.running = a /\ q.again = b /\ q.failed = c /\ q.writes = W
BY DEF FlushType

\* Queueing changes nothing but the pending update, and that only while up.
LEMMA QueuedFields ==
    ASSUME NEW e \in CacheEntry, NEW u \in Update
    PROVE  LET q == Queued(e, u)
           IN  /\ q \in CacheEntry
               /\ q.lastUpdateSent = e.lastUpdateSent /\ q.inFlight = e.inFlight
               /\ q.validUntil = e.validUntil
               /\ q.pending = IF /\ phase = "up"
                                 /\ Distance(u.t, Watermark(e, u.inst)) > Threshold
                                 /\ e.pending = None \/ u.t >= e.pending.t
                              THEN u ELSE e.pending
<1>1. [e EXCEPT !.pending = u] \in CacheEntry
  BY DEF CacheEntry, Slot
<1>2. LET q == [e EXCEPT !.pending = u]
      IN  /\ q.lastUpdateSent = e.lastUpdateSent /\ q.inFlight = e.inFlight
          /\ q.validUntil = e.validUntil /\ q.pending = u
  BY DEF CacheEntry
<1> QED
  BY <1>1, <1>2 DEF Queued

\* An entry whose heartbeats are in order stays so when one is queued, and the
\* newest heartbeat is kept.
LEMMA QueuedFollows ==
    ASSUME NEW e \in CacheEntry, NEW u \in Update, NEW r \in RowType, NEW h \in HeardType,
           NEW g \in HeardType, phase = "up", u.inst = None,
           e.pending # None => e.pending.inst = None,
           e.inFlight # None => e.inFlight.inst = None,
           Ordered(e, r, h), u.t >= h.t, u.t >= r.lastActiveAt, g.t = u.t
    PROVE  Ordered(Queued(e, u), r, g) /\ Kept(Queued(e, u), r, g)
<1> USE CacheAssumption
<1>1. PICK q : q = Queued(e, u)
  OBVIOUS
<1>2. PICK P : P = SlotTime(e.pending, None)
  OBVIOUS
<1>3. PICK F : F = SlotTime(e.inFlight, None)
  OBVIOUS
<1>4. PICK S : S = e.lastUpdateSent
  OBVIOUS
<1>5. PICK L : L = r.lastActiveAt
  OBVIOUS
<1>6. /\ S \in Nat /\ L \in Nat /\ u.t \in Nat /\ h.t \in Nat /\ Threshold \in Nat
      /\ e # NoEntry /\ q # NoEntry /\ u # None
  <2>1. q \in CacheEntry
    BY <1>1, QueuedFields
  <2> QED
    BY <1>4, <1>5, <2>1 DEF CacheEntry, RowType, HeardType, Update, NoEntry
<1>7. /\ e.pending = None => P = -1
      /\ e.pending # None => P = e.pending.t /\ P \in Nat /\ L <= P /\ P <= h.t
      /\ e.inFlight = None => F = -1
      /\ e.inFlight # None => F = e.inFlight.t /\ F \in Nat /\ L <= F /\ F <= h.t
      /\ e.pending # None /\ e.inFlight # None => P > F + Threshold
      /\ S <= L
  <2>1. e.pending \in Slot /\ e.inFlight \in Slot
    BY DEF CacheEntry
  <2> QED
    BY <1>2, <1>3, <1>4, <1>5, <1>6, <2>1 DEF Ordered, SlotTime, Slot, Update
<1>8. P \in Int /\ F \in Int
  BY <1>7
<1>9. Watermark(e, u.inst) = Larger(S, Larger(F, P))
  BY <1>2, <1>3, <1>4 DEF Watermark
<1>10. /\ q.lastUpdateSent = S /\ q.inFlight = e.inFlight
       /\ \/ /\ q.pending = u /\ Distance(u.t, Larger(S, Larger(F, P))) > Threshold
          \/ /\ q.pending = e.pending
             /\ Distance(u.t, Larger(S, Larger(F, P))) <= Threshold
  <2>1. e.pending # None => u.t >= e.pending.t
    BY <1>6, <1>7
  <2>2. Distance(u.t, Larger(S, Larger(F, P))) \in Int
    BY <1>6, <1>8 DEF Distance, Larger
  <2> QED
    BY <1>1, <1>4, <1>6, <1>9, <2>1, <2>2, QueuedFields
<1>11. CASE q.pending = u /\ Distance(u.t, Larger(S, Larger(F, P))) > Threshold
  <2>1. SlotTime(q.pending, None) = u.t /\ SlotTime(q.inFlight, None) = F
    BY <1>3, <1>6, <1>10, <1>11 DEF SlotTime
  <2>2. Kept(q, r, g)
    <3>1. u.t - Larger(u.t, F) <= Threshold
      BY <1>6, <1>8 DEF Larger
    <3> QED
      BY <1>6, <2>1, <3>1 DEF Kept
  <2>3. e.inFlight # None => u.t > e.inFlight.t + Threshold
    <3>1. e.inFlight # None => u.t >= F /\ u.t >= P /\ u.t >= S
      BY <1>5, <1>6, <1>7
    <3>2. e.inFlight # None => Distance(u.t, Larger(S, Larger(F, P))) <= u.t - F
      BY <1>6, <1>7, <1>8, <3>1 DEF Distance, Larger
    <3> QED
      BY <1>6, <1>7, <1>11, <3>2 DEF Distance, Larger
  <2>4. Ordered(q, r, g)
    BY <1>4, <1>5, <1>6, <1>7, <1>10, <1>11, <2>3 DEF Ordered
  <2> QED
    BY <1>1, <2>2, <2>4
<1>12. CASE /\ q.pending = e.pending
            /\ Distance(u.t, Larger(S, Larger(F, P))) <= Threshold
  <2>1. SlotTime(q.pending, None) = P /\ SlotTime(q.inFlight, None) = F
    BY <1>2, <1>3, <1>10, <1>12
  <2>2. u.t - L <= Threshold \/ u.t - Larger(P, F) <= Threshold
    BY <1>6, <1>7, <1>8, <1>12 DEF Distance, Larger
  <2>3. Kept(q, r, g)
    BY <1>5, <1>6, <2>1, <2>2 DEF Kept
  <2>4. Ordered(q, r, g)
    BY <1>4, <1>5, <1>6, <1>7, <1>10, <1>12 DEF Ordered
  <2> QED
    BY <1>1, <2>3, <2>4
<1> QED
  BY <1>10, <1>11, <1>12
-----------------------------------------------------------------------------
(* The steps.                                                              *)

\* What the type invariant says of each variable.
LEMMA Types ==
    ASSUME TypeOK
    PROVE  /\ now \in Nat /\ row \in [Target -> RowType] /\ flush \in FlushType
           /\ entry \in [Target -> CacheEntry \union {NoEntry}]
           /\ heard \in [Machine -> HeardType]
           /\ flush.writes \subseteq Write
           /\ \A w \in flush.writes : w.target \in Target /\ w.update \in Update
           /\ \A v \in validating : v.target \in Target /\ v.update \in Update /\ v.at \in Nat
BY DEF TypeOK, RowType, FlushType, HeardType, Write

\* A step that touches the entry of x only, and nothing that is in flight.
LEMMA EntryStep ==
    ASSUME IInv, NEW x \in Target, phase # "down",
           UNCHANGED <<now, row, flush, phase, sweep>>,
           budget' \in [beats : [Target -> Nat], events : [Target -> Nat], faults : Nat],
           validating' \subseteq [target : Target, update : Update, at : Nat],
           \A v \in validating' : Proper(v.target, v.update),
           entry' \in [Target -> CacheEntry \union {NoEntry}],
           heard' \in [Machine -> HeardType],
           \A y \in Target \ {x} : entry'[y] = entry[y],
           \A y \in Machine \ {x} : heard'[y] = heard[y],
           entry'[x] # NoEntry =>
             \A u \in {entry'[x].pending, entry'[x].inFlight} \ {None} : Proper(x, u),
           \/ /\ entry[x] # NoEntry /\ entry'[x] # NoEntry
              /\ entry'[x].inFlight = entry[x].inFlight
           \/ /\ entry[x] = NoEntry \/ entry[x].inFlight = None
              /\ entry'[x] = NoEntry \/ entry'[x].inFlight = None,
           \/ phase = "up"
           \/ entry'[x] = NoEntry \/ entry'[x].pending = None
           \/ entry[x] # NoEntry /\ entry'[x].pending = entry[x].pending,
           x \in Machine /\ row[x].exists /\ heard'[x].ordered =>
             /\ heard[x].ordered
             /\ Ordered(entry'[x], row[x], heard'[x]) /\ Kept(entry'[x], row[x], heard'[x])
    PROVE  IInv'
<1> USE CacheAssumption
<1>0. TypeOK /\ Carried /\ UnderWay /\ Stopping /\ ShutdownFlushes /\ Followed
  BY DEF IInv
<1>1. TypeOK'
  BY <1>0 DEF TypeOK, HeardType
<1>2. Carried'
  <2>1. \A y \in Target : entry'[y] # NoEntry =>
          \A u \in {entry'[y].pending, entry'[y].inFlight} \ {None} : Proper(y, u)
    BY <1>0 DEF Carried
  <2> QED
    BY <1>0, <2>1 DEF Carried, Proper
<1>3. UnderWay'
  <2>1. ASSUME NEW w \in flush.writes
        PROVE  /\ entry'[w.target] # NoEntry /\ entry'[w.target].inFlight = w.update
               /\ w.at = "missing" => w.target \in Machine /\ ~row'[w.target].exists
    <3>1. /\ w.target \in Target /\ w.update \in Update /\ entry[w.target] # NoEntry
          /\ entry[w.target].inFlight = w.update
          /\ w.at = "missing" => w.target \in Machine /\ ~row[w.target].exists
      BY <1>0, Types DEF UnderWay
    <3>2. entry[w.target].inFlight # None
      BY <3>1
    <3> QED
      BY <3>1, <3>2
  <2>2. ASSUME NEW y \in Target, entry'[y] # NoEntry, entry'[y].inFlight # None
        PROVE  \E w \in flush.writes : w.target = y
    <3>1. entry[y] # NoEntry /\ entry[y].inFlight # None
      BY <2>2
    <3> QED
      BY <1>0, <3>1 DEF UnderWay
  <2> QED
    BY <1>0, <2>1, <2>2 DEF UnderWay
<1>4. Stopping' /\ ShutdownFlushes'
  BY <1>0 DEF Stopping, ShutdownFlushes
<1>5. Followed'
  <2>1. Machine \subseteq Target
    BY DEF Target
  <2>2. ASSUME NEW y \in Machine, row[y].exists, heard'[y].ordered
        PROVE  /\ Ordered(entry'[y], row[y], heard'[y])
               /\ Kept(entry'[y], row[y], heard'[y])
               /\ \A w \in flush.writes :
                    w.target = y /\ w.at = "applied" => w.update.t <= row[y].lastActiveAt
    <3>1. CASE y = x
      BY <1>0, <2>2, <3>1 DEF Followed
    <3>2. CASE y # x
      BY <1>0, <2>1, <2>2, <3>2 DEF Followed
    <3> QED
      BY <3>1, <3>2
  <2> QED
    BY <2>2 DEF Followed
<1> QED
  BY <1>1, <1>2, <1>3, <1>4, <1>5 DEF IInv

\* What a heartbeat that is taken in does to the entry e of its target.
LEMMA TakenIn ==
    ASSUME IInv, NEW x \in Target, NEW u, Proper(x, u), NEW e \in CacheEntry,
           phase # "down", UNCHANGED <<now, row, flush, phase, sweep>>,
           budget' \in [beats : [Target -> Nat], events : [Target -> Nat], faults : Nat],
           validating' \subseteq [target : Target, update : Update, at : Nat],
           \A v \in validating' : Proper(v.target, v.update),
           entry' = [entry EXCEPT ![x] = Queued(e, u)], Heard(x, u.t),
           \/ /\ entry[x] # NoEntry
              /\ e.inFlight = entry[x].inFlight /\ e.pending = entry[x].pending
           \/ entry[x] = NoEntry /\ e.inFlight = None /\ e.pending = None,
           x \in Machine /\ row[x].exists /\ heard[x].ordered =>
             Ordered(e, row[x], heard[x]) /\ Kept(e, row[x], heard[x])
    PROVE  IInv'
<1> USE CacheAssumption
<1>0. TypeOK /\ Carried
  BY DEF IInv
<1>1. /\ now \in Nat /\ row \in [Target -> RowType]
      /\ entry \in [Target -> CacheEntry \union {NoEntry}] /\ heard \in [Machine -> HeardType]
  BY <1>0, Types
<1>2. u \in Update /\ u.t \in Nat
  BY DEF Proper, Update
<1>3. PICK q : q = Queued(e, u)
  OBVIOUS
<1>4. /\ q \in CacheEntry /\ q.inFlight = e.inFlight
      /\ q.pending \in {e.pending, u}
      /\ phase # "up" => q = e
  BY <1>2, <1>3, QueuedFields DEF Queued
<1>5. /\ entry' \in [Target -> CacheEntry \union {NoEntry}] /\ entry'[x] = q
      /\ \A y \in Target \ {x} : entry'[y] = entry[y]
      /\ entry'[x] # NoEntry
  BY <1>1, <1>3, <1>4 DEF NoEntry
<1>6. \A s \in {e.pending, e.inFlight} \ {None} : Proper(x, s)
  BY <1>0 DEF Carried
<1>7. \A s \in {entry'[x].pending, entry'[x].inFlight} \ {None} : Proper(x, s)
  BY <1>4, <1>5, <1>6
<1>8. CASE x \in Machine /\ phase = "up"
  <2>1. PICK b \in BOOLEAN :
          b = (heard[x].ordered /\ u.t >= Larger(heard[x].t, row[x].lastActiveAt))
    OBVIOUS
  <2>2. PICK h : h = [t |-> Larger(u.t, heard[x].t), ordered |-> b]
    OBVIOUS
  <2>3. heard' = [heard EXCEPT ![x] = h]
    BY <1>8, <2>1, <2>2, Zenon DEF Heard
  <2>4. heard[x] \in HeardType /\ heard[x].t \in Nat /\ row[x].lastActiveAt \in Nat
        /\ row[x] \in RowType
    BY <1>1, <1>8 DEF HeardType, RowType
  <2>5. Larger(u.t, heard[x].t) \in Nat
    BY <1>2, <2>4 DEF Larger
  <2>6. h \in HeardType /\ h.ordered = b /\ h.t = Larger(u.t, heard[x].t)
    BY <2>2, <2>5 DEF HeardType
  <2>7. /\ heard' \in [Machine -> HeardType] /\ heard'[x] = h
        /\ \A y \in Machine \ {x} : heard'[y] = heard[y]
    BY <1>1, <1>8, <2>3, <2>6
  <2>8. ASSUME row[x].exists, h.ordered
        PROVE  /\ heard[x].ordered
               /\ Ordered(q, row[x], h) /\ Kept(q, row[x], h)
    <3>1. heard[x].ordered /\ u.t >= Larger(heard[x].t, row[x].lastActiveAt)
      BY <2>1, <2>6, <2>8
    <3>2. u.t >= heard[x].t /\ u.t >= row[x].lastActiveAt
      BY <1>2, <2>4, <3>1 DEF Larger
    <3>3. h.t = u.t
      BY <1>2, <2>4, <2>6, <3>2 DEF Larger
    <3>4. Ordered(e, row[x], heard[x])
      BY <1>8, <2>8, <3>1
    <3>5. /\ u.inst = None /\ (e.pending # None => e.pending.inst = None)
          /\ (e.inFlight # None => e.inFlight.inst = None)
      BY <1>6, <1>8 DEF Proper
    <3>6. PICK r : r = row[x]
      OBVIOUS
    <3>7. PICK k : k = heard[x]
      OBVIOUS
    <3>8. Ordered(Queued(e, u), r, h) /\ Kept(Queued(e, u), r, h)
      BY <1>2, <1>8, <2>4, <2>6, <3>2, <3>3, <3>4, <3>5, <3>6, <3>7, QueuedFollows
    <3> QED
      BY <1>3, <3>1, <3>6, <3>8
  <2> QED
    BY <1>4, <1>5, <1>7, <1>8, <2>7, <2>8, EntryStep
<1>9. CASE ~(x \in Machine /\ phase = "up")
  <2>1. heard' = heard
    BY <1>9 DEF Heard
  <2>2. x \in Machine => q = e
    BY <1>4, <1>9
  <2>3. x \in Machine /\ row[x].exists /\ heard'[x].ordered =>
          /\ heard[x].ordered
          /\ Ordered(entry'[x], row[x], heard'[x]) /\ Kept(entry'[x], row[x], heard'[x])
    BY <1>5, <2>1, <2>2
  <2>4. /\ heard' \in [Machine -> HeardType]
        /\ \A y \in Machine \ {x} : heard'[y] = heard[y]
    BY <1>1, <2>1
  <2>5. \/ phase = "up" \/ entry'[x].pending = None
        \/ entry[x] # NoEntry /\ entry'[x].pending = entry[x].pending
    BY <1>4, <1>5
  <2> QED
    BY <1>4, <1>5, <1>7, <2>3, <2>4, <2>5, EntryStep
<1> QED
  BY <1>8, <1>9

\* A heartbeat arrives: it is queued, or its target is looked up first.
LEMMA HeartbeatInv ==
    ASSUME IInv, NEW x \in Target, NEW time \in Nat, NEW inst \in Instance \union {None},
           x \in Machine => inst = None, Heartbeat(x, time, inst)
    PROVE  IInv'
<1> USE CacheAssumption
<1>0. TypeOK /\ Carried /\ Followed
  BY DEF IInv
<1>1. /\ now \in Nat /\ entry \in [Target -> CacheEntry \union {NoEntry}]
      /\ heard \in [Machine -> HeardType]
  BY <1>0, Types
<1>2. PICK u : u = [t |-> Clamp(time), inst |-> inst]
  OBVIOUS
<1>3. Proper(x, u)
  <2>1. Clamp(time) \in Nat /\ Clamp(time) <= now
    BY <1>1 DEF Clamp
  <2> QED
    BY <1>2, <2>1 DEF Proper, Update
<1>4. PICK hit \in BOOLEAN : hit = (entry[x] # NoEntry /\ entry[x].validUntil > now)
  OBVIOUS
<1>5. /\ phase # "down" /\ budget.beats[x] > 0
      /\ budget' = [budget EXCEPT !.beats[x] = @ - 1]
      /\ entry' = IF hit THEN [entry EXCEPT ![x] = Queued(@, u)] ELSE entry
      /\ validating' = IF hit THEN validating
                       ELSE validating \union {[target |-> x, update |-> u, at |-> now]}
      /\ IF hit THEN Heard(x, u.t) ELSE UNCHANGED heard
      /\ UNCHANGED <<now, row, flush, phase, sweep>>
  BY <1>2, <1>4, Zenon DEF Heartbeat
<1>6. budget' \in [beats : [Target -> Nat], events : [Target -> Nat], faults : Nat]
  <2>1. budget \in [beats : [Target -> Nat], events : [Target -> Nat], faults : Nat]
    BY <1>0 DEF TypeOK
  <2> QED
    BY <1>5, <2>1
<1>7. CASE hit
  <2>1. entry' = [entry EXCEPT ![x] = Queued(entry[x], u)] /\ Heard(x, u.t)
        /\ validating' = validating
    BY <1>5, <1>7, Zenon
  <2>2. PICK e : e = entry[x]
    OBVIOUS
  <2>3. e \in CacheEntry /\ entry[x] # NoEntry
    BY <1>1, <1>4, <1>7, <2>2
  <2>4. /\ entry' = [entry EXCEPT ![x] = Queued(e, u)]
        /\ validating' \subseteq [target : Target, update : Update, at : Nat]
        /\ \A v \in validating' : Proper(v.target, v.update)
        /\ e.inFlight = entry[x].inFlight /\ e.pending = entry[x].pending
    BY <1>0, <2>1, <2>2 DEF TypeOK, Carried
  <2>5. x \in Machine /\ row[x].exists /\ heard[x].ordered =>
          Ordered(e, row[x], heard[x]) /\ Kept(e, row[x], heard[x])
    BY <1>0, <2>2 DEF Followed
  <2> QED
    BY <1>3, <1>5, <1>6, <2>1, <2>3, <2>4, <2>5, TakenIn
<1>8. CASE ~hit
  <2>1. UNCHANGED <<entry, heard>>
        /\ validating' = validating \union {[target |-> x, update |-> u, at |-> now]}
    BY <1>5, <1>8
  <2>2. u \in Update
    BY <1>3 DEF Proper
  <2>3. /\ validating' \subseteq [target : Target, update : Update, at : Nat]
        /\ \A v \in validating' : Proper(v.target, v.update)
    BY <1>0, <1>1, <1>3, <2>1, <2>2 DEF TypeOK, Carried
  <2>4. entry[x] # NoEntry =>
          \A s \in {entry[x].pending, entry[x].inFlight} \ {None} : Proper(x, s)
    BY <1>0 DEF Carried
  <2>5. x \in Machine /\ row[x].exists /\ heard[x].ordered =>
          Ordered(entry[x], row[x], heard[x]) /\ Kept(entry[x], row[x], heard[x])
    BY <1>0 DEF Followed
  <2> QED
    BY <1>1, <1>5, <1>6, <2>1, <2>3, <2>4, <2>5, EntryStep
<1> QED
  BY <1>7, <1>8

\* The target of a heartbeat is found, or not.
LEMMA ValidateInv ==
    ASSUME IInv, NEW v \in validating, Validate(v)
    PROVE  IInv'
<1> USE CacheAssumption
<1>0. TypeOK /\ Carried /\ Followed
  BY DEF IInv
<1>1. PICK x \in Target : x = v.target
  BY <1>0, Types
<1>2. PICK u : u = v.update
  OBVIOUS
<1>3. Proper(x, u)
  BY <1>0, <1>1, <1>2 DEF Carried
<1>4. /\ phase # "down" /\ validating' = validating \ {v}
      /\ UNCHANGED <<now, row, flush, phase, sweep, budget>>
      /\ row[x].exists => /\ entry' = [entry EXCEPT ![x] = Queued(Validated(x, v.at), u)]
                          /\ Heard(x, u.t)
      /\ ~row[x].exists => UNCHANGED <<entry, heard>>
  BY <1>1, <1>2 DEF Validate
<1>5. /\ validating' \subseteq [target : Target, update : Update, at : Nat]
      /\ \A z \in validating' : Proper(z.target, z.update)
      /\ budget' \in [beats : [Target -> Nat], events : [Target -> Nat], faults : Nat]
  BY <1>0, <1>4 DEF TypeOK, Carried
<1>6. /\ entry \in [Target -> CacheEntry \union {NoEntry}] /\ row[x] \in RowType
      /\ heard \in [Machine -> HeardType] /\ v.at \in Nat
  BY <1>0, Types
<1>7. CASE row[x].exists
  <2>1. PICK e : e = Validated(x, v.at)
    OBVIOUS
  <2>2. row[x].lastActiveAt \in Nat /\ v.at + CacheTtl \in Nat
    BY <1>6 DEF RowType
  <2>3. CASE entry[x] = NoEntry
    <3>1. e = [validUntil |-> v.at + CacheTtl, lastUpdateSent |-> row[x].lastActiveAt,
               pending |-> None, inFlight |-> None]
      BY <2>1, <2>3 DEF Validated
    <3>2. e \in CacheEntry /\ e.pending = None /\ e.inFlight = None
          /\ e.lastUpdateSent = row[x].lastActiveAt
      BY <2>2, <3>1 DEF CacheEntry, Slot
    <3>3. x \in Machine /\ row[x].exists /\ heard[x].ordered =>
            Ordered(e, row[x], heard[x]) /\ Kept(e, row[x], heard[x])
      BY <1>0, <2>2, <2>3, <3>2 DEF Followed, Ordered, Kept
    <3> QED
      BY <1>3, <1>4, <1>5, <1>7, <2>1, <2>3, <3>2, <3>3, TakenIn
  <2>4. CASE entry[x] # NoEntry
    <3>1. PICK d : d = entry[x]
      OBVIOUS
    <3>2. d \in CacheEntry
      BY <1>6, <2>4, <3>1
    <3>3. e = [d EXCEPT !.validUntil = v.at + CacheTtl,
                        !.lastUpdateSent = Larger(@, row[x].lastActiveAt)]
      BY <2>1, <2>4, <3>1 DEF Validated
    <3>4. PICK m : m = Larger(d.lastUpdateSent, row[x].lastActiveAt)
      OBVIOUS
    <3>5. m \in Nat /\ d.lastUpdateSent \in Nat
      BY <2>2, <3>2, <3>4 DEF CacheEntry, Larger
    <3>6. /\ e \in CacheEntry /\ e.pending = d.pending /\ e.inFlight = d.inFlight
          /\ e.lastUpdateSent = m
      BY <2>2, <3>2, <3>3, <3>4, <3>5 DEF CacheEntry
    <3>7. ASSUME x \in Machine, row[x].exists, heard[x].ordered
          PROVE  Ordered(e, row[x], heard[x]) /\ Kept(e, row[x], heard[x])
      <4>1. Ordered(d, row[x], heard[x]) /\ Kept(d, row[x], heard[x])
        BY <1>0, <3>1, <3>7 DEF Followed
      <4>2. d # NoEntry /\ e # NoEntry
        BY <2>4, <3>1, <3>6 DEF NoEntry
      <4>3. m <= row[x].lastActiveAt
        BY <2>2, <3>4, <3>5, <4>1, <4>2 DEF Ordered, Larger
      <4>4. Ordered(e, row[x], heard[x])
        BY <3>6, <4>1, <4>2, <4>3 DEF Ordered
      <4>5. Kept(e, row[x], heard[x])
        BY <3>6, <4>1, <4>2 DEF Kept
      <4> QED
        BY <4>4, <4>5
    <3>8. e.inFlight = entry[x].inFlight /\ e.pending = entry[x].pending
      BY <3>1, <3>6
    <3> QED
      BY <1>3, <1>4, <1>5, <1>7, <2>1, <2>4, <3>6, <3>7, <3>8, TakenIn
  <2> QED
    BY <2>3, <2>4
<1>8. CASE ~row[x].exists
  <2>1. entry[x] # NoEntry =>
          \A s \in {entry[x].pending, entry[x].inFlight} \ {None} : Proper(x, s)
    BY <1>0 DEF Carried
  <2>2. UNCHANGED <<entry, heard>>
    BY <1>4, <1>8
  <2> QED
    BY <1>4, <1>5, <1>6, <1>8, <2>1, <2>2, EntryStep
<1> QED
  BY <1>7, <1>8

\* A lookup fails, or an entry that nobody uses is dropped.
LEMMA DropInv ==
    ASSUME IInv, \/ \E v \in validating : ValidateFails(v)
                 \/ \E x \in Target : Cleanup(x)
    PROVE  IInv'
<1> USE CacheAssumption
<1>0. TypeOK /\ Carried /\ Followed
  BY DEF IInv
<1>1. /\ entry \in [Target -> CacheEntry \union {NoEntry}] /\ row \in [Target -> RowType]
      /\ heard \in [Machine -> HeardType] /\ Machine \subseteq Target
  BY <1>0, Types DEF Target
<1>2. CASE \E v \in validating : ValidateFails(v)
  <2>1. PICK v \in validating : ValidateFails(v)
    BY <1>2
  <2>2. /\ phase # "down" /\ validating' = validating \ {v} /\ budget.faults > 0
        /\ budget' = [budget EXCEPT !.faults = @ - 1]
        /\ UNCHANGED <<now, row, entry, flush, phase, sweep, heard>>
    BY <2>1 DEF ValidateFails, Fault
  <2>3. PICK x \in Target : x = v.target
    BY <1>0, Types
  <2>4. budget' \in [beats : [Target -> Nat], events : [Target -> Nat], faults : Nat]
    <3>1. budget \in [beats : [Target -> Nat], events : [Target -> Nat], faults : Nat]
      BY <1>0 DEF TypeOK
    <3> QED
      BY <2>2, <3>1
  <2>5. /\ validating' \subseteq [target : Target, update : Update, at : Nat]
        /\ \A z \in validating' : Proper(z.target, z.update)
        /\ entry[x] # NoEntry =>
             \A s \in {entry[x].pending, entry[x].inFlight} \ {None} : Proper(x, s)
    BY <1>0, <2>2 DEF TypeOK, Carried
  <2>6. x \in Machine /\ row[x].exists /\ heard[x].ordered =>
          Ordered(entry[x], row[x], heard[x]) /\ Kept(entry[x], row[x], heard[x])
    BY <1>0 DEF Followed
  <2> QED
    BY <1>1, <2>2, <2>4, <2>5, <2>6, EntryStep
<1>3. CASE \E x \in Target : Cleanup(x)
  <2>1. PICK x \in Target : Cleanup(x)
    BY <1>3
  <2>2. /\ phase # "down" /\ entry[x] # NoEntry
        /\ entry[x].pending = None /\ entry[x].inFlight = None
        /\ entry' = [entry EXCEPT ![x] = NoEntry]
        /\ UNCHANGED <<now, row, validating, flush, phase, sweep, heard, budget>>
    BY <2>1 DEF Cleanup
  <2>3. /\ entry' \in [Target -> CacheEntry \union {NoEntry}] /\ entry'[x] = NoEntry
        /\ \A y \in Target \ {x} : entry'[y] = entry[y]
    BY <1>1, <2>2
  <2>4. ASSUME x \in Machine, row[x].exists, heard[x].ordered
        PROVE  Ordered(NoEntry, row[x], heard[x]) /\ Kept(NoEntry, row[x], heard[x])
    <3>1. Kept(entry[x], row[x], heard[x])
      BY <1>0, <2>4 DEF Followed
    <3>2. /\ SlotTime(entry[x].pending, None) = -1 /\ SlotTime(entry[x].inFlight, None) = -1
          /\ Larger(-1, -1) = -1
      BY <2>2 DEF SlotTime, Larger
    <3>3. heard[x].t \in Nat /\ row[x].lastActiveAt \in Nat /\ Threshold \in Nat
      BY <1>1, <2>4 DEF HeardType, RowType
    <3>4. heard[x].t - row[x].lastActiveAt <= Threshold
      BY <3>1, <3>2, <3>3 DEF Kept
    <3> QED
      BY <3>4 DEF Ordered, Kept
  <2>5. /\ validating' \subseteq [target : Target, update : Update, at : Nat]
        /\ \A z \in validating' : Proper(z.target, z.update)
        /\ budget' \in [beats : [Target -> Nat], events : [Target -> Nat], faults : Nat]
    BY <1>0, <2>2 DEF TypeOK, Carried
  <2> QED
    BY <1>1, <2>2, <2>3, <2>4, <2>5, EntryStep
<1> QED
  BY <1>2, <1>3

\* The entry of a target whose update is taken, and the write of it.
Took(e) == [e EXCEPT !.pending = None, !.inFlight = e.pending]
Sent(x, u) == [target |-> x, update |-> u, at |-> "sent"]

LEMMA TookFields ==
    ASSUME NEW e \in CacheEntry, e.pending # None
    PROVE  /\ Took(e) \in CacheEntry /\ Took(e).pending = None /\ Took(e).inFlight = e.pending
           /\ Took(e).lastUpdateSent = e.lastUpdateSent
           /\ e.pending \in Update
BY DEF Took, CacheEntry, Slot

LEMMA SentFields ==
    ASSUME NEW x \in Target, NEW u \in Update
    PROVE  /\ Sent(x, u) \in Write /\ Sent(x, u).target = x /\ Sent(x, u).update = u
           /\ Sent(x, u).at = "sent"
BY DEF Sent, Write

\* A turn of the flush takes everything that is pending.
LEMMA TurnFacts ==
    ASSUME IInv, Turn, flush.writes = {}, phase # "down",
           UNCHANGED <<now, row, validating, sweep, heard, budget>>
    PROVE  /\ phase' \in {"up", "stopping", "down"} => TypeOK'
           /\ Carried' /\ UnderWay' /\ Followed'
           /\ \A x \in Target : entry'[x] # NoEntry => entry'[x].pending = None
           /\ ~flush'.running => \A x \in Target : entry'[x] # NoEntry => entry'[x].inFlight = None
<1> USE CacheAssumption
<1>0. TypeOK /\ Carried /\ UnderWay /\ Followed
  BY DEF IInv
<1>1. /\ entry \in [Target -> CacheEntry \union {NoEntry}] /\ flush \in FlushType
      /\ heard \in [Machine -> HeardType] /\ Machine \subseteq Target
  BY <1>0, Types DEF Target
<1>2. \A x \in Target : entry[x] # NoEntry => entry[x].inFlight = None
  BY <1>0 DEF UnderWay
<1>3. \A x : x \in Takeable <=> x \in Target /\ entry[x] # NoEntry /\ entry[x].pending # None
  BY <1>2 DEF Takeable
<1>4. \A x \in Takeable : entry[x] \in CacheEntry /\ entry[x].pending # None
  BY <1>1, <1>3
<1>5. entry' = [x \in Target |-> IF x \in Takeable THEN Took(entry[x]) ELSE entry[x]]
  BY Zenon DEF Turn, Took
<1>6. ASSUME NEW x \in Takeable
      PROVE  /\ entry'[x] \in CacheEntry /\ entry'[x].pending = None
             /\ entry'[x].inFlight = entry[x].pending
             /\ entry'[x].lastUpdateSent = entry[x].lastUpdateSent
             /\ entry[x].pending \in Update
  <2>1. entry'[x] = Took(entry[x])
    BY <1>3, <1>5
  <2> QED
    BY <1>4, <2>1, TookFields
<1>7. ASSUME NEW x \in Target \ Takeable
      PROVE  entry'[x] = entry[x] /\ (entry[x] # NoEntry => entry[x].pending = None)
  <2>1. entry'[x] = entry[x]
    BY <1>5
  <2> QED
    BY <1>3, <2>1
<1>8. entry' \in [Target -> CacheEntry \union {NoEntry}]
  <2>1. \A x \in Target : entry'[x] \in CacheEntry \union {NoEntry}
    BY <1>1, <1>6, <1>7
  <2>2. PICK g : g = entry'
    OBVIOUS
  <2>3. g = [x \in Target |-> g[x]]
    BY <1>5, <2>2
  <2> QED
    BY <2>1, <2>2, <2>3
<1>9. \A x \in Target : entry'[x] # NoEntry => entry'[x].pending = None
  BY <1>6, <1>7
<1>10. PICK W : W = {Sent(x, entry[x].pending) : x \in Takeable}
  OBVIOUS
<1>11. /\ \A w \in W : \E x \in Takeable : w = Sent(x, entry[x].pending)
       /\ \A x \in Takeable : Sent(x, entry[x].pending) \in W
  BY <1>10, Zenon
<1>12. ASSUME NEW w \in W
       PROVE  /\ w \in Write /\ w.target \in Takeable /\ w.update = entry[w.target].pending
              /\ w.at = "sent"
              /\ w = Sent(w.target, entry[w.target].pending)
  <2>1. PICK x \in Takeable : w = Sent(x, entry[x].pending)
    BY <1>11
  <2>2. x \in Target /\ entry[x].pending \in Update
    BY <1>3, <1>6
  <2>3. /\ Sent(x, entry[x].pending) \in Write /\ Sent(x, entry[x].pending).target = x
        /\ Sent(x, entry[x].pending).update = entry[x].pending
        /\ Sent(x, entry[x].pending).at = "sent"
    BY <2>2, SentFields
  <2> QED
    BY <2>1, <2>3
<1>13. \A v, w \in W : v.target = w.target => v = w
  BY <1>12, Zenon
<1>14. PICK a \in BOOLEAN : a = (Takeable # {})
  OBVIOUS
<1>15. PICK z \in BOOLEAN : z = FALSE
  OBVIOUS
<1>16. flush' = [running |-> a, again |-> z, failed |-> z, writes |-> W]
  BY <1>10, <1>14, <1>15, Zenon DEF Turn, Sent
<1>17. /\ flush' \in FlushType /\ flush'.writes = W /\ flush'.running = a
  <2>1. W \in SUBSET Write
    BY <1>12
  <2> QED
    BY <1>1, <1>16, <2>1, FlushFields, Zenon
<1>18. phase' \in {"up", "stopping", "down"} => TypeOK'
  BY <1>0, <1>8, <1>13, <1>17 DEF TypeOK, FlushType
<1>19. Carried'
  <2>1. ASSUME NEW x \in Target, entry'[x] # NoEntry,
               NEW u \in {entry'[x].pending, entry'[x].inFlight} \ {None}
        PROVE  Proper(x, u)
    <3>1. CASE x \in Takeable
      BY <1>0, <1>3, <1>6, <2>1, <3>1 DEF Carried
    <3>2. CASE x \notin Takeable
      BY <1>0, <1>7, <2>1, <3>2 DEF Carried
    <3> QED
      BY <3>1, <3>2
  <2> QED
    BY <1>0, <2>1 DEF Carried, Proper
<1>20. UnderWay'
  <2>1. ASSUME NEW w \in W
        PROVE  /\ entry'[w.target] # NoEntry /\ entry'[w.target].inFlight = w.update
               /\ w.at # "missing"
    BY <1>6, <1>12 DEF NoEntry
  <2>2. ASSUME NEW x \in Target, entry'[x] # NoEntry, entry'[x].inFlight # None
        PROVE  \E w \in W : w.target = x
    <3>1. x \in Takeable
      BY <1>2, <1>7, <2>2
    <3>2. Sent(x, entry[x].pending) \in W
      BY <1>11, <3>1
    <3>3. Sent(x, entry[x].pending).target = x
      BY <1>6, <3>1, SentFields
    <3> QED
      BY <3>2, <3>3
  <2>3. W # {} => a
    BY <1>12, <1>14
  <2> QED
    BY <1>17, <2>1, <2>2, <2>3 DEF UnderWay
<1>21. Followed'
  <2>1. ASSUME NEW x \in Machine, row[x].exists, heard[x].ordered
        PROVE  /\ Ordered(entry'[x], row[x], heard[x])
               /\ Kept(entry'[x], row[x], heard[x])
               /\ \A w \in W : w.at # "applied"
    <3>1. Ordered(entry[x], row[x], heard[x]) /\ Kept(entry[x], row[x], heard[x])
      BY <1>0, <2>1 DEF Followed
    <3>2. CASE x \in Takeable
      <4>1. /\ entry[x] # NoEntry /\ entry'[x] # NoEntry /\ entry[x].inFlight = None
            /\ entry'[x].inFlight = entry[x].pending /\ entry'[x].pending = None
            /\ entry'[x].lastUpdateSent = entry[x].lastUpdateSent
        BY <1>1, <1>2, <1>3, <1>6, <3>2 DEF NoEntry
      <4>2. Ordered(entry'[x], row[x], heard[x])
        BY <3>1, <4>1 DEF Ordered
      <4>3. SlotTime(entry[x].pending, None) \in Int /\ SlotTime(None, None) = -1
        BY <1>6, <3>2 DEF SlotTime, Update
      <4>4. Larger(SlotTime(entry[x].pending, None), -1) = Larger(-1, SlotTime(entry[x].pending, None))
        BY <4>3 DEF Larger
      <4>5. Kept(entry'[x], row[x], heard[x])
        BY <3>1, <4>1, <4>3, <4>4 DEF Kept
      <4> QED
        BY <1>12, <4>2, <4>5
    <3>3. CASE x \notin Takeable
      BY <1>1, <1>7, <1>12, <3>1, <3>3
    <3> QED
      BY <3>2, <3>3
  <2> QED
    BY <1>17, <2>1 DEF Followed
<1>22. ~flush'.running => \A x \in Target : entry'[x] # NoEntry => entry'[x].inFlight = None
  BY <1>2, <1>7, <1>14, <1>17
<1> QED
  BY <1>9, <1>18, <1>19, <1>20, <1>21, <1>22

\* The flush is asked for, by the timer or by the shutdown.
LEMMA FlushInv ==
    ASSUME IInv, phase = "up", FlushPendingUpdates,
           UNCHANGED <<now, row, validating, sweep, heard, budget>>,
           \/ phase' = phase
           \/ phase' = IF flush'.running THEN "stopping" ELSE "down"
    PROVE  IInv'
<1> USE CacheAssumption
<1>0. TypeOK /\ Carried /\ UnderWay /\ Followed /\ flush \in FlushType
  BY Types DEF IInv
<1>1. phase' \in {"up", "stopping", "down"}
  OBVIOUS
<1>2. CASE flush.running
  <2>1. PICK b \in BOOLEAN : b = TRUE
    OBVIOUS
  <2>2. flush' = [flush EXCEPT !.again = b] /\ entry' = entry
    BY <1>2, <2>1, Zenon DEF FlushPendingUpdates
  <2>3. /\ flush' \in FlushType /\ flush'.running = flush.running /\ flush'.again = b
        /\ flush'.writes = flush.writes
    <3>1. PICK f \in FlushType : f = flush
      BY <1>0
    <3>3. PICK q : q = [f EXCEPT !.again = b]
      OBVIOUS
    <3>4. /\ q \in FlushType /\ q.running = f.running /\ q.again = b
          /\ q.failed = f.failed /\ q.writes = f.writes
      BY <3>3 DEF FlushType
    <3>5. flush' = q
      BY <2>2, <3>1, <3>3, Zenon
    <3> QED
      BY <3>1, <3>4, <3>5
  <2>4. TypeOK'
    BY <1>0, <1>1, <2>2, <2>3 DEF TypeOK, FlushType
  <2>5. Carried' /\ UnderWay' /\ Followed'
    BY <1>0, <2>2, <2>3 DEF Carried, Proper, UnderWay, Followed
  <2>6. Stopping' /\ ShutdownFlushes'
    BY <1>2, <2>1, <2>3 DEF Stopping, ShutdownFlushes
  <2> QED
    BY <2>4, <2>5, <2>6 DEF IInv
<1>3. CASE ~flush.running
  <2>1. Turn
    BY <1>3 DEF FlushPendingUpdates
  <2>2. flush.writes = {}
    BY <1>0, <1>3 DEF UnderWay
  <2>3. /\ phase' \in {"up", "stopping", "down"} => TypeOK'
        /\ Carried' /\ UnderWay' /\ Followed'
        /\ \A x \in Target : entry'[x] # NoEntry => entry'[x].pending = None
        /\ ~flush'.running => \A x \in Target : entry'[x] # NoEntry => entry'[x].inFlight = None
    BY <2>1, <2>2, TurnFacts
  <2>4. Stopping' /\ ShutdownFlushes'
    BY <2>3 DEF Stopping, ShutdownFlushes
  <2> QED
    BY <1>1, <2>3, <2>4 DEF IInv
<1> QED
  BY <1>2, <1>3

\* A turn is over: another one follows, or the loop ends.
LEMMA RunFlushLoopInv ==
    ASSUME IInv, RunFlushLoop
    PROVE  IInv'
<1> USE CacheAssumption
<1>0. /\ TypeOK /\ Carried /\ UnderWay /\ Followed /\ Stopping /\ ShutdownFlushes
      /\ flush \in FlushType
  BY Types DEF IInv
<1>1. /\ flush.running /\ flush.writes = {} /\ phase # "down"
      /\ phase' = IF phase = "stopping" /\ ~flush'.running THEN "down" ELSE phase
      /\ UNCHANGED <<now, row, validating, sweep, heard, budget>>
  BY DEF RunFlushLoop
<1>2. phase \in {"up", "stopping"} /\ phase' \in {"up", "stopping", "down"}
  BY <1>0, <1>1 DEF TypeOK
<1>3. CASE flush.again /\ ~flush.failed
  <2>1. Turn
    BY <1>3 DEF RunFlushLoop
  <2>2. /\ phase' \in {"up", "stopping", "down"} => TypeOK'
        /\ Carried' /\ UnderWay' /\ Followed'
        /\ \A x \in Target : entry'[x] # NoEntry => entry'[x].pending = None
        /\ ~flush'.running => \A x \in Target : entry'[x] # NoEntry => entry'[x].inFlight = None
    BY <1>1, <2>1, TurnFacts
  <2>3. Stopping' /\ ShutdownFlushes'
    BY <1>1, <1>2, <2>2 DEF Stopping, ShutdownFlushes
  <2> QED
    BY <1>2, <2>2, <2>3 DEF IInv
<1>4. CASE ~(flush.again /\ ~flush.failed)
  <2>1. PICK b \in BOOLEAN : b = FALSE
    OBVIOUS
  <2>2. flush' = [flush EXCEPT !.running = b] /\ entry' = entry
    BY <1>4, <2>1, Zenon DEF RunFlushLoop
  <2>3. /\ flush' \in FlushType /\ flush'.running = b /\ flush'.again = flush.again
        /\ flush'.failed = flush.failed /\ flush'.writes = flush.writes
    <3>1. PICK f \in FlushType : f = flush
      BY <1>0
    <3>3. PICK q : q = [f EXCEPT !.running = b]
      OBVIOUS
    <3>4. /\ q \in FlushType /\ q.running = b /\ q.again = f.again
          /\ q.failed = f.failed /\ q.writes = f.writes
      BY <3>3 DEF FlushType
    <3>5. flush' = q
      BY <2>2, <3>1, <3>3, Zenon
    <3> QED
      BY <3>1, <3>4, <3>5
  <2>4. TypeOK'
    BY <1>0, <1>1, <1>2, <2>2, <2>3 DEF TypeOK, FlushType
  <2>5. Carried' /\ Followed'
    BY <1>0, <1>1, <2>2, <2>3 DEF Carried, Proper, Followed
  <2>6. UnderWay'
    BY <1>0, <1>1, <2>2, <2>3 DEF UnderWay
  <2>7. \A x \in Target : entry[x] # NoEntry => entry[x].inFlight = None
    BY <1>0, <1>1 DEF UnderWay
  <2>8. Stopping'
    BY <1>1, <1>2, <2>1, <2>3 DEF Stopping
  <2>9. ShutdownFlushes'
    BY <1>0, <1>1, <1>2, <1>4, <2>2, <2>3, <2>7 DEF Stopping, ShutdownFlushes
  <2> QED
    BY <2>4, <2>5, <2>6, <2>8, <2>9 DEF IInv
<1> QED
  BY <1>3, <1>4

\* A step that removes the write w of x from the flush and touches the entry of
\* x only.
LEMMA AnswerStep ==
    ASSUME IInv, NEW w \in flush.writes, NEW x \in Target, x = w.target, phase # "down",
           UNCHANGED <<now, row, validating, phase, sweep, heard>>,
           budget' \in [beats : [Target -> Nat], events : [Target -> Nat], faults : Nat],
           flush' \in FlushType, flush'.running = flush.running, flush'.again = flush.again,
           flush.failed => flush'.failed, flush'.writes = flush.writes \ {w},
           entry' \in [Target -> CacheEntry \union {NoEntry}],
           \A y \in Target \ {x} : entry'[y] = entry[y],
           entry'[x] # NoEntry =>
             /\ entry'[x].inFlight = None
             /\ \/ entry'[x].pending \in {None, entry[x].pending}
                \/ entry'[x].pending = w.update /\ flush'.failed,
           x \in Machine /\ row[x].exists /\ heard[x].ordered =>
             Ordered(entry'[x], row[x], heard[x]) /\ Kept(entry'[x], row[x], heard[x])
    PROVE  IInv'
<1> USE CacheAssumption
<1>0. TypeOK /\ Carried /\ UnderWay /\ Stopping /\ ShutdownFlushes /\ Followed
  BY DEF IInv
<1>1. /\ \A v \in flush.writes : v.target \in Target /\ v.update \in Update
      /\ Machine \subseteq Target
      /\ entry[x] # NoEntry /\ entry[x].inFlight = w.update
  BY <1>0, Types DEF UnderWay, Target
<1>2. \A v \in flush'.writes : v \in flush.writes /\ v.target # x
  BY <1>0 DEF TypeOK
<1>3. TypeOK'
  <2>1. flush'.writes \subseteq flush.writes
    OBVIOUS
  <2> QED
    BY <1>0, <2>1 DEF TypeOK, FlushType
<1>4. Carried'
  <2>1. ASSUME NEW y \in Target, entry'[y] # NoEntry,
               NEW u \in {entry'[y].pending, entry'[y].inFlight} \ {None}
        PROVE  Proper(y, u)
    <3>1. CASE y = x
      <4>1. u \in {entry[x].pending, entry[x].inFlight} \ {None}
        BY <1>1, <2>1, <3>1
      <4> QED
        BY <1>0, <1>1, <3>1, <4>1 DEF Carried
    <3>2. CASE y # x
      BY <1>0, <2>1, <3>2 DEF Carried
    <3> QED
      BY <3>1, <3>2
  <2> QED
    BY <1>0, <2>1 DEF Carried, Proper
<1>5. UnderWay'
  <2>1. ASSUME NEW v \in flush'.writes
        PROVE  /\ entry'[v.target] # NoEntry /\ entry'[v.target].inFlight = v.update
               /\ v.at = "missing" => v.target \in Machine /\ ~row'[v.target].exists
    <3>1. v \in flush.writes /\ v.target \in Target \ {x}
      BY <1>1, <1>2
    <3> QED
      BY <1>0, <3>1 DEF UnderWay
  <2>2. ASSUME NEW y \in Target, entry'[y] # NoEntry, entry'[y].inFlight # None
        PROVE  \E v \in flush'.writes : v.target = y
    <3>1. y # x /\ entry'[y] = entry[y]
      BY <2>2
    <3>2. PICK v \in flush.writes : v.target = y
      BY <1>0, <2>2, <3>1 DEF UnderWay
    <3> QED
      BY <3>1, <3>2
  <2>3. flush'.writes # {} => flush'.running
    BY <1>0 DEF UnderWay
  <2> QED
    BY <2>1, <2>2, <2>3 DEF UnderWay
<1>6. Stopping' /\ ShutdownFlushes'
  <2>1. ASSUME phase = "stopping", ~flush'.again, ~flush'.failed, NEW y \in Target,
               entry'[y] # NoEntry
        PROVE  entry'[y].pending = None
    <3>1. \A z \in Target : entry[z] # NoEntry => entry[z].pending = None
      BY <1>0, <2>1 DEF Stopping
    <3> QED
      BY <1>1, <2>1, <3>1
  <2>2. phase = "stopping" => flush'.running
    BY <1>0 DEF Stopping
  <2> QED
    BY <2>1, <2>2 DEF Stopping, ShutdownFlushes
<1>7. Followed'
  <2>1. ASSUME NEW y \in Machine, row[y].exists, heard[y].ordered
        PROVE  /\ Ordered(entry'[y], row[y], heard[y])
               /\ Kept(entry'[y], row[y], heard[y])
               /\ \A v \in flush'.writes :
                    v.target = y /\ v.at = "applied" => v.update.t <= row[y].lastActiveAt
    <3>1. CASE y = x
      BY <1>2, <2>1, <3>1
    <3>2. CASE y # x
      BY <1>0, <1>1, <1>2, <2>1, <3>2 DEF Followed
    <3> QED
      BY <3>1, <3>2
  <2> QED
    BY <2>1 DEF Followed
<1> QED
  BY <1>3, <1>4, <1>5, <1>6, <1>7 DEF IInv

\* A step that changes rows, but brings none back, and the state of writes.
LEMMA RowStep ==
    ASSUME IInv, phase # "down", UNCHANGED <<now, entry, validating, phase>>,
           row' \in [Target -> RowType], flush' \in FlushType, sweep' \subseteq Machine,
           heard' \in [Machine -> HeardType],
           budget' \in [beats : [Target -> Nat], events : [Target -> Nat], faults : Nat],
           \A x \in Target : /\ row'[x].exists => row[x].exists
                             /\ row'[x].lastActiveAt <= now,
           flush'.running = flush.running, flush'.again = flush.again,
           flush'.failed = flush.failed,
           \A v, w \in flush'.writes : v.target = w.target => v = w,
           \A w \in flush'.writes : \E v \in flush.writes :
             /\ v.target = w.target /\ v.update = w.update
             /\ \/ w.at = v.at \/ w.at # "missing"
                \/ w.target \in Machine /\ ~row[w.target].exists,
           \A v \in flush.writes : \E w \in flush'.writes : v.target = w.target,
           Followed'
    PROVE  IInv'
<1> USE CacheAssumption
<1>0. TypeOK /\ Carried /\ UnderWay /\ Stopping /\ ShutdownFlushes
  BY DEF IInv
<1>1. TypeOK'
  BY <1>0 DEF TypeOK, RowType, FlushType, HeardType
<1>2. Carried'
  BY <1>0 DEF Carried, Proper
<1>3. UnderWay'
  <2>1. ASSUME NEW w \in flush'.writes
        PROVE  /\ entry'[w.target] # NoEntry /\ entry'[w.target].inFlight = w.update
               /\ w.at = "missing" => w.target \in Machine /\ ~row'[w.target].exists
    <3>1. PICK v \in flush.writes :
            /\ v.target = w.target /\ v.update = w.update
            /\ \/ w.at = v.at \/ w.at # "missing"
               \/ w.target \in Machine /\ ~row[w.target].exists
      OBVIOUS
    <3>2. v.target \in Target
      BY <1>0, Types
    <3> QED
      BY <1>0, <3>1, <3>2 DEF UnderWay
  <2>2. ASSUME NEW x \in Target, entry[x] # NoEntry, entry[x].inFlight # None
        PROVE  \E w \in flush'.writes : w.target = x
    <3>1. PICK v \in flush.writes : v.target = x
      BY <1>0, <2>2 DEF UnderWay
    <3> QED
      BY <3>1
  <2>3. flush'.writes # {} => flush'.running
    BY <1>0 DEF UnderWay
  <2> QED
    BY <2>1, <2>2, <2>3 DEF UnderWay
<1>4. Stopping' /\ ShutdownFlushes'
  BY <1>0 DEF Stopping, ShutdownFlushes
<1> QED
  BY <1>1, <1>2, <1>3, <1>4 DEF IInv

\* What the answer to a write makes of an entry, and what its failure does.
LEMMA WrittenFields ==
    ASSUME NEW e \in CacheEntry, NEW u \in Update
    PROVE  LET q == Written(e, u)
           IN  /\ q \in CacheEntry /\ q.inFlight = None
               /\ q.lastUpdateSent = Larger(e.lastUpdateSent, u.t)
               /\ q.pending \in {None, e.pending}
               /\ q.pending = e.pending
                    \/ Distance(e.pending.t, Larger(e.lastUpdateSent, u.t)) <= Threshold
<1>1. PICK m : m = Larger(e.lastUpdateSent, u.t)
  OBVIOUS
<1>2. m \in Nat
  BY <1>1 DEF Larger, CacheEntry, Update
<1>3. PICK p : p = IF /\ e.pending # None /\ e.pending.inst = u.inst
                      /\ Distance(e.pending.t, m) <= Threshold
                   THEN None ELSE e.pending
  OBVIOUS
<1>4. /\ p \in Slot /\ p \in {None, e.pending}
      /\ p = e.pending \/ Distance(e.pending.t, m) <= Threshold
  BY <1>3 DEF CacheEntry, Slot
<1>5. PICK q : q = [e EXCEPT !.lastUpdateSent = m, !.inFlight = None, !.pending = p]
  OBVIOUS
<1>6. q \in CacheEntry /\ q.inFlight = None /\ q.lastUpdateSent = m /\ q.pending = p
  BY <1>2, <1>4, <1>5 DEF CacheEntry, Slot
<1>7. Written(e, u) = q
  BY <1>1, <1>3, <1>5 DEF Written
<1> QED
  BY <1>1, <1>4, <1>6, <1>7

LEMMA RequeueFields ==
    ASSUME NEW e \in CacheEntry, NEW u \in Update
    PROVE  LET q == RequeueFailedUpdate(e, u)
           IN  /\ q \in CacheEntry /\ q.inFlight = None
               /\ q.lastUpdateSent = e.lastUpdateSent
               /\ q.pending = IF e.pending = None THEN u ELSE e.pending
<1>1. PICK p : p = IF e.pending = None THEN u ELSE e.pending
  OBVIOUS
<1>2. p \in Slot
  BY <1>1 DEF CacheEntry, Slot
<1>3. PICK q : q = [e EXCEPT !.inFlight = None, !.pending = p]
  OBVIOUS
<1>4. q \in CacheEntry /\ q.inFlight = None /\ q.lastUpdateSent = e.lastUpdateSent /\ q.pending = p
  BY <1>2, <1>3 DEF CacheEntry, Slot
<1>5. RequeueFailedUpdate(e, u) = q
  BY <1>1, <1>3 DEF RequeueFailedUpdate
<1> QED
  BY <1>1, <1>4, <1>5

\* An entry in order stays so when its write is in the row and answered: a
\* queued update is too far ahead to be redundant.
LEMMA WrittenFollows ==
    ASSUME NEW e \in CacheEntry, NEW u \in Update, NEW r \in RowType, NEW h \in HeardType,
           e.inFlight = u, u.inst = None, e.pending # None => e.pending.inst = None,
           Ordered(e, r, h), Kept(e, r, h), u.t <= r.lastActiveAt
    PROVE  Ordered(Written(e, u), r, h) /\ Kept(Written(e, u), r, h)
<1> USE CacheAssumption
<1>1. PICK q : q = Written(e, u)
  OBVIOUS
<1>2. /\ q \in CacheEntry /\ q.inFlight = None /\ q.pending \in {None, e.pending}
      /\ q.lastUpdateSent = Larger(e.lastUpdateSent, u.t)
      /\ q.pending = e.pending
           \/ Distance(e.pending.t, Larger(e.lastUpdateSent, u.t)) <= Threshold
  BY <1>1, WrittenFields
<1>3. PICK L : L = r.lastActiveAt
  OBVIOUS
<1>4. /\ L \in Nat /\ u.t \in Nat /\ h.t \in Nat /\ Threshold \in Nat /\ e.lastUpdateSent \in Nat
      /\ e # NoEntry /\ q # NoEntry /\ u # None
      /\ e.pending # None => e.pending.t \in Nat
  BY <1>2, <1>3 DEF CacheEntry, RowType, HeardType, Update, NoEntry, Slot
<1>5. /\ u.t = L /\ u.t <= h.t /\ e.lastUpdateSent <= L
      /\ e.pending # None => L <= e.pending.t /\ e.pending.t <= h.t /\ e.pending.t > L + Threshold
  BY <1>3, <1>4 DEF Ordered
<1>6. q.lastUpdateSent = L
  BY <1>2, <1>4, <1>5 DEF Larger
<1>7. q.pending = e.pending
  <2>1. CASE e.pending = None
    BY <1>2, <2>1
  <2>2. CASE e.pending # None
    <3>1. Distance(e.pending.t, L) > Threshold
      BY <1>4, <1>5, <2>2 DEF Distance
    <3>2. Distance(e.pending.t, L) \in Int
      BY <1>4, <2>2 DEF Distance
    <3> QED
      BY <1>2, <1>4, <1>6, <3>1, <3>2
  <2> QED
    BY <2>1, <2>2
<1>8. Ordered(q, r, h)
  BY <1>2, <1>3, <1>4, <1>5, <1>6, <1>7 DEF Ordered
<1>9. Kept(q, r, h)
  <2>1. PICK P : P = SlotTime(e.pending, None)
    OBVIOUS
  <2>2. /\ e.pending = None => P = -1
        /\ e.pending # None => P = e.pending.t
        /\ SlotTime(e.inFlight, None) = L
        /\ SlotTime(q.pending, None) = P /\ SlotTime(q.inFlight, None) = -1
    BY <1>2, <1>4, <1>5, <1>7, <2>1 DEF SlotTime
  <2>3. h.t - L <= Threshold \/ h.t - Larger(P, L) <= Threshold
    BY <1>3, <2>1, <2>2 DEF Kept
  <2>4. h.t - L <= Threshold \/ h.t - Larger(P, -1) <= Threshold
    BY <1>4, <1>5, <2>2, <2>3 DEF Larger
  <2> QED
    BY <1>3, <1>4, <2>2, <2>4 DEF Kept
<1> QED
  BY <1>1, <1>8, <1>9

\* ... and when its write fails: the update is queued again, unless a newer one is.
LEMMA RequeueFollows ==
    ASSUME NEW e \in CacheEntry, NEW u \in Update, NEW r \in RowType, NEW h \in HeardType,
           e.inFlight = u, u.inst = None, e.pending # None => e.pending.inst = None,
           Ordered(e, r, h), Kept(e, r, h)
    PROVE  Ordered(RequeueFailedUpdate(e, u), r, h) /\ Kept(RequeueFailedUpdate(e, u), r, h)
<1> USE CacheAssumption
<1>1. PICK q : q = RequeueFailedUpdate(e, u)
  OBVIOUS
<1>2. /\ q \in CacheEntry /\ q.inFlight = None /\ q.lastUpdateSent = e.lastUpdateSent
      /\ q.pending = IF e.pending = None THEN u ELSE e.pending
  BY <1>1, RequeueFields
<1>3. /\ r.lastActiveAt \in Nat /\ u.t \in Nat /\ h.t \in Nat /\ Threshold \in Nat
      /\ e # NoEntry /\ q # NoEntry /\ u # None
      /\ e.pending # None => e.pending.t \in Nat
  BY <1>2 DEF CacheEntry, RowType, HeardType, Update, NoEntry, Slot
<1>4. Ordered(q, r, h)
  BY <1>2, <1>3 DEF Ordered
<1>5. Kept(q, r, h)
  <2>1. PICK P : P = SlotTime(e.pending, None)
    OBVIOUS
  <2>2. /\ e.pending = None => P = -1
        /\ e.pending # None => P = e.pending.t /\ P > u.t + Threshold
        /\ SlotTime(e.inFlight, None) = u.t /\ SlotTime(q.inFlight, None) = -1
        /\ SlotTime(q.pending, None) = IF e.pending = None THEN u.t ELSE P
    BY <1>2, <1>3, <2>1 DEF SlotTime, Ordered
  <2>3. h.t - r.lastActiveAt <= Threshold \/ h.t - Larger(P, u.t) <= Threshold
    BY <2>1, <2>2 DEF Kept
  <2>4. \/ h.t - r.lastActiveAt <= Threshold
        \/ h.t - Larger(SlotTime(q.pending, None), -1) <= Threshold
    BY <1>3, <2>2, <2>3 DEF Larger
  <2> QED
    BY <1>3, <2>2, <2>4 DEF Kept
<1> QED
  BY <1>1, <1>4, <1>5

\* What is known of the target and the update of a write.
LEMMA WriteFacts ==
    ASSUME IInv, NEW w \in flush.writes
    PROVE  /\ w \in Write /\ w.target \in Target /\ w.update \in Update /\ w.update # None
           /\ entry[w.target] \in CacheEntry /\ entry[w.target] # NoEntry
           /\ entry[w.target].inFlight = w.update
           /\ w.update.t \in Nat /\ w.update.t <= now
           /\ w.target \in Machine =>
                /\ w.update.inst = None
                /\ entry[w.target].pending # None => entry[w.target].pending.inst = None
<1> USE CacheAssumption
<1>0. TypeOK /\ Carried /\ UnderWay
  BY DEF IInv
<1>1. /\ w \in Write /\ w.target \in Target /\ w.update \in Update /\ w.update # None
      /\ w.update.t \in Nat
  BY <1>0, Types DEF Update
<1>2. PICK x \in Target : x = w.target
  BY <1>1
<1>3. entry[x] # NoEntry /\ entry[x].inFlight = w.update
  BY <1>0, <1>2 DEF UnderWay
<1>4. entry[x] \in CacheEntry
  BY <1>0, <1>3, Types
<1>5. \A u \in {entry[x].pending, entry[x].inFlight} \ {None} : Proper(x, u)
  BY <1>0, <1>3 DEF Carried
<1>6. w.update.t <= now /\ (x \in Machine => w.update.inst = None)
  BY <1>1, <1>3, <1>5 DEF Proper
<1>7. x \in Machine /\ entry[x].pending # None => entry[x].pending.inst = None
  BY <1>5 DEF Proper
<1> QED
  BY <1>1, <1>2, <1>3, <1>4, <1>6, <1>7

\* The answer to a write arrives.
LEMMA PersistedInv ==
    ASSUME IInv, NEW w \in flush.writes, Persisted(w)
    PROVE  IInv'
<1> USE CacheAssumption
<1>0. TypeOK /\ Carried /\ UnderWay /\ Followed
  BY DEF IInv
<1>1. /\ w.at # "sent" /\ phase # "down"
      /\ flush' = [flush EXCEPT !.writes = @ \ {w}]
      /\ UNCHANGED <<now, row, validating, phase, sweep, heard, budget>>
  BY DEF Persisted
<1>2. PICK x \in Target : x = w.target
  BY WriteFacts
<1>3. PICK e \in CacheEntry : e = entry[x]
  BY <1>2, WriteFacts
<1>4. PICK u \in Update : u = w.update
  BY WriteFacts
<1>5. PICK q : q = IF w.at = "missing" THEN NoEntry ELSE Written(e, u)
  OBVIOUS
<1>6. entry' = [entry EXCEPT ![x] = q]
  BY <1>2, <1>3, <1>4, <1>5 DEF Persisted
<1>7. /\ q \in CacheEntry \union {NoEntry}
      /\ q # NoEntry => q.inFlight = None /\ q.pending \in {None, e.pending}
  BY <1>5, WrittenFields
<1>8. entry \in [Target -> CacheEntry \union {NoEntry}]
  BY <1>0, Types
<1>9. /\ entry' \in [Target -> CacheEntry \union {NoEntry}] /\ entry'[x] = q
      /\ \A y \in Target \ {x} : entry'[y] = entry[y]
  BY <1>6, <1>7, <1>8
<1>10. /\ flush' \in FlushType /\ flush'.running = flush.running /\ flush'.again = flush.again
       /\ flush'.failed = flush.failed /\ flush'.writes = flush.writes \ {w}
  <2>1. PICK f \in FlushType : f = flush
    BY <1>0, Types
  <2>2. PICK W \in SUBSET Write : W = flush.writes \ {w}
    BY <1>0, Types
  <2>3. PICK g : g = [f EXCEPT !.writes = W]
    OBVIOUS
  <2>4. g \in FlushType /\ g.running = f.running /\ g.again = f.again /\ g.failed = f.failed
        /\ g.writes = W
    BY <2>3 DEF FlushType
  <2>5. flush' = g
    BY <1>1, <2>1, <2>2, <2>3
  <2> QED
    BY <2>1, <2>2, <2>4, <2>5
<1>11. ASSUME x \in Machine, row[x].exists, heard[x].ordered
       PROVE  Ordered(q, row[x], heard[x]) /\ Kept(q, row[x], heard[x])
  <2>1. w.at = "applied"
    <3>1. w.at # "missing"
      BY <1>0, <1>2, <1>11 DEF UnderWay
    <3> QED
      BY <1>1, <3>1, WriteFacts DEF Write
  <2>2. /\ Ordered(e, row[x], heard[x]) /\ Kept(e, row[x], heard[x])
        /\ u.t <= row[x].lastActiveAt
    BY <1>0, <1>2, <1>3, <1>4, <1>11, <2>1 DEF Followed
  <2>3. /\ e.inFlight = u /\ u.inst = None /\ (e.pending # None => e.pending.inst = None)
    BY <1>2, <1>3, <1>4, <1>11, WriteFacts
  <2>4. q = Written(e, u)
    BY <1>5, <2>1
  <2>5. PICK r \in RowType : r = row[x]
    BY <1>0, Types
  <2>6. PICK h \in HeardType : h = heard[x]
    BY <1>0, <1>11, Types
  <2> QED
    BY <2>2, <2>3, <2>4, <2>5, <2>6, WrittenFollows
<1>12. budget' \in [beats : [Target -> Nat], events : [Target -> Nat], faults : Nat]
  BY <1>0, <1>1 DEF TypeOK
<1> QED
  BY <1>1, <1>2, <1>3, <1>7, <1>9, <1>10, <1>11, <1>12, AnswerStep

\* A write fails, before or after the database executed it.
LEMMA PersistFailsInv ==
    ASSUME IInv, NEW w \in flush.writes, PersistFails(w)
    PROVE  IInv'
<1> USE CacheAssumption
<1>0. TypeOK /\ Carried /\ UnderWay /\ Followed
  BY DEF IInv
<1>1. /\ phase # "down" /\ budget.faults > 0
      /\ budget' = [budget EXCEPT !.faults = @ - 1]
      /\ UNCHANGED <<now, row, validating, phase, sweep, heard>>
  BY DEF PersistFails, Fault
<1>2. PICK x \in Target : x = w.target
  BY WriteFacts
<1>3. PICK e \in CacheEntry : e = entry[x]
  BY <1>2, WriteFacts
<1>4. PICK u \in Update : u = w.update
  BY WriteFacts
<1>5. PICK q : q = RequeueFailedUpdate(e, u)
  OBVIOUS
<1>6. entry' = [entry EXCEPT ![x] = q]
  BY <1>2, <1>3, <1>4, <1>5 DEF PersistFails
<1>7. q \in CacheEntry /\ q.inFlight = None /\ q.pending \in {u, e.pending}
  BY <1>5, RequeueFields
<1>8. entry \in [Target -> CacheEntry \union {NoEntry}]
  BY <1>0, Types
<1>9. /\ entry' \in [Target -> CacheEntry \union {NoEntry}] /\ entry'[x] = q
      /\ \A y \in Target \ {x} : entry'[y] = entry[y]
  BY <1>6, <1>7, <1>8
<1>10. /\ flush' \in FlushType /\ flush'.running = flush.running /\ flush'.again = flush.again
       /\ flush'.failed /\ flush'.writes = flush.writes \ {w}
  <2>1. PICK f \in FlushType : f = flush
    BY <1>0, Types
  <2>2. PICK W \in SUBSET Write : W = flush.writes \ {w}
    BY <1>0, Types
  <2>3. PICK b \in BOOLEAN : b = TRUE
    OBVIOUS
  <2>4. PICK g : g = [f EXCEPT !.writes = W, !.failed = b]
    OBVIOUS
  <2>5. g \in FlushType /\ g.running = f.running /\ g.again = f.again /\ g.failed = b
        /\ g.writes = W
    BY <2>4 DEF FlushType
  <2>6. flush' = [flush EXCEPT !.writes = flush.writes \ {w}, !.failed = TRUE]
    BY Zenon DEF PersistFails
  <2>7. flush' = g
    BY <2>1, <2>2, <2>3, <2>4, <2>6, Zenon
  <2> QED
    BY <2>1, <2>2, <2>3, <2>5, <2>7
<1>11. ASSUME x \in Machine, row[x].exists, heard[x].ordered
       PROVE  Ordered(q, row[x], heard[x]) /\ Kept(q, row[x], heard[x])
  <2>1. Ordered(e, row[x], heard[x]) /\ Kept(e, row[x], heard[x])
    BY <1>0, <1>3, <1>11 DEF Followed
  <2>2. /\ e.inFlight = u /\ u.inst = None /\ (e.pending # None => e.pending.inst = None)
    BY <1>2, <1>3, <1>4, <1>11, WriteFacts
  <2>3. PICK r \in RowType : r = row[x]
    BY <1>0, Types
  <2>4. PICK h \in HeardType : h = heard[x]
    BY <1>0, <1>11, Types
  <2> QED
    BY <1>5, <2>1, <2>2, <2>3, <2>4, RequeueFollows
<1>12. budget' \in [beats : [Target -> Nat], events : [Target -> Nat], faults : Nat]
  <2>1. budget \in [beats : [Target -> Nat], events : [Target -> Nat], faults : Nat]
    BY <1>0 DEF TypeOK
  <2> QED
    BY <1>1, <2>1
<1> QED
  BY <1>1, <1>2, <1>3, <1>4, <1>7, <1>9, <1>10, <1>11, <1>12, AnswerStep

\* An entry in order stays so when its write reaches the row.
LEMMA AppliedFollows ==
    ASSUME NEW e \in CacheEntry, NEW u \in Update, NEW r \in RowType, NEW s \in RowType,
           NEW h \in HeardType, e.inFlight = u, s.lastActiveAt = u.t,
           Ordered(e, r, h), Kept(e, r, h)
    PROVE  Ordered(e, s, h) /\ Kept(e, s, h)
<1> USE CacheAssumption
<1>1. /\ r.lastActiveAt \in Nat /\ u.t \in Nat /\ h.t \in Nat /\ Threshold \in Nat
      /\ e # NoEntry /\ u # None /\ e.lastUpdateSent \in Nat
      /\ e.pending # None => e.pending.t \in Nat
  BY DEF CacheEntry, RowType, HeardType, Update, NoEntry, Slot
<1>2. /\ e.lastUpdateSent <= r.lastActiveAt /\ r.lastActiveAt <= u.t /\ u.t <= h.t
      /\ e.pending # None => e.pending.t <= h.t /\ e.pending.t > u.t + Threshold
  BY <1>1 DEF Ordered
<1>3. Ordered(e, s, h)
  BY <1>1, <1>2 DEF Ordered
<1>4. h.t - r.lastActiveAt <= Threshold => h.t - s.lastActiveAt <= Threshold
  BY <1>1, <1>2
<1>5. Kept(e, s, h)
  BY <1>4 DEF Kept
<1> QED
  BY <1>3, <1>5

\* The rows that a write leaves.
LEMMA AppliedRow ==
    ASSUME IInv, NEW w \in flush.writes, PersistUpdate(w)
    PROVE  /\ row' \in [Target -> RowType]
           /\ \A y \in Target \ {w.target} : row'[y] = row[y]
           /\ row'[w.target].exists = row[w.target].exists
           /\ row'[w.target].inst = row[w.target].inst
           /\ \/ row' = row
              \/ row'[w.target].lastActiveAt = w.update.t
           /\ w.target \in Machine /\ row[w.target].exists =>
                row'[w.target].lastActiveAt = w.update.t
           /\ w.target \in Session =>
                \/ row' = row
                \/ Matches(row[w.target], w.update)
<1> USE CacheAssumption
<1>1. PICK x \in Target : x = w.target
  BY WriteFacts
<1>2. PICK u \in Update : u = w.update
  BY WriteFacts
<1>3. row \in [Target -> RowType]
  BY Types DEF IInv
<1>4. PICK r \in RowType : r = row[x]
  BY <1>3
<1>5. PICK b \in BOOLEAN : b = TRUE
  OBVIOUS
<1>6. PICK p : p = [r EXCEPT !.lastActiveAt = u.t]
  OBVIOUS
<1>7. PICK q : q = [r EXCEPT !.lastActiveAt = u.t, !.active = b]
  OBVIOUS
<1>8. /\ p \in RowType /\ p.lastActiveAt = u.t /\ p.exists = r.exists /\ p.inst = r.inst
      /\ q \in RowType /\ q.lastActiveAt = u.t /\ q.exists = r.exists /\ q.inst = r.inst
  BY <1>6, <1>7 DEF RowType, Update
<1>9. \/ row' = row /\ ~(x \in Machine /\ r.exists)
      \/ x \in Machine /\ row' = [row EXCEPT ![x] = p]
      \/ x \in Session /\ Matches(r, u) /\ row' = [row EXCEPT ![x] = q]
  <2>1. \/ row' = row /\ (x \in Machine => ~r.exists)
        \/ x \in Machine /\ row' = [row EXCEPT ![x].lastActiveAt = u.t]
        \/ /\ x \in Session /\ Matches(r, u)
           /\ row' = [row EXCEPT ![x].lastActiveAt = u.t, ![x].active = TRUE]
    BY <1>1, <1>2, <1>4, Zenon DEF PersistUpdate
  <2>2. [row EXCEPT ![x].lastActiveAt = u.t] = [row EXCEPT ![x] = p]
    BY <1>3, <1>4, <1>6
  <2>3. ASSUME row' = [row EXCEPT ![x].lastActiveAt = u.t, ![x].active = TRUE]
        PROVE  row' = [row EXCEPT ![x] = q]
    <3>1. row' = [row EXCEPT ![x].lastActiveAt = u.t, ![x].active = b]
      BY <1>5, <2>3, Zenon
    <3>2. row' = [row EXCEPT ![x] = q]
      BY <1>3, <1>4, <1>7, <3>1
    <3> QED
      BY <3>2
  <2> QED
    BY <2>1, <2>2, <2>3, Zenon
<1> QED
  BY <1>1, <1>2, <1>3, <1>4, <1>8, <1>9

\* The database executes a write.
LEMMA PersistUpdateInv ==
    ASSUME IInv, NEW w \in flush.writes, PersistUpdate(w)
    PROVE  IInv'
<1> USE CacheAssumption
<1>0. TypeOK /\ Carried /\ UnderWay /\ Followed
  BY DEF IInv
<1>1. PICK s \in {"missing", "applied"} :
        /\ flush' = [flush EXCEPT !.writes = (flush.writes \ {w}) \union {[w EXCEPT !.at = s]}]
        /\ s = "missing" => w.target \in Machine /\ ~row[w.target].exists
  BY Zenon DEF PersistUpdate
<1>2. phase # "down" /\ UNCHANGED <<now, entry, validating, phase, sweep, heard, budget>>
  BY DEF PersistUpdate
<1>3. PICK x \in Target : x = w.target
  BY WriteFacts
<1>4. PICK v : v = [w EXCEPT !.at = s]
  OBVIOUS
<1>5. v \in Write /\ v.target = x /\ v.update = w.update /\ v.at = s
  BY <1>3, <1>4, WriteFacts DEF Write
<1>6. PICK W \in SUBSET Write : W = (flush.writes \ {w}) \union {v}
  BY <1>0, <1>5, Types
<1>7. /\ flush' \in FlushType /\ flush'.running = flush.running /\ flush'.again = flush.again
      /\ flush'.failed = flush.failed /\ flush'.writes = W
  <2>1. PICK f \in FlushType : f = flush
    BY <1>0, Types
  <2>2. PICK g : g = [f EXCEPT !.writes = W]
    OBVIOUS
  <2>3. g \in FlushType /\ g.running = f.running /\ g.again = f.again /\ g.failed = f.failed
        /\ g.writes = W
    BY <2>2 DEF FlushType
  <2>4. flush' = g
    BY <1>1, <1>4, <1>6, <2>1, <2>2, Zenon
  <2> QED
    BY <2>1, <2>3, <2>4
<1>8. \A y \in W \ {v} : y \in flush.writes /\ y.target # x
  BY <1>0, <1>3, <1>6 DEF TypeOK
<1>9. \A y, z \in W : y.target = z.target => y = z
  BY <1>0, <1>5, <1>8 DEF TypeOK
<1>10. \A z \in W : \E y \in flush.writes :
         /\ y.target = z.target /\ y.update = z.update
         /\ \/ z.at = y.at \/ z.at # "missing"
            \/ z.target \in Machine /\ ~row[z.target].exists
  BY <1>1, <1>3, <1>5, <1>8
<1>11. \A y \in flush.writes : \E z \in W : y.target = z.target
  BY <1>3, <1>5, <1>6
<1>12. /\ row' \in [Target -> RowType]
       /\ \A y \in Target \ {x} : row'[y] = row[y]
       /\ row'[x].exists = row[x].exists
       /\ row' = row \/ row'[x].lastActiveAt = w.update.t
       /\ x \in Machine /\ row[x].exists => row'[x].lastActiveAt = w.update.t
  BY <1>3, AppliedRow
<1>13. \A y \in Target : (row'[y].exists => row[y].exists) /\ row'[y].lastActiveAt <= now
  BY <1>0, <1>12, WriteFacts DEF Carried
<1>14. Followed'
  <2>1. ASSUME NEW y \in Machine, row'[y].exists, heard[y].ordered
        PROVE  /\ Ordered(entry[y], row'[y], heard[y]) /\ Kept(entry[y], row'[y], heard[y])
               /\ \A z \in W :
                    z.target = y /\ z.at = "applied" => z.update.t <= row'[y].lastActiveAt
    <3>1. y \in Target /\ row[y].exists
      BY <1>13, <2>1 DEF Target
    <3>2. Ordered(entry[y], row[y], heard[y]) /\ Kept(entry[y], row[y], heard[y])
      BY <1>0, <2>1, <3>1 DEF Followed
    <3>3. CASE y = x
      <4>1. row'[x].lastActiveAt = w.update.t
        BY <1>12, <2>1, <3>1, <3>3
      <4>2. PICK e \in CacheEntry : e = entry[x]
        BY <1>3, WriteFacts
      <4>3. PICK u \in Update : u = w.update
        BY WriteFacts
      <4>4. PICK r \in RowType : r = row[x]
        BY <1>0, Types
      <4>5. PICK q \in RowType : q = row'[x]
        BY <1>12
      <4>6. PICK h \in HeardType : h = heard[x]
        BY <1>0, <2>1, <3>3, Types
      <4>7. e.inFlight = u
        BY <1>3, <4>2, <4>3, WriteFacts
      <4>8. Ordered(e, q, h) /\ Kept(e, q, h)
        BY <3>2, <3>3, <4>1, <4>2, <4>3, <4>4, <4>5, <4>6, <4>7, AppliedFollows
      <4>9. w.update.t <= row'[x].lastActiveAt
        BY <4>1, WriteFacts
      <4> QED
        BY <1>5, <1>8, <3>3, <4>2, <4>5, <4>6, <4>8, <4>9
    <3>4. CASE y # x
      <4>1. row'[y] = row[y]
        BY <1>12, <3>1, <3>4
      <4>2. \A z \in W : z.target = y => z \in flush.writes
        BY <1>5, <1>8, <3>4
      <4> QED
        BY <1>0, <2>1, <3>1, <3>2, <4>1, <4>2 DEF Followed
    <3> QED
      BY <3>3, <3>4
  <2> QED
    BY <1>2, <1>7, <2>1 DEF Followed
<1>15. /\ heard \in [Machine -> HeardType] /\ sweep \subseteq Machine
       /\ budget \in [beats : [Target -> Nat], events : [Target -> Nat], faults : Nat]
  BY <1>0, Types DEF TypeOK
<1> QED
  BY <1>2, <1>7, <1>9, <1>10, <1>11, <1>12, <1>13, <1>14, <1>15, RowStep

\* A step that changes the row of x only, past the cache.
LEMMA ChangeStep ==
    ASSUME IInv, NEW x \in Target, NEW r \in RowType, Change(x, r), r.lastActiveAt <= now,
           heard' \in [Machine -> HeardType], \A y \in Machine \ {x} : heard'[y] = heard[y],
           x \in Machine /\ r.exists /\ heard'[x].ordered =>
             /\ Ordered(entry[x], r, heard'[x]) /\ Kept(entry[x], r, heard'[x])
             /\ \A w \in flush.writes :
                  w.target = x /\ w.at = "applied" => w.update.t <= r.lastActiveAt
    PROVE  IInv'
<1> USE CacheAssumption
<1>0. TypeOK /\ Carried /\ Followed
  BY DEF IInv
<1>1. /\ phase # "down" /\ budget.events[x] > 0 /\ row[x].exists
      /\ budget' = [budget EXCEPT !.events[x] = @ - 1]
      /\ row' = [row EXCEPT ![x] = r]
      /\ UNCHANGED <<now, entry, validating, flush, phase, sweep>>
  BY DEF Change
<1>2. budget' \in [beats : [Target -> Nat], events : [Target -> Nat], faults : Nat]
  <2>1. budget \in [beats : [Target -> Nat], events : [Target -> Nat], faults : Nat]
    BY <1>0 DEF TypeOK
  <2> QED
    BY <1>1, <2>1
<1>3. row \in [Target -> RowType] /\ flush \in FlushType /\ sweep \subseteq Machine
  BY <1>0, Types DEF TypeOK
<1>4. /\ row' \in [Target -> RowType] /\ row'[x] = r
      /\ \A y \in Target \ {x} : row'[y] = row[y]
  BY <1>1, <1>3
<1>5. \A y \in Target : (row'[y].exists => row[y].exists) /\ row'[y].lastActiveAt <= now
  BY <1>0, <1>1, <1>4 DEF Carried
<1>6. Followed'
  <2>1. ASSUME NEW y \in Machine, row'[y].exists, heard'[y].ordered
        PROVE  /\ Ordered(entry[y], row'[y], heard'[y]) /\ Kept(entry[y], row'[y], heard'[y])
               /\ \A w \in flush.writes :
                    w.target = y /\ w.at = "applied" => w.update.t <= row'[y].lastActiveAt
    <3>1. CASE y = x
      BY <1>4, <2>1, <3>1
    <3>2. CASE y # x
      <4>1. y \in Target /\ row'[y] = row[y] /\ heard'[y] = heard[y]
        BY <1>4, <3>2 DEF Target
      <4> QED
        BY <1>0, <2>1, <4>1 DEF Followed
    <3> QED
      BY <3>1, <3>2
  <2> QED
    BY <1>1, <2>1 DEF Followed
<1>7. \A v, w \in flush.writes : v.target = w.target => v = w
  BY <1>0 DEF TypeOK
<1>8. \A w \in flush'.writes : \E v \in flush.writes :
        /\ v.target = w.target /\ v.update = w.update
        /\ \/ w.at = v.at \/ w.at # "missing"
           \/ w.target \in Machine /\ ~row[w.target].exists
  BY <1>1
<1> QED
  BY <1>1, <1>2, <1>3, <1>4, <1>5, <1>6, <1>7, <1>8, RowStep

\* machine-update-state writes the row past the cache.
LEMMA DaemonStateInv ==
    ASSUME IInv, NEW x \in Machine, DaemonState(x)
    PROVE  IInv'
<1> USE CacheAssumption
<1>0. TypeOK /\ Carried /\ UnderWay /\ Followed
  BY DEF IInv
<1>1. x \in Target
  BY DEF Target
<1>2. PICK r \in RowType : r = row[x]
  BY <1>0, <1>1, Types
<1>3. PICK b \in BOOLEAN : b = TRUE
  OBVIOUS
<1>4. PICK z \in BOOLEAN : z = FALSE
  OBVIOUS
<1>5. now \in Nat
  BY <1>0, Types
<1>6. PICK n \in Nat : n = now
  BY <1>5
<1>7. PICK q : q = [r EXCEPT !.active = b, !.lastActiveAt = n]
  OBVIOUS
<1>8. q \in RowType /\ q.lastActiveAt = n
  BY <1>7 DEF RowType
<1>9. Change(x, q) /\ row[x].exists
  <2>1. Change(x, [row[x] EXCEPT !.active = TRUE, !.lastActiveAt = now])
    BY Zenon DEF DaemonState
  <2>2. [row[x] EXCEPT !.active = TRUE, !.lastActiveAt = now] = q
    BY <1>2, <1>3, <1>6, <1>7, Zenon
  <2>3. Change(x, q)
    BY <2>1, <2>2, Zenon
  <2> QED
    BY <2>3 DEF Change
<1>10. heard \in [Machine -> HeardType]
  BY <1>0, Types
<1>11. CASE entry[x] # NoEntry /\ {entry[x].pending, entry[x].inFlight} # {None}
  <2>1. PICK h \in HeardType : h = heard[x]
    BY <1>10
  <2>2. PICK g : g = [h EXCEPT !.ordered = z]
    OBVIOUS
  <2>3. g \in HeardType /\ g.ordered = z
    BY <2>2 DEF HeardType
  <2>4. heard' = [heard EXCEPT ![x].ordered = z]
    BY <1>4, <1>11, Zenon DEF DaemonState
  <2>5. heard' = [heard EXCEPT ![x] = g]
    BY <1>10, <2>1, <2>2, <2>4
  <2>6. /\ heard' \in [Machine -> HeardType] /\ heard'[x] = g
        /\ \A y \in Machine \ {x} : heard'[y] = heard[y]
    BY <1>10, <2>3, <2>5
  <2>7. ~heard'[x].ordered
    BY <1>4, <2>3, <2>6
  <2> QED
    BY <1>1, <1>5, <1>6, <1>8, <1>9, <2>6, <2>7, ChangeStep
<1>12. CASE ~(entry[x] # NoEntry /\ {entry[x].pending, entry[x].inFlight} # {None})
  <2>1. heard' = heard
    BY <1>12, Zenon DEF DaemonState
  <2>2. entry[x] # NoEntry => entry[x].pending = None /\ entry[x].inFlight = None
    BY <1>12
  <2>3. \A w \in flush.writes : w.target # x
    BY <2>2, WriteFacts
  <2>4. ASSUME heard[x].ordered
        PROVE  Ordered(entry[x], q, heard[x]) /\ Kept(entry[x], q, heard[x])
    <3>1. Ordered(entry[x], row[x], heard[x]) /\ Kept(entry[x], row[x], heard[x])
      BY <1>0, <1>9, <2>4 DEF Followed
    <3>2. /\ heard[x].t \in Nat /\ row[x].lastActiveAt \in Nat /\ Threshold \in Nat
          /\ entry[x] # NoEntry => entry[x].lastUpdateSent \in Nat
          /\ row[x].lastActiveAt <= n
      BY <1>0, <1>1, <1>2, <1>6, <1>10, Types DEF HeardType, RowType, CacheEntry, Carried
    <3>3. Ordered(entry[x], q, heard[x])
      BY <1>8, <2>2, <3>1, <3>2 DEF Ordered
    <3>4. entry[x] # NoEntry => /\ SlotTime(entry[x].pending, None) = -1
                                /\ SlotTime(entry[x].inFlight, None) = -1
      BY <2>2 DEF SlotTime
    <3>5. Larger(-1, -1) = -1
      BY DEF Larger
    <3>6. heard[x].t - n <= Threshold
      BY <3>1, <3>2, <3>4, <3>5 DEF Kept
    <3> QED
      BY <1>8, <3>3, <3>6 DEF Kept
  <2> QED
    BY <1>1, <1>5, <1>6, <1>8, <1>9, <1>10, <2>1, <2>3, <2>4, ChangeStep
<1> QED
  BY <1>11, <1>12

\* A session is taken over or ends, or a row is deleted.
LEMMA RowChangeInv ==
    ASSUME IInv, \/ \E x \in Target : Delete(x)
                 \/ \E x \in Session : Takeover(x) \/ End(x)
    PROVE  IInv'
<1> USE CacheAssumption
<1>0. TypeOK /\ Carried
  BY DEF IInv
<1>1. /\ row \in [Target -> RowType] /\ heard \in [Machine -> HeardType] /\ now \in Nat
      /\ Session \subseteq Target
  BY <1>0, Types DEF Target
<1>2. PICK b \in BOOLEAN : b = TRUE
  OBVIOUS
<1>3. PICK z \in BOOLEAN : z = FALSE
  OBVIOUS
<1>4. PICK n \in Nat : n = now
  BY <1>1
<1>5. \A x \in Target : row[x].lastActiveAt <= now
  BY <1>0 DEF Carried
<1>6. ASSUME NEW x \in Target, Delete(x) PROVE IInv'
  <2>1. PICK r \in RowType : r = row[x]
    BY <1>1
  <2>2. PICK q : q = [r EXCEPT !.exists = z]
    OBVIOUS
  <2>3. q \in RowType /\ q.exists = z /\ q.lastActiveAt = r.lastActiveAt
    BY <2>2 DEF RowType
  <2>4. [row[x] EXCEPT !.exists = FALSE] = q
    BY <1>3, <2>1, <2>2, Zenon
  <2>5. Change(x, q) /\ heard' = heard
    BY <1>6, <2>4, Zenon DEF Delete
  <2> QED
    BY <1>1, <1>3, <1>5, <2>1, <2>3, <2>5, ChangeStep
<1>7. ASSUME NEW x \in Session, End(x) PROVE IInv'
  <2>1. PICK r \in RowType : r = row[x]
    BY <1>1
  <2>2. PICK q : q = [r EXCEPT !.active = z]
    OBVIOUS
  <2>3. q \in RowType /\ q.lastActiveAt = r.lastActiveAt
    BY <2>2 DEF RowType
  <2>4. [row[x] EXCEPT !.active = FALSE] = q
    BY <1>3, <2>1, <2>2, Zenon
  <2>5. Change(x, q) /\ heard' = heard
    BY <1>7, <2>4, Zenon DEF End
  <2> QED
    BY <1>1, <1>5, <2>1, <2>3, <2>5, ChangeStep
<1>8. ASSUME NEW x \in Session, Takeover(x) PROVE IInv'
  <2>1. PICK r \in RowType : r = row[x]
    BY <1>1
  <2>2. PICK i \in Instance :
          /\ Change(x, [row[x] EXCEPT !.inst = i, !.active = TRUE, !.lastActiveAt = now])
          /\ UNCHANGED heard
    BY <1>8, Zenon DEF Takeover
  <2>3. PICK q : q = [r EXCEPT !.inst = i, !.active = b, !.lastActiveAt = n]
    OBVIOUS
  <2>4. q \in RowType /\ q.lastActiveAt = n
    BY <2>3 DEF RowType
  <2>5. [row[x] EXCEPT !.inst = i, !.active = TRUE, !.lastActiveAt = now] = q
    BY <1>2, <1>4, <2>1, <2>3, Zenon
  <2>6. Change(x, q) /\ heard' = heard
    BY <2>2, <2>5, Zenon
  <2> QED
    BY <1>1, <1>4, <2>4, <2>6, ChangeStep
<1> QED
  BY <1>6, <1>7, <1>8

\* The sweep finds silent machines, and marks one.
LEMMA SweepInv ==
    ASSUME IInv, \/ SweepFind
                 \/ \E x \in Machine : SweepWrite(x)
    PROVE  IInv'
<1> USE CacheAssumption
<1>0. TypeOK /\ Carried /\ Followed
  BY DEF IInv
<1>1. /\ row \in [Target -> RowType] /\ heard \in [Machine -> HeardType] /\ flush \in FlushType
      /\ sweep \subseteq Machine /\ Machine \subseteq Target
      /\ \A v, w \in flush.writes : v.target = w.target => v = w
      /\ budget \in [beats : [Target -> Nat], events : [Target -> Nat], faults : Nat]
      /\ \A x \in Target : row[x].lastActiveAt <= now
  BY <1>0, Types DEF TypeOK, Target, Carried
<1>2. CASE SweepFind
  <2>1. /\ phase # "down" /\ sweep' \subseteq Machine
        /\ UNCHANGED <<now, row, entry, validating, flush, phase, heard, budget>>
    BY <1>2 DEF SweepFind
  <2>2. Followed'
    BY <1>0, <2>1 DEF Followed
  <2> QED
    BY <1>1, <2>1, <2>2, RowStep
<1>3. ASSUME NEW x \in Machine, SweepWrite(x) PROVE IInv'
  <2>1. PICK r \in RowType : r = row[x]
    BY <1>1
  <2>2. PICK z \in BOOLEAN : z = FALSE
    OBVIOUS
  <2>3. PICK q : q = [r EXCEPT !.active = z]
    OBVIOUS
  <2>4. q \in RowType /\ q.lastActiveAt = r.lastActiveAt /\ q.exists = r.exists
    BY <2>3 DEF RowType
  <2>5. /\ phase # "down" /\ sweep' = sweep \ {x}
        /\ UNCHANGED <<now, entry, validating, flush, phase, heard, budget>>
    BY <1>3 DEF SweepWrite
  <2>6. row' = row \/ row' = [row EXCEPT ![x] = q]
    <3>1. row' = row \/ row' = [row EXCEPT ![x].active = z]
      BY <1>3, <2>2, Zenon DEF SweepWrite
    <3>2. [row EXCEPT ![x].active = z] = [row EXCEPT ![x] = q]
      BY <1>1, <2>1, <2>3
    <3> QED
      BY <3>1, <3>2, Zenon
  <2>7. /\ row' \in [Target -> RowType]
        /\ \A y \in Target : /\ row'[y].exists = row[y].exists
                             /\ row'[y].lastActiveAt = row[y].lastActiveAt
    BY <1>1, <2>1, <2>4, <2>6
  <2>8. Followed'
    BY <1>0, <1>1, <2>5, <2>7 DEF Followed, Ordered, Kept
  <2> QED
    BY <1>1, <2>5, <2>7, <2>8, RowStep
<1> QED
  BY <1>2, <1>3

\* Time passes.
LEMMA TickInv ==
    ASSUME IInv, Tick
    PROVE  IInv'
<1>0. TypeOK /\ Carried /\ UnderWay /\ Stopping /\ ShutdownFlushes /\ Followed /\ now \in Nat
  BY Types DEF IInv
<1>1. now' = now + 1 /\ UNCHANGED <<row, entry, validating, flush, phase, sweep, heard, budget>>
  BY DEF Tick
<1>2. TypeOK'
  BY <1>0, <1>1 DEF TypeOK
<1>3. \A x, u : Proper(x, u) => Proper(x, u)'
  BY <1>0, <1>1 DEF Proper, Update
<1>4. Carried'
  <2>1. \A x \in Target : row[x].lastActiveAt \in Nat /\ row[x].lastActiveAt <= now
    BY <1>0, Types DEF Carried, RowType
  <2>2. \A x \in Target : row[x].lastActiveAt <= now + 1
    BY <1>0, <2>1
  <2> QED
    BY <1>0, <1>1, <1>3, <2>2 DEF Carried
<1>5. UnderWay' /\ Stopping' /\ ShutdownFlushes' /\ Followed'
  BY <1>0, <1>1 DEF UnderWay, Stopping, ShutdownFlushes, Followed
<1> QED
  BY <1>2, <1>4, <1>5 DEF IInv

LEMMA InitInv == Init => IInv
<1> SUFFICES ASSUME Init PROVE IInv
  OBVIOUS
<1> USE CacheAssumption
<1>1. PICK z \in BOOLEAN : z = FALSE
  OBVIOUS
<1>2. PICK b \in BOOLEAN : b = TRUE
  OBVIOUS
<1>3. PICK f : f = [running |-> z, again |-> z, failed |-> z, writes |-> {}]
  OBVIOUS
<1>4. PICK r : r = [exists |-> b, active |-> b, lastActiveAt |-> 0, inst |-> None]
  OBVIOUS
<1>5. PICK h : h = [t |-> 0, ordered |-> b]
  OBVIOUS
<1>6. f \in FlushType /\ f.writes = {} /\ f.running = z
  BY <1>3 DEF FlushType
<1>7. r \in RowType /\ r.lastActiveAt = 0
  BY <1>4 DEF RowType
<1>8. h \in HeardType /\ h.t = 0
  BY <1>5 DEF HeardType
<1>9. /\ row = [x \in Target |-> r] /\ flush = f /\ heard = [x \in Machine |-> h]
  BY <1>1, <1>2, <1>3, <1>4, <1>5, Zenon DEF Init
<1>10. /\ now = SweepAge /\ entry = [x \in Target |-> NoEntry] /\ validating = {}
       /\ phase = "up" /\ sweep = {} /\ budget \in Budgets
  BY DEF Init
<1>11. TypeOK
  <2>1. now \in Nat /\ budget \in [beats : [Target -> Nat], events : [Target -> Nat], faults : Nat]
    BY <1>10
  <2>2. row \in [Target -> RowType] /\ heard \in [Machine -> HeardType] /\ flush \in FlushType
    BY <1>6, <1>7, <1>8, <1>9
  <2>3. /\ entry \in [Target -> CacheEntry \union {NoEntry}]
        /\ validating \subseteq [target : Target, update : Update, at : Nat]
    BY <1>10
  <2>4. /\ \A v, w \in flush.writes : v.target = w.target => v = w
        /\ phase \in {"up", "stopping", "down"} /\ sweep \subseteq Machine
    BY <1>6, <1>9, <1>10
  <2> QED
    BY <1>10, <2>1, <2>2, <2>3, <2>4, Zenon DEF TypeOK, RowType, FlushType, HeardType
<1>12. Carried /\ UnderWay /\ Stopping /\ ShutdownFlushes
  BY <1>6, <1>7, <1>9, <1>10 DEF Carried, UnderWay, Stopping, ShutdownFlushes
<1>13. Followed
  <2>0. Machine \subseteq Target
    BY DEF Target
  <2>1. ASSUME NEW x \in Machine
        PROVE  entry[x] = NoEntry /\ row[x].lastActiveAt = 0 /\ heard[x].t = 0
    <3>1. x \in Target
      BY <2>0
    <3>2. entry[x] = NoEntry
      BY <1>10, <3>1
    <3>3. row[x] = r
      BY <1>9, <3>1
    <3>4. heard[x] = h
      BY <1>9
    <3> QED
      BY <1>7, <1>8, <3>2, <3>3, <3>4
  <2>2. flush.writes = {}
    BY <1>6, <1>9
  <2> QED
    BY <2>1, <2>2 DEF Followed, Ordered, Kept
<1> QED
  BY <1>11, <1>12, <1>13 DEF IInv

LEMMA NextInv == IInv /\ [Next]_vars => IInv'
<1> SUFFICES ASSUME IInv, [Next]_vars PROVE IInv'
  OBVIOUS
<1> USE CacheAssumption
<1>1. ASSUME NEW x \in Target, NEW d \in -Skew .. Skew, now + d >= 0,
             NEW i \in (IF x \in Machine THEN {None} ELSE Instance \union {None}),
             Heartbeat(x, now + d, i)
      PROVE  IInv'
  <2>1. PICK n \in Nat : n = now + d
    BY <1>1, Types DEF IInv
  <2>2. i \in Instance \union {None} /\ (x \in Machine => i = None)
    BY <1>1
  <2> QED
    BY <1>1, <2>1, <2>2, HeartbeatInv
<1>2. CASE UNCHANGED vars
  BY <1>2 DEF vars, IInv, TypeOK, Carried, Proper, UnderWay, Stopping, ShutdownFlushes, Followed
<1>3. ASSUME BatchTimer PROVE IInv'
  BY <1>3, FlushInv DEF BatchTimer
<1>4. ASSUME Shutdown PROVE IInv'
  BY <1>4, FlushInv DEF Shutdown
<1>5. ASSUME NEW v \in validating, Validate(v) \/ ValidateFails(v) PROVE IInv'
  BY <1>5, ValidateInv, DropInv
<1>6. ASSUME NEW x \in Target, Cleanup(x) \/ Delete(x) PROVE IInv'
  BY <1>6, DropInv, RowChangeInv
<1>7. ASSUME NEW w \in flush.writes, PersistUpdate(w) \/ Persisted(w) \/ PersistFails(w)
      PROVE  IInv'
  BY <1>7, PersistUpdateInv, PersistedInv, PersistFailsInv
<1>8. ASSUME NEW x \in Machine, DaemonState(x) \/ SweepWrite(x) PROVE IInv'
  BY <1>8, DaemonStateInv, SweepInv
<1>9. ASSUME NEW x \in Session, Takeover(x) \/ End(x) PROVE IInv'
  BY <1>9, RowChangeInv
<1>10. ASSUME RunFlushLoop \/ SweepFind \/ Tick PROVE IInv'
  BY <1>10, RunFlushLoopInv, SweepInv, TickInv
<1> QED
  BY <1>1, <1>2, <1>3, <1>4, <1>5, <1>6, <1>7, <1>8, <1>9, <1>10, Zenon DEF Next
-----------------------------------------------------------------------------
(* The theorems.                                                           *)

\* The inductive invariant holds in every reachable state: among others, an
\* entry is marked in flight exactly while the flush writes it, and a shutdown
\* that waits has another turn to come or nothing left to take.
THEOREM Invariance == Spec => []IInv
<1>1. Init => IInv
  BY InitInv
<1>2. IInv /\ [Next]_vars => IInv'
  BY NextInv
<1> QED
  BY <1>1, <1>2, PTL DEF Spec

\* No heartbeat is lost on its way to the row, whatever fails, expires or is
\* cleaned up, and shutdown leaves none behind.
THEOREM HeartbeatKeptHolds == Spec => []HeartbeatKept
<1>1. IInv => HeartbeatKept
  BY DEF IInv, HeartbeatKept, Followed, Kept
<1> QED
  BY <1>1, Invariance, PTL

\* A late flush takes no session's activity back and revives no incarnation
\* that has ended or was taken over.
THEOREM LateFlushHolds == Spec => LateFlushHarmless
<1> DEFINE Harmless ==
      \A x \in Session :
         /\ row'[x].lastActiveAt >= row[x].lastActiveAt
         /\ ~row[x].active /\ row'[x].active /\ row'[x].inst = row[x].inst =>
              \E w \in flush.writes : w.target = x /\ w.update.inst = None
<1>1. ASSUME IInv, [Next]_vars, NEW x \in Session
      PROVE  /\ row'[x].lastActiveAt >= row[x].lastActiveAt
             /\ ~row[x].active /\ row'[x].active /\ row'[x].inst = row[x].inst =>
                  \E w \in flush.writes : w.target = x /\ w.update.inst = None
  <2> USE CacheAssumption
  <2>0. /\ row \in [Target -> RowType] /\ x \in Target /\ x \notin Machine /\ now \in Nat
        /\ row[x].lastActiveAt <= now
    BY <1>1, Types DEF IInv, Target, Carried
  <2>1. PICK r \in RowType : r = row[x]
    BY <2>0
  <2>2. r.lastActiveAt \in Nat /\ r.active \in BOOLEAN
    BY DEF RowType
  <2>3. CASE row'[x] = row[x]
    BY <2>1, <2>2, <2>3
  <2>4. ASSUME NEW w \in flush.writes, PersistUpdate(w), row'[x] # row[x]
        PROVE  /\ row'[x].lastActiveAt >= r.lastActiveAt
               /\ r.active \/ (w.target = x /\ w.update.inst = None)
    <3>1. row' # row /\ w.target = x
      BY <1>1, <2>0, <2>4, AppliedRow
    <3>2. /\ row'[x].lastActiveAt = w.update.t /\ Matches(r, w.update)
          /\ w.update.t \in Nat
      BY <1>1, <2>1, <2>4, <3>1, AppliedRow, WriteFacts
    <3> QED
      BY <2>2, <3>1, <3>2 DEF Matches
  <2>5. ASSUME NEW y \in Target, NEW q, Change(y, q), row'[x] # row[x]
        PROVE  y = x /\ row'[x] = q
    BY <2>0, <2>5 DEF Change
  <2>6. PICK n \in Nat : n = now
    BY <2>0
  <2>7. PICK b \in BOOLEAN : b = TRUE
    OBVIOUS
  <2>8. PICK z \in BOOLEAN : z = FALSE
    OBVIOUS
  <2>9. ASSUME NEW y \in Session, Takeover(y), row'[x] # row[x]
        PROVE  row'[x].lastActiveAt >= r.lastActiveAt /\ row'[x].inst # r.inst
    <3>1. PICK i \in Instance \ {row[y].inst} :
            Change(y, [row[y] EXCEPT !.inst = i, !.active = TRUE, !.lastActiveAt = now])
      BY <2>9, Zenon DEF Takeover
    <3>2. y \in Target
      BY DEF Target
    <3>3. y = x /\ row'[x] = [row[y] EXCEPT !.inst = i, !.active = TRUE, !.lastActiveAt = now]
      BY <2>5, <2>9, <3>1, <3>2, Zenon
    <3>4. row'[x] = [r EXCEPT !.inst = i, !.active = b, !.lastActiveAt = n]
      BY <2>1, <2>6, <2>7, <3>3, Zenon
    <3>5. row'[x].inst = i /\ row'[x].lastActiveAt = n
      BY <3>4 DEF RowType
    <3> QED
      BY <2>0, <2>1, <2>6, <3>1, <3>3, <3>5
  <2>10. ASSUME NEW y \in Session, End(y), row'[x] # row[x]
         PROVE  row'[x].lastActiveAt = r.lastActiveAt /\ ~row'[x].active
    <3>1. Change(y, [row[y] EXCEPT !.active = FALSE])
      BY <2>10, Zenon DEF End
    <3>2. y \in Target
      BY DEF Target
    <3>3. y = x /\ row'[x] = [row[y] EXCEPT !.active = FALSE]
      BY <2>5, <2>10, <3>1, <3>2, Zenon
    <3>4. row'[x] = [r EXCEPT !.active = z]
      BY <2>1, <2>8, <3>3, Zenon
    <3> QED
      BY <2>8, <3>4 DEF RowType
  <2>11. ASSUME NEW y \in Target, Delete(y), row'[x] # row[x]
         PROVE  row'[x].lastActiveAt = r.lastActiveAt /\ row'[x].active = r.active
    <3>1. Change(y, [row[y] EXCEPT !.exists = FALSE])
      BY <2>11, Zenon DEF Delete
    <3>2. y = x /\ row'[x] = [row[y] EXCEPT !.exists = FALSE]
      BY <2>5, <2>11, <3>1, Zenon
    <3>3. row'[x] = [r EXCEPT !.exists = z]
      BY <2>1, <2>8, <3>2, Zenon
    <3> QED
      BY <3>3 DEF RowType
  <2>12. ASSUME NEW y \in Machine, DaemonState(y) \/ SweepWrite(y)
         PROVE  row'[x] = row[x]
    <3>1. y \in Target /\ y # x
      BY <2>0 DEF Target
    <3>2. ASSUME DaemonState(y) PROVE row'[x] = row[x]
      <4>1. Change(y, [row[y] EXCEPT !.active = TRUE, !.lastActiveAt = now])
        BY <3>2, Zenon DEF DaemonState
      <4> QED
        BY <2>5, <3>1, <4>1, Zenon
    <3>3. ASSUME SweepWrite(y) PROVE row'[x] = row[x]
      <4>1. row' = row \/ row' = [row EXCEPT ![y].active = z]
        BY <2>8, <3>3, Zenon DEF SweepWrite
      <4> QED
        BY <2>0, <3>1, <4>1
    <3> QED
      BY <2>12, <3>2, <3>3
  <2>13. ASSUME \/ \E y \in Target, d \in -Skew .. Skew, i \in Instance \union {None} :
                     Heartbeat(y, now + d, i)
                \/ \E v \in validating : Validate(v) \/ ValidateFails(v)
                \/ \E y \in Target : Cleanup(y)
                \/ \E w \in flush.writes : Persisted(w) \/ PersistFails(w)
                \/ BatchTimer \/ RunFlushLoop \/ Shutdown \/ SweepFind \/ Tick
                \/ UNCHANGED vars
         PROVE  row' = row
    BY <2>13, Zenon DEF Heartbeat, Validate, ValidateFails, Cleanup, Persisted, PersistFails,
       BatchTimer, RunFlushLoop, Shutdown, SweepFind, Tick, vars
  <2>14. CASE row'[x] # row[x]
    <3>1. \/ \E w \in flush.writes : PersistUpdate(w)
          \/ \E y \in Session : Takeover(y) \/ End(y)
          \/ \E y \in Target : Delete(y)
      BY <1>1, <2>12, <2>13, <2>14 DEF Next
    <3>2. CASE \E w \in flush.writes : PersistUpdate(w)
      BY <2>1, <2>4, <2>14, <3>2
    <3>3. CASE \E y \in Session : Takeover(y)
      BY <2>1, <2>9, <2>14, <3>3
    <3>4. CASE \E y \in Session : End(y)
      BY <2>1, <2>2, <2>10, <2>14, <3>4
    <3>5. CASE \E y \in Target : Delete(y)
      BY <2>1, <2>2, <2>11, <2>14, <3>5
    <3> QED
      BY <3>1, <3>2, <3>3, <3>4, <3>5
  <2> QED
    BY <2>3, <2>14
<1>2. IInv /\ [Next]_vars => [Harmless]_vars
  BY <1>1
<1> QED
  BY <1>2, Invariance, PTL DEF Spec, LateFlushHarmless
=============================================================================
