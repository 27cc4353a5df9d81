---------------------------- MODULE ActivityCache ----------------------------
(***************************************************************************)
(* Presence: heartbeats collected in memory and written in batches, and    *)
(* the sweep that turns silent machines inactive.                          *)
(*                                                                         *)
(* sources/app/presence/sessionCache.ts validates the target of a          *)
(* heartbeat against the database, remembers the newest heartbeat of each  *)
(* target and flushes them every five seconds; machineUpdateHandler.ts     *)
(* feeds it; main.ts stops it; timeout.ts sweeps.  Sessions can be queued  *)
(* too, through the same exported class; no handler does so any more.      *)
(*                                                                         *)
(* An await is a step of its own: a write is sent, executed by the         *)
(* database and answered, a lookup is sent and answered, and anything may  *)
(* happen in between.  All pending writes of a batch are under way at once *)
(* (maxFlushConcurrency is larger than the number of targets here).  An    *)
(* entry is only ever removed when nothing of it is under way, and the id  *)
(* of a machine or a session belongs to one account, so that the identity  *)
(* and account checks of the code always succeed and are left out.         *)
(*                                                                         *)
(* Definitions whose name ends in Mut are deliberate defects of the        *)
(* definition that follows them: each one breaks a property below.         *)
(***************************************************************************)
EXTENDS Integers

CONSTANTS
    Machine,        \* machines of the account
    Session,        \* sessions of the account
    Instance,       \* sessionInstanceIds
    None,           \* null
    Threshold,      \* UPDATE_THRESHOLD_MS
    CacheTtl,       \* CACHE_TTL_MS
    SweepAge,       \* the ten minutes of the sweep and of the oldest heartbeat
    Skew,           \* bound: how far a client's clock is behind or ahead
    Horizon,        \* bound: no heartbeat or other event after this time
    MaxTime,        \* bound: the clock stops here
    Budgets         \* bound: heartbeats and other changes of each row, failed queries

Target == Machine \union Session

Update == [t : Nat, inst : Instance \union {None}]
Slot == Update \union {None}

NoEntry == None
CacheEntry == [validUntil : Nat, lastUpdateSent : Nat, pending : Slot, inFlight : Slot]

ASSUME CacheAssumption ==
    /\ Machine \intersect Session = {}
    /\ None \notin Instance \union Target
    /\ None \notin Update /\ None \notin CacheEntry
    /\ {Threshold, CacheTtl, SweepAge, Skew, Horizon, MaxTime} \subseteq Nat
    /\ Budgets \subseteq [beats : [Target -> Nat], events : [Target -> Nat], faults : Nat]

VARIABLES
    now,            \* the clock
    row,            \* the presence columns of the Machine or Session row
    entry,          \* the cache entry of each target
    validating,     \* heartbeats whose target is being looked up
    flush,          \* the flush loop
    phase,          \* up, stopping (shutdown was called) or down
    sweep,          \* machines found by a sweep and not written yet
    heard,          \* newest heartbeat taken in, and whether they came in order
    budget          \* what is left of the bounds

vars == <<now, row, entry, validating, flush, phase, sweep, heard, budget>>

Write == [target : Target, update : Update, at : {"sent", "applied", "missing"}]

TypeOK ==
    /\ now \in Nat
    /\ row \in [Target -> [exists : BOOLEAN, active : BOOLEAN, lastActiveAt : Nat,
                           inst : Instance \union {None}]]
    /\ entry \in [Target -> CacheEntry \union {NoEntry}]
    /\ validating \subseteq [target : Target, update : Update, at : Nat]
    /\ flush \in [running : BOOLEAN, again : BOOLEAN, failed : BOOLEAN, writes : SUBSET Write]
    /\ \A v, w \in flush.writes : v.target = w.target => v = w
    /\ phase \in {"up", "stopping", "down"}
    /\ sweep \subseteq Machine
    /\ heard \in [Machine -> [t : Nat, ordered : BOOLEAN]]
    /\ budget \in [beats : [Target -> Nat], events : [Target -> Nat], faults : Nat]

\* The rows were last active one sweep's age ago.
Init ==
    /\ now = SweepAge
    /\ row = [x \in Target |-> [exists |-> TRUE, active |-> TRUE, lastActiveAt |-> 0,
                                inst |-> None]]
    /\ entry = [x \in Target |-> NoEntry]
    /\ validating = {}
    /\ flush = [running |-> FALSE, again |-> FALSE, failed |-> FALSE, writes |-> {}]
    /\ phase = "up"
    /\ sweep = {}
    /\ heard = [x \in Machine |-> [t |-> 0, ordered |-> TRUE]]
    /\ budget \in Budgets

Larger(a, b) == IF a >= b THEN a ELSE b
Distance(a, b) == IF a >= b THEN a - b ELSE b - a

Fault ==
    /\ budget.faults > 0
    /\ budget' = [budget EXCEPT !.faults = @ - 1]
-----------------------------------------------------------------------------
(* Queueing: queueMachineUpdate and queueSessionUpdate. *)

\* The time of an update of the same incarnation, if that is what the slot holds.
SlotTime(slot, inst) ==
    IF slot # None /\ slot.inst = inst THEN slot.t ELSE -1

Watermark(e, inst) ==
    Larger(e.lastUpdateSent, Larger(SlotTime(e.inFlight, inst), SlotTime(e.pending, inst)))

Queued(e, u) ==
    IF /\ phase = "up"
       /\ Distance(u.t, Watermark(e, u.inst)) > Threshold
       /\ e.pending = None \/ u.t >= e.pending.t
    THEN [e EXCEPT !.pending = u] ELSE e

\* History: a heartbeat is out of order when it lies behind another one, or
\* behind the activity that the row shows already.
Heard(x, t) ==
    heard' = IF x \in Machine /\ phase = "up"
             THEN [heard EXCEPT ![x] =
                     [t |-> Larger(t, @.t),
                      ordered |-> @.ordered /\ t >= Larger(@.t, row[x].lastActiveAt)]]
             ELSE heard

\* Defect: the time a client sends is taken as it is.
ClampMut(time) == time

\* A heartbeat from the future counts as one of now.
Clamp(time) == IF time > now THEN now ELSE time

(***************************************************************************)
(* machine-alive, or a session heartbeat: dropped if it is too old, queued *)
(* if the entry is valid, looked up otherwise.                             *)
(***************************************************************************)
Heartbeat(x, time, inst) ==
    LET u == [t |-> Clamp(time), inst |-> inst]
        hit == entry[x] # NoEntry /\ entry[x].validUntil > now
    IN  /\ phase # "down" /\ now <= Horizon
        /\ budget.beats[x] > 0
        /\ budget' = [budget EXCEPT !.beats[x] = @ - 1]
        /\ u.t >= now - SweepAge
        /\ entry' = IF hit THEN [entry EXCEPT ![x] = Queued(@, u)] ELSE entry
        /\ validating' = IF hit THEN validating
                         ELSE validating \union {[target |-> x, update |-> u, at |-> now]}
        /\ IF hit THEN Heard(x, u.t) ELSE UNCHANGED heard
        /\ UNCHANGED <<now, row, flush, phase, sweep>>

\* The row was found: the entry is made or refreshed, never replaced.
Validated(x, at) ==
    IF entry[x] = NoEntry
    THEN [validUntil |-> at + CacheTtl, lastUpdateSent |-> row[x].lastActiveAt,
          pending |-> None, inFlight |-> None]
    ELSE [entry[x] EXCEPT !.validUntil = at + CacheTtl,
                          !.lastUpdateSent = Larger(@, row[x].lastActiveAt)]

Validate(v) ==
    /\ phase # "down"
    /\ validating' = validating \ {v}
    /\ IF row[v.target].exists
       THEN /\ entry' = [entry EXCEPT ![v.target] = Queued(Validated(v.target, v.at), v.update)]
            /\ Heard(v.target, v.update.t)
       ELSE UNCHANGED <<entry, heard>>
    /\ UNCHANGED <<now, row, flush, phase, sweep, budget>>

ValidateFails(v) ==
    /\ phase # "down"
    /\ Fault
    /\ validating' = validating \ {v}
    /\ UNCHANGED <<now, row, entry, flush, phase, sweep, heard>>

Cleanup(x) ==
    /\ phase # "down" /\ entry[x] # NoEntry
    /\ entry[x].validUntil < now /\ entry[x].pending = None /\ entry[x].inFlight = None
    /\ entry' = [entry EXCEPT ![x] = NoEntry]
    /\ UNCHANGED <<now, row, validating, flush, phase, sweep, heard, budget>>
-----------------------------------------------------------------------------
(* Flushing. *)

Takeable ==
    {x \in Target : /\ entry[x] # NoEntry
                    /\ entry[x].pending # None /\ entry[x].inFlight = None}

\* One turn of the loop: takePendingUpdates, and the writes are under way.  A
\* turn without updates is over at once.
Turn ==
    /\ entry' = [x \in Target |->
                    IF x \in Takeable
                    THEN [entry[x] EXCEPT !.pending = None, !.inFlight = entry[x].pending]
                    ELSE entry[x]]
    /\ flush' = [running |-> Takeable # {}, again |-> FALSE, failed |-> FALSE,
                 writes |-> {[target |-> x, update |-> entry[x].pending, at |-> "sent"] :
                               x \in Takeable}]

FlushPendingUpdates ==
    IF flush.running
    THEN flush' = [flush EXCEPT !.again = TRUE] /\ UNCHANGED entry
    ELSE Turn

BatchTimer ==
    /\ phase = "up"
    /\ FlushPendingUpdates
    /\ UNCHANGED <<now, row, validating, phase, sweep, heard, budget>>

\* Defect: a session's heartbeat is written whoever runs the session by now.
MatchesMut(r, u) == r.lastActiveAt < u.t

\* The WHERE clause of a session's heartbeat.
Matches(r, u) ==
    /\ r.lastActiveAt < u.t
    /\ u.inst # None => r.inst = u.inst /\ r.active

\* The database executes the write of w.
PersistUpdate(w) ==
    LET r == row[w.target]
        done(at) == flush' = [flush EXCEPT !.writes = (@ \ {w}) \union {[w EXCEPT !.at = at]}]
    IN  /\ w.at = "sent" /\ phase # "down"
        /\ \/ /\ w.target \in Machine /\ ~r.exists
              /\ done("missing") /\ UNCHANGED row
           \/ /\ w.target \in Machine /\ r.exists
              /\ done("applied")
              /\ row' = [row EXCEPT ![w.target].lastActiveAt = w.update.t]
           \/ /\ w.target \in Session
              /\ done("applied")
              /\ row' = IF r.exists /\ Matches(r, w.update)
                        THEN [row EXCEPT ![w.target].lastActiveAt = w.update.t,
                                         ![w.target].active = TRUE]
                        ELSE row
        /\ UNCHANGED <<now, entry, validating, phase, sweep, heard, budget>>

\* Defect: the update stays marked as under way.
WrittenMut(e, u) == [e EXCEPT !.lastUpdateSent = Larger(@, u.t)]

Written(e, u) ==
    LET sent == Larger(e.lastUpdateSent, u.t)
        redundant == /\ e.pending # None /\ e.pending.inst = u.inst
                     /\ Distance(e.pending.t, sent) <= Threshold
    IN  [e EXCEPT !.lastUpdateSent = sent, !.inFlight = None,
                  !.pending = IF redundant THEN None ELSE @]

\* The answer arrives; an entry without a row is dropped (discardMissingUpdate).
Persisted(w) ==
    /\ w.at # "sent" /\ phase # "down"
    /\ entry' = [entry EXCEPT ![w.target] =
                    IF w.at = "missing" THEN NoEntry ELSE Written(@, w.update)]
    /\ flush' = [flush EXCEPT !.writes = @ \ {w}]
    /\ UNCHANGED <<now, row, validating, phase, sweep, heard, budget>>

\* Defect: a failed update is forgotten.
RequeueFailedUpdateMut(e, u) == [e EXCEPT !.inFlight = None]

RequeueFailedUpdate(e, u) ==
    [e EXCEPT !.inFlight = None, !.pending = IF e.pending = None THEN u ELSE @]

\* The write fails, or only its answer does.
PersistFails(w) ==
    /\ w.at # "missing" /\ phase # "down"
    /\ Fault
    /\ entry' = [entry EXCEPT ![w.target] = RequeueFailedUpdate(@, w.update)]
    /\ flush' = [flush EXCEPT !.writes = @ \ {w}, !.failed = TRUE]
    /\ UNCHANGED <<now, row, validating, phase, sweep, heard>>

\* All writes are answered: another turn if someone asked and none failed.
RunFlushLoop ==
    /\ flush.running /\ flush.writes = {} /\ phase # "down"
    /\ IF flush.again /\ ~flush.failed
       THEN Turn
       ELSE flush' = [flush EXCEPT !.running = FALSE] /\ UNCHANGED entry
    /\ phase' = IF phase = "stopping" /\ ~flush'.running THEN "down" ELSE phase
    /\ UNCHANGED <<now, row, validating, sweep, heard, budget>>

\* Nothing is queued any more, and the last flush is awaited.
Shutdown ==
    /\ phase = "up"
    /\ FlushPendingUpdates
    /\ phase' = IF flush'.running THEN "stopping" ELSE "down"
    /\ UNCHANGED <<now, row, validating, sweep, heard, budget>>
-----------------------------------------------------------------------------
(* Everything else that writes the rows. *)

Change(x, r) ==
    /\ phase # "down" /\ now <= Horizon
    /\ budget.events[x] > 0
    /\ budget' = [budget EXCEPT !.events[x] = @ - 1]
    /\ row[x].exists
    /\ row' = [row EXCEPT ![x] = r]
    /\ UNCHANGED <<now, entry, validating, flush, phase, sweep>>

\* machine-update-state marks its machine active, past the cache: an older
\* heartbeat that is on its way overwrites this one.
DaemonState(x) ==
    /\ Change(x, [row[x] EXCEPT !.active = TRUE, !.lastActiveAt = now])
    /\ heard' = IF entry[x] # NoEntry /\ {entry[x].pending, entry[x].inFlight} # {None}
                THEN [heard EXCEPT ![x].ordered = FALSE] ELSE heard

\* Another incarnation takes a session over, its incarnation ends, and an
\* operator deletes a row.
Takeover(x) ==
    \E i \in Instance \ {row[x].inst} :
        /\ Change(x, [row[x] EXCEPT !.inst = i, !.active = TRUE, !.lastActiveAt = now])
        /\ UNCHANGED heard
End(x) ==
    /\ row[x].active
    /\ Change(x, [row[x] EXCEPT !.active = FALSE])
    /\ UNCHANGED heard
Delete(x) ==
    /\ Change(x, [row[x] EXCEPT !.exists = FALSE])
    /\ UNCHANGED heard

SweepFind ==
    /\ sweep = {} /\ phase # "down"
    /\ sweep' = {x \in Machine : /\ row[x].exists /\ row[x].active
                                 /\ row[x].lastActiveAt <= now - SweepAge}
    /\ UNCHANGED <<now, row, entry, validating, flush, phase, heard, budget>>

\* The write repeats neither the cutoff nor the owner, only that it is active.
SweepWrite(x) ==
    /\ x \in sweep /\ phase # "down"
    /\ sweep' = sweep \ {x}
    /\ row' = IF row[x].exists THEN [row EXCEPT ![x].active = FALSE] ELSE row
    /\ UNCHANGED <<now, entry, validating, flush, phase, heard, budget>>

Tick ==
    /\ now < MaxTime /\ phase # "down"
    /\ now' = now + 1
    /\ UNCHANGED <<row, entry, validating, flush, phase, sweep, heard, budget>>
-----------------------------------------------------------------------------
Next ==
    \/ \E x \in Target, d \in -Skew .. Skew :
         now + d >= 0 /\ \E i \in (IF x \in Machine THEN {None} ELSE Instance \union {None}) :
             Heartbeat(x, now + d, i)
    \/ \E v \in validating : Validate(v) \/ ValidateFails(v)
    \/ \E x \in Target : Cleanup(x) \/ Delete(x)
    \/ \E w \in flush.writes : PersistUpdate(w) \/ Persisted(w) \/ PersistFails(w)
    \/ \E x \in Machine : DaemonState(x) \/ SweepWrite(x)
    \/ \E x \in Session : Takeover(x) \/ End(x)
    \/ BatchTimer
    \/ RunFlushLoop
    \/ Shutdown
    \/ SweepFind
    \/ Tick

Spec == Init /\ [][Next]_vars

(***************************************************************************)
(* Fairness: time passes, the timers fire, the database answers and the    *)
(* event loop runs what was answered.  Heartbeats, failures, other events  *)
(* and the shutdown may happen or not.                                     *)
(***************************************************************************)
Fairness ==
    /\ WF_vars(Tick)
    /\ WF_vars(BatchTimer)
    /\ WF_vars(RunFlushLoop)
    /\ WF_vars(\E v \in validating : Validate(v))
    /\ \A x \in Target :
         WF_vars(\E w \in flush.writes : w.target = x /\ (PersistUpdate(w) \/ Persisted(w)))
    /\ WF_vars(SweepFind)
    /\ \A x \in Machine : WF_vars(SweepWrite(x))

FairSpec == Spec /\ Fairness
-----------------------------------------------------------------------------
\* When shutdown is over and the last turn of the flush did not fail, no update
\* is queued or under way, although a flush may have been running when it began.
ShutdownFlushes ==
    phase = "down" /\ ~flush.failed =>
        \A x \in Target :
            entry[x] # NoEntry => entry[x].pending = None /\ entry[x].inFlight = None

(***************************************************************************)
(* No heartbeat is lost: as long as a machine's heartbeats come in order   *)
(* and no direct write of its row overtakes one, the newest one is, up to  *)
(* the threshold, in the row, queued or under way, whatever failed,        *)
(* expired or was cleaned up meanwhile, and shutdown leaves none behind    *)
(* (queueMachineUpdate, persistUpdate, requeueFailedUpdate, cleanup,       *)
(* shutdown).                                                              *)
(***************************************************************************)
HeartbeatKept ==
    /\ TypeOK
    /\ ShutdownFlushes
    /\ \A x \in Machine :
         row[x].exists /\ heard[x].ordered =>
             \/ heard[x].t - row[x].lastActiveAt <= Threshold
             \/ /\ entry[x] # NoEntry
                /\ heard[x].t - Larger(SlotTime(entry[x].pending, None),
                                       SlotTime(entry[x].inFlight, None)) <= Threshold

(***************************************************************************)
(* ... and it is written in the end, although flushes overlap, fail and    *)
(* are joined (flushPendingUpdates, runFlushLoop).                         *)
(***************************************************************************)
HeartbeatWritten ==
    <>[](\A x \in Machine :
            phase = "up" /\ row[x].exists /\ heard[x].ordered =>
                heard[x].t - row[x].lastActiveAt <= Threshold)

(***************************************************************************)
(* A late flush does no harm to a session: its last activity never goes    *)
(* back, and the heartbeat of an incarnation that has ended or was taken   *)
(* over since it was queued makes nothing active again (persistUpdate).    *)
(***************************************************************************)
LateFlushHarmless ==
    [][\A x \in Session :
         /\ row'[x].lastActiveAt >= row[x].lastActiveAt
         /\ ~row[x].active /\ row'[x].active /\ row'[x].inst = row[x].inst =>
              \E w \in flush.writes : w.target = x /\ w.update.inst = None]_vars

(***************************************************************************)
(* A machine that falls silent is shown inactive in the end: no heartbeat, *)
(* delayed or from a clock that runs ahead, keeps it active (machine-alive,*)
(* startTimeout).                                                          *)
(***************************************************************************)
SilentGoesInactive ==
    <>[](\A x \in Machine : phase # "down" => ~row[x].active \/ ~row[x].exists)
=============================================================================
