-------------------------- MODULE NotificationOutbox --------------------------
(***************************************************************************)
(* The transactional outbox that announces committed session messages.     *)
(*                                                                         *)
(* sources/app/session/sessionMessageNotificationOutbox.ts: every pod runs *)
(* a dispatcher that claims the oldest undelivered row of each session,    *)
(* publishes it on Redis and marks it, racing the dispatchers of the other *)
(* pods through claim tokens with a lease.  sessionMessageNotificationBus  *)
(* publishes with a timeout; sessionMessageCreate.ts appends the rows;     *)
(* sessionDelete.ts removes them.                                          *)
(*                                                                         *)
(* A dispatcher is one asynchronous loop of a single-threaded process:     *)
(* each action below runs from one await to the next.  Clocks appear only  *)
(* as what they decide: whether a retry is due, whether the lease of a     *)
(* claim has run out.                                                      *)
(*                                                                         *)
(* Definitions whose name ends in Mut are deliberate defects of the        *)
(* definition that follows them: each one breaks a property below.         *)
(***************************************************************************)
EXTENDS Naturals, FiniteSets

CONSTANTS
    Session,
    Pod,
    BatchSize,      \* options.batchSize
    Activity,       \* bound: what may happen besides commits and dispatching
    MaxSeq,         \* bound: messages per session
    MaxFaults       \* bound: crashes, refused or slow operations

ASSUME OutboxAssumption ==
    /\ BatchSize \in Nat \ {0}
    /\ MaxSeq \in Nat
    /\ MaxFaults \in Nat
    /\ Activity \subseteq {"poll", "crash", "stop", "refuse", "slow", "delete", "cleanup"}

VARIABLES
    seq,            \* Session.seq: messages committed so far
    outbox,         \* the outbox row of each message
    disp,           \* the dispatcher of each pod
    owed,           \* <<pod, message>>: committed, the handler has not called wake yet
    published,      \* messages that reached Redis
    late,           \* messages whose PUBLISH timed out and may still reach Redis
    faults          \* how many of MaxFaults have happened

vars == <<seq, outbox, disp, owed, published, late, faults>>

\* A message: its session and its sequence number in it.
Key == Session \X (1 .. MaxSeq)

Earlier(k) == {j \in Key : j[1] = k[1] /\ j[2] < k[2]}

(***************************************************************************)
(* A row.  none: not committed yet; cleaned: delivered and deleted after   *)
(* the retention; gone: deleted with its session.  Claim tokens are random *)
(* and every claim increments attempts, so the number of the attempt       *)
(* serves as the token; 0 is SQL NULL.  lapsed: claimedAt < leaseCutoff.   *)
(* due: nextAttemptAt <= now.                                              *)
(***************************************************************************)
Row ==
    [state : {"none", "pending", "delivered", "cleaned", "gone"},
     attempts : Nat, token : Nat, lapsed : BOOLEAN, due : BOOLEAN]

NoRow ==
    [state |-> "none", attempts |-> 0, token |-> 0, lapsed |-> FALSE, due |-> TRUE]

\* A claimed notification in the memory of a dispatcher.
Claim == [key : Key, token : Nat]

(***************************************************************************)
(* A dispatcher.  down: there is no process.  idle: `running' is null.     *)
(* settling: drain is over and its finally clause has not run.             *)
(***************************************************************************)
Dispatcher ==
    [pc : {"down", "idle", "cleanup", "select", "cas", "reread",
           "publish", "mark", "fail", "settling"},
     stopped : BOOLEAN,
     wakeAgain : BOOLEAN,
     found : BOOLEAN,               \* notifications.length > 0
     candidates : SUBSET Key,
     batch : SUBSET Claim,
     current : SUBSET Claim]        \* the claim being worked on, if any

Down ==
    [pc |-> "down", stopped |-> TRUE, wakeAgain |-> FALSE, found |-> FALSE,
     candidates |-> {}, batch |-> {}, current |-> {}]

\* A claim token stays at the row until the claim ends, and no longer.
RowShape(r) ==
    /\ r.token <= r.attempts
    /\ r.token # 0 => r.state = "pending"
    /\ r.lapsed => r.token # 0

TypeOK ==
    /\ seq \in [Session -> 0 .. MaxSeq]
    /\ outbox \in [Key -> Row]
    /\ \A k \in Key : RowShape(outbox[k])
    /\ disp \in [Pod -> Dispatcher]
    /\ owed \subseteq Pod \X Key
    /\ published \subseteq Key
    /\ late \subseteq Key
    /\ faults \in 0 .. MaxFaults

Init ==
    /\ seq = [s \in Session |-> 0]
    /\ outbox = [k \in Key |-> NoRow]
    /\ disp = [p \in Pod |-> Down]
    /\ owed = {}
    /\ published = {}
    /\ late = {}
    /\ faults = 0

Holds(p, c) == c \in disp[p].batch \union disp[p].current

\* Nobody works on the claim of row k any more.
Abandoned(k) ==
    \A p \in Pod : ~Holds(p, [key |-> k, token |-> outbox[k].token])

Deleted(s) == \E k \in Key : k[1] = s /\ outbox[k].state = "gone"

Fault == faults < MaxFaults /\ faults' = faults + 1
-----------------------------------------------------------------------------
(* The producer side.                                                      *)

\* drain() up to its first await.
Drain(d) ==
    [d EXCEPT !.pc = "cleanup", !.wakeAgain = FALSE, !.found = FALSE]

Wake(d) ==
    IF d.stopped THEN d
    ELSE IF d.pc # "idle" THEN [d EXCEPT !.wakeAgain = TRUE]
    ELSE Drain(d)

\* persistSessionMessageInTx commits a new message and its outbox row.
Commit(p, s) ==
    LET k == <<s, seq[s] + 1>>
    IN  /\ seq[s] < MaxSeq
        /\ ~Deleted(s)
        /\ disp[p].pc # "down"
        /\ seq' = [seq EXCEPT ![s] = seq[s] + 1]
        /\ outbox' = [outbox EXCEPT ![k] = [NoRow EXCEPT !.state = "pending"]]
        /\ owed' = owed \union {<<p, k>>}
        /\ UNCHANGED <<disp, published, late, faults>>

\* The message handler resumes after the commit.
HandlerWake(p) ==
    /\ \E w \in owed : w[1] = p /\ owed' = owed \ {w}
    /\ disp' = [disp EXCEPT ![p] = Wake(disp[p])]
    /\ UNCHANGED <<seq, outbox, published, late, faults>>

DeleteSession(s) ==
    /\ "delete" \in Activity
    /\ seq[s] > 0
    /\ ~Deleted(s)
    /\ outbox' = [k \in Key |->
         IF k[1] = s /\ k[2] <= seq[s]
         THEN [outbox[k] EXCEPT !.state = "gone", !.token = 0, !.lapsed = FALSE]
         ELSE outbox[k]]
    /\ UNCHANGED <<seq, disp, owed, published, late, faults>>
-----------------------------------------------------------------------------
(* Claiming.                                                               *)

Start(p) ==
    /\ disp[p].pc = "down"
    /\ disp' = [disp EXCEPT ![p] = Wake([Down EXCEPT !.pc = "idle", !.stopped = FALSE])]
    /\ UNCHANGED <<seq, outbox, owed, published, late, faults>>

Poll(p) ==
    /\ "poll" \in Activity
    /\ ~disp[p].stopped
    /\ disp' = [disp EXCEPT ![p] = Wake(disp[p])]
    /\ UNCHANGED <<seq, outbox, owed, published, late, faults>>

\* cleanupDelivered, at most once per cleanupIntervalMs
Cleanup(p) ==
    /\ disp[p].pc = "cleanup"
    /\ disp' = [disp EXCEPT ![p].pc = "select"]
    /\ \/ UNCHANGED outbox
       \/ /\ "cleanup" \in Activity
          /\ \E old \in SUBSET {k \in Key : outbox[k].state = "delivered"} :
               /\ old # {}
               /\ outbox' = [k \in Key |->
                    IF k \in old THEN [outbox[k] EXCEPT !.state = "cleaned"]
                    ELSE outbox[k]]
    /\ UNCHANGED <<seq, owed, published, late, faults>>

ClaimableMut(k) ==
    outbox[k].state = "pending" /\ outbox[k].due /\ outbox[k].token = 0

\* pendingClaimWhere
Claimable(k) ==
    /\ outbox[k].state = "pending"
    /\ outbox[k].due
    /\ outbox[k].token = 0 \/ outbox[k].lapsed

HeadsMut == {k \in Key : Claimable(k)}

\* The claimable rows without an earlier undelivered one in their session.
Heads ==
    {k \in Key : Claimable(k) /\ \A j \in Earlier(k) : outbox[j].state # "pending"}

\* The candidates of claimBatch, LIMIT limit.
Select(p) ==
    /\ disp[p].pc = "select"
    /\ \E c \in SUBSET Heads :
         /\ Cardinality(c) <= BatchSize
         /\ c = Heads \/ Cardinality(c) = BatchSize
         /\ disp' = [disp EXCEPT ![p].pc = "cas", ![p].candidates = c]
    /\ UNCHANGED <<seq, outbox, owed, published, late, faults>>

\* updateMany of claimBatch: nothing but pendingClaimWhere is tested again.
ClaimCas(p) ==
    /\ disp[p].pc = "cas"
    /\ \E k \in disp[p].candidates :
         \/ /\ Claimable(k)
            /\ outbox' = [outbox EXCEPT ![k] = [outbox[k] EXCEPT
                 !.attempts = outbox[k].attempts + 1,
                 !.token = outbox[k].attempts + 1, !.lapsed = FALSE]]
            /\ disp' = [disp EXCEPT ![p] = [disp[p] EXCEPT
                 !.pc = "reread",
                 !.candidates = disp[p].candidates \ {k},
                 !.current = {[key |-> k, token |-> outbox[k].attempts + 1]}]]
         \/ /\ ~Claimable(k)
            /\ disp' = [disp EXCEPT ![p].candidates = disp[p].candidates \ {k}]
            /\ UNCHANGED outbox
    /\ UNCHANGED <<seq, owed, published, late, faults>>

\* What findUnique returns for the claim just made, whoever owns the row now.
Reread(c) == [c EXCEPT !.token = outbox[c.key].token]

RereadBatchMut(c) ==
    IF outbox[c.key].state \in {"cleaned", "gone"} THEN {} ELSE {Reread(c)}

\* Pushed only if the row still carries the token drawn for it.
RereadBatch(c) ==
    IF outbox[c.key].state \notin {"cleaned", "gone"} /\ Reread(c).token = c.token
    THEN {Reread(c)} ELSE {}

ClaimRead(p) ==
    /\ disp[p].pc = "reread"
    /\ \E c \in disp[p].current :
         disp' = [disp EXCEPT ![p] = [disp[p] EXCEPT
           !.pc = "cas", !.current = {},
           !.batch = disp[p].batch \union RereadBatch(c),
           !.found = disp[p].found \/ RereadBatch(c) # {}]]
    /\ UNCHANGED <<seq, outbox, owed, published, late, faults>>

ClaimsDone(p) ==
    /\ disp[p].pc = "cas"
    /\ disp[p].candidates = {}
    /\ disp' = [disp EXCEPT ![p].pc = "publish"]
    /\ UNCHANGED <<seq, outbox, owed, published, late, faults>>
-----------------------------------------------------------------------------
(* Publishing.  The row is not looked at again before it is published.     *)

Take(p, c, pc) ==
    disp' = [disp EXCEPT ![p] = [disp[p] EXCEPT
      !.pc = pc, !.batch = disp[p].batch \ {c}, !.current = {c}]]

Publish(p) ==
    /\ disp[p].pc = "publish"
    /\ \E c \in disp[p].batch :
         /\ Take(p, c, "mark")
         /\ published' = published \union {c.key}
    /\ UNCHANGED <<seq, outbox, owed, late, faults>>

PublishFailsMut(p) ==
    /\ "refuse" \in Activity
    /\ disp[p].pc = "publish"
    /\ Fault
    /\ \E c \in disp[p].batch :
         /\ Take(p, c, "mark")
         /\ late' \in {late, late \union {c.key}}
    /\ UNCHANGED <<seq, outbox, owed, published>>

\* An error, or the timeout: then Redis may still get the command.
PublishFails(p) ==
    /\ "refuse" \in Activity
    /\ disp[p].pc = "publish"
    /\ Fault
    /\ \E c \in disp[p].batch :
         /\ Take(p, c, "fail")
         /\ late' \in {late, late \union {c.key}}
    /\ UNCHANGED <<seq, outbox, owed, published>>

LatePublish ==
    /\ \E k \in late : late' = late \ {k} /\ published' = published \union {k}
    /\ UNCHANGED <<seq, outbox, disp, owed, faults>>

LoseLate ==
    /\ \E k \in late : late' = late \ {k}
    /\ UNCHANGED <<seq, outbox, disp, owed, published, faults>>

\* The WHERE clause of markDelivered and markFailed.
Owned(c) == outbox[c.key].state = "pending" /\ outbox[c.key].token = c.token

DeliveredRow(r) == [r EXCEPT !.state = "delivered", !.token = 0, !.lapsed = FALSE]

SetDelivered(c) ==
    outbox' = IF Owned(c)
              THEN [outbox EXCEPT ![c.key] = DeliveredRow(outbox[c.key])]
              ELSE outbox

MarkDelivered(p) ==
    /\ disp[p].pc = "mark"
    /\ \E c \in disp[p].current : SetDelivered(c)
    /\ disp' = [disp EXCEPT ![p].pc = "publish", ![p].current = {}]
    /\ UNCHANGED <<seq, owed, published, late, faults>>

\* markDelivered throws, with or without effect: the same catch clause.
MarkDeliveredThrows(p) ==
    /\ "refuse" \in Activity
    /\ disp[p].pc = "mark"
    /\ Fault
    /\ \E c \in disp[p].current : SetDelivered(c) \/ UNCHANGED outbox
    /\ disp' = [disp EXCEPT ![p].pc = "fail"]
    /\ UNCHANGED <<seq, owed, published, late>>

MarkFailed(p) ==
    /\ disp[p].pc = "fail"
    /\ \E c \in disp[p].current :
         outbox' = IF Owned(c)
                   THEN [outbox EXCEPT ![c.key] = [outbox[c.key] EXCEPT
                          !.token = 0, !.lapsed = FALSE, !.due = FALSE]]
                   ELSE outbox
    /\ disp' = [disp EXCEPT ![p].pc = "publish", ![p].current = {}]
    /\ UNCHANGED <<seq, owed, published, late, faults>>
-----------------------------------------------------------------------------
(* The loop of drain and its end.                                          *)

BatchDone(p) ==
    LET again == disp[p].wakeAgain \/ disp[p].found
    IN  /\ disp[p].pc = "publish"
        /\ disp[p].batch = {}
        /\ disp' = [disp EXCEPT ![p] =
             IF again /\ ~disp[p].stopped THEN Drain(disp[p])
             ELSE [disp[p] EXCEPT !.pc = "settling", !.wakeAgain = again]]
        /\ UNCHANGED <<seq, outbox, owed, published, late, faults>>

\* A database error outside the try: drain rejects, claims stay at their rows.
DrainFails(p) ==
    /\ "refuse" \in Activity
    /\ disp[p].pc \in {"cleanup", "select", "cas", "reread", "fail"}
    /\ Fault
    /\ disp' = [disp EXCEPT ![p] = [disp[p] EXCEPT
         !.pc = "settling", !.candidates = {}, !.batch = {}, !.current = {}]]
    /\ UNCHANGED <<seq, outbox, owed, published, late>>

\* The finally clause of wake.
Settled(d) ==
    IF d.wakeAgain /\ ~d.stopped THEN Drain(d) ELSE [d EXCEPT !.pc = "idle"]

Settle(p) ==
    /\ disp[p].pc = "settling"
    /\ disp' = [disp EXCEPT ![p] = Settled(disp[p])]
    /\ UNCHANGED <<seq, outbox, owed, published, late, faults>>

Stop(p) ==
    /\ "stop" \in Activity
    /\ ~disp[p].stopped
    /\ disp' = [disp EXCEPT ![p].stopped = TRUE]
    /\ UNCHANGED <<seq, outbox, owed, published, late, faults>>

Gone(p) ==
    /\ disp' = [disp EXCEPT ![p] = Down]
    /\ owed' = {w \in owed : w[1] # p}
    /\ UNCHANGED <<seq, outbox, published, late>>

\* The process ends once the dispatcher has stopped, or dies in any state.
Exit(p) ==
    /\ disp[p].stopped
    /\ disp[p].pc = "idle"
    /\ Gone(p)
    /\ UNCHANGED faults

Crash(p) ==
    /\ "crash" \in Activity
    /\ disp[p].pc # "down"
    /\ Fault
    /\ Gone(p)

\* The lease of a claim runs out: its pod is gone, or merely slow.
LeaseRunsOut(k) ==
    /\ outbox[k].token # 0
    /\ ~outbox[k].lapsed
    /\ \/ Abandoned(k) /\ UNCHANGED faults
       \/ ~Abandoned(k) /\ "slow" \in Activity /\ Fault
    /\ outbox' = [outbox EXCEPT ![k] = [outbox[k] EXCEPT !.lapsed = TRUE]]
    /\ UNCHANGED <<seq, disp, owed, published, late>>

RetryDue(k) ==
    /\ ~outbox[k].due
    /\ outbox' = [outbox EXCEPT ![k] = [outbox[k] EXCEPT !.due = TRUE]]
    /\ UNCHANGED <<seq, disp, owed, published, late, faults>>
-----------------------------------------------------------------------------
\* What the event loop of pod p does next.
Step(p) ==
    \/ Cleanup(p) \/ Select(p) \/ ClaimCas(p) \/ ClaimRead(p) \/ ClaimsDone(p)
    \/ Publish(p) \/ MarkDelivered(p) \/ MarkFailed(p) \/ BatchDone(p) \/ Settle(p)

Next ==
    \/ \E p \in Pod :
         \/ Step(p) \/ HandlerWake(p) \/ Start(p) \/ Poll(p) \/ Stop(p) \/ Exit(p) \/ Crash(p)
         \/ PublishFails(p) \/ MarkDeliveredThrows(p) \/ DrainFails(p)
         \/ \E s \in Session : Commit(p, s)
    \/ \E s \in Session : DeleteSession(s)
    \/ \E k \in Key : LeaseRunsOut(k) \/ RetryDue(k)
    \/ LatePublish
    \/ LoseLate

Spec == Init /\ [][Next]_vars

(***************************************************************************)
(* Fairness: the event loop runs, a pod that is down is started again, its *)
(* poll timer fires, and time passes for leases and retries.  Nothing is   *)
(* assumed of the faults; there are at most MaxFaults of them.             *)
(***************************************************************************)
Fairness ==
    /\ \A p \in Pod :
         /\ WF_vars(Step(p))
         /\ WF_vars(HandlerWake(p))
         /\ WF_vars(Start(p))
         /\ WF_vars(Poll(p))
    /\ \A k \in Key :
         /\ WF_vars(LeaseRunsOut(k) /\ UNCHANGED faults)
         /\ WF_vars(RetryDue(k))

FairSpec == Spec /\ Fairness
-----------------------------------------------------------------------------
(***************************************************************************)
(* At least once.  A row that is marked delivered, or cleaned up after     *)
(* that, belongs to a message that did reach Redis, whatever timed out and *)
(* whoever marked it (drain, markDelivered, cleanupDelivered).  A row that *)
(* is settled keeps no claim, also if it was deleted meanwhile (TypeOK).   *)
(***************************************************************************)
DeliveredWasPublished ==
    /\ TypeOK
    /\ \A k \in Key : outbox[k].state \in {"delivered", "cleaned"} => k \in published

(***************************************************************************)
(* Per-session order.  No message is published before an earlier message   *)
(* of its session, although batches, claim leases and late PUBLISH         *)
(* commands of several pods overlap (the comment in claimBatch).           *)
(***************************************************************************)
PublishedInOrder ==
    \A k \in published : \A j \in Earlier(k) : j \in published \/ Deleted(j[1])

(***************************************************************************)
(* A claim whose lease is running is ended by its own pod only: a pod that *)
(* lost its claim and comes back late neither completes nor releases the   *)
(* row for the pod that works on it (claimToken).                          *)
(***************************************************************************)
ClaimHeld ==
    [][\A p \in Pod : \A k \in Key :
         LET c == [key |-> k, token |-> outbox[k].token]
         IN  /\ c.token # 0
             /\ ~outbox[k].lapsed
             /\ Holds(p, c)
             /\ outbox'[k].token # c.token
             => disp'[p] # disp[p] \/ outbox'[k].state = "gone"]_vars

(***************************************************************************)
(* Every committed message is published in the end, through crashes,       *)
(* refused operations and claims nobody finishes.                          *)
(***************************************************************************)
EventuallyPublished ==
    \A k \in Key :
        outbox[k].state = "pending" ~> k \in published \/ outbox[k].state = "gone"
=============================================================================
