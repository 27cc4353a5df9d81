----------------------- MODULE NotificationOutboxProofs -----------------------
(***************************************************************************)
(* Proofs about NotificationOutbox, for any sessions and pods, any batch   *)
(* size and any number of messages and faults.                             *)
(***************************************************************************)
EXTENDS NotificationOutbox, TLAPS

-----------------------------------------------------------------------------
(* The inductive invariant, in the parts the theorems need.                *)

\* A row that is settled: it is never pending again.
Done(k) == outbox[k].state \in {"delivered", "cleaned", "gone"}

\* Nothing earlier in the session of k is left to publish.
Clear(k) == \A j \in Earlier(k) : Done(j)

\* The rows are those of the messages committed so far.
Numbered == \A k \in Key : outbox[k].state = "none" <=> k[2] > seq[k[1]]

\* A row that is not committed was never claimed.
Fresh == \A k \in Key : outbox[k].state = "none" => outbox[k].attempts = 0

\* What a dispatcher has in memory may be published in any order and at any
\* time: it was selected at the head of its session.  Its tokens were drawn
\* at the rows, and it marks only what it published.
Working ==
    \A p \in Pod :
        /\ \A k \in disp[p].candidates : Clear(k)
        /\ \A c \in Claim : Holds(p, c) =>
             Clear(c.key) /\ c.token <= outbox[c.key].attempts
        /\ disp[p].pc = "mark" => \A c \in disp[p].current : c.key \in published

\* A command that timed out is still in order when it reaches Redis.
LateInOrder == \A k \in late : Clear(k)

\* A token is drawn once, so no two pods hold the same claim.
OneHolder ==
    \A p, q \in Pod : \A c \in Claim : Holds(p, c) /\ Holds(q, c) => p = q

IInv ==
    /\ DeliveredWasPublished
    /\ Numbered
    /\ Fresh
    /\ Working
    /\ LateInOrder
    /\ OneHolder
    /\ PublishedInOrder
-----------------------------------------------------------------------------
\* Initially the invariant holds: nothing is committed and no pod is up.
LEMMA InitInv == Init => IInv
<1> SUFFICES ASSUME Init PROVE IInv
  OBVIOUS
<1> USE OutboxAssumption
<1>1. NoRow \in Row /\ RowShape(NoRow) /\ NoRow.state = "none"
  BY DEF NoRow, Row, RowShape
<1>2. Down \in Dispatcher
  BY DEF Down, Dispatcher
<1>3. \A k \in Key : outbox[k] = NoRow
  BY DEF Init
<1>4. \A p \in Pod : disp[p] = Down
  BY DEF Init
<1>5. TypeOK
  BY <1>1, <1>2, <1>3 DEF Init, TypeOK
<1>6. DeliveredWasPublished
  BY <1>1, <1>3, <1>5 DEF DeliveredWasPublished
<1>7. Numbered /\ Fresh
  BY <1>1, <1>3 DEF Init, Numbered, Fresh, NoRow, Key
<1>8. Working /\ OneHolder
  BY <1>4 DEF Working, OneHolder, Holds, Down
<1>9. LateInOrder /\ PublishedInOrder
  BY DEF Init, LateInOrder, PublishedInOrder
<1> QED
  BY <1>6, <1>7, <1>8, <1>9 DEF IInv

(***************************************************************************)
(* What a step may do without disturbing the invariant: rows only advance, *)
(* they are marked when published, what is published or still under way is *)
(* in order, and a new claim carries a token that nobody has.              *)
(***************************************************************************)
LEMMA StepInv ==
    ASSUME IInv, TypeOK', Numbered', Fresh',
           \A k \in Key :
              /\ Done(k) => Done(k)'
              /\ outbox[k].state = "gone" => outbox'[k].state = "gone"
              /\ outbox[k].attempts <= outbox'[k].attempts
              /\ outbox'[k].state \in {"delivered", "cleaned"} =>
                   outbox[k].state \in {"delivered", "cleaned"} \/ k \in published,
           published \subseteq published',
           \A k \in published' \ published : Clear(k),
           \A k \in late' \ late : Clear(k),
           \A p \in Pod :
              /\ \A k \in disp'[p].candidates \ disp[p].candidates : Clear(k)
              /\ \A c \in Claim : Holds(p, c)' /\ ~Holds(p, c) =>
                   /\ Clear(c.key)
                   /\ outbox[c.key].attempts < c.token
                   /\ c.token <= outbox'[c.key].attempts
                   /\ \A q \in Pod : q # p => ~Holds(q, c)'
              /\ disp'[p].pc = "mark" => \A c \in disp'[p].current : c.key \in published'
    PROVE  IInv'
<1>0. TypeOK
  BY DEF IInv, DeliveredWasPublished
<1>1. \A k \in Key : Clear(k) => Clear(k)'
  BY DEF Clear, Earlier
<1>2. \A k \in Key : outbox[k].attempts \in Nat /\ outbox'[k].attempts \in Nat
  BY <1>0 DEF TypeOK, Row
<1>3. \A c \in Claim : c.key \in Key /\ c.token \in Nat
  BY DEF Claim
<1>4. \A p \in Pod : disp'[p].candidates \subseteq Key
  BY DEF TypeOK, Dispatcher
<1>5. DeliveredWasPublished'
  BY DEF IInv, DeliveredWasPublished
<1>6. Working'
  <2> SUFFICES ASSUME NEW p \in Pod
               PROVE  /\ \A k \in disp'[p].candidates : Clear(k)'
                      /\ \A c \in Claim : Holds(p, c)' =>
                           Clear(c.key)' /\ c.token <= outbox'[c.key].attempts
                      /\ disp'[p].pc = "mark" => \A c \in disp'[p].current : c.key \in published'
    BY DEF Working
  <2>1. \A k \in disp'[p].candidates : Clear(k)'
    BY <1>1, <1>4 DEF IInv, Working
  <2>2. ASSUME NEW c \in Claim, Holds(p, c)'
        PROVE  Clear(c.key)' /\ c.token <= outbox'[c.key].attempts
    <3>1. CASE Holds(p, c)
      <4>1. Clear(c.key) /\ c.token <= outbox[c.key].attempts
        BY <3>1 DEF IInv, Working
      <4> QED
        BY <1>1, <1>2, <1>3, <4>1
    <3>2. CASE ~Holds(p, c)
      BY <1>1, <1>3, <2>2, <3>2
    <3> QED
      BY <3>1, <3>2
  <2> QED
    BY <2>1, <2>2
<1>7. LateInOrder'
  <2>1. late' \subseteq Key
    BY DEF TypeOK
  <2> QED
    BY <1>1, <2>1 DEF IInv, LateInOrder
<1>8. OneHolder'
  <2> SUFFICES ASSUME NEW p \in Pod, NEW q \in Pod, NEW c \in Claim,
                      Holds(p, c)', Holds(q, c)', p # q
               PROVE  FALSE
    BY DEF OneHolder
  <2>1. Holds(p, c) /\ Holds(q, c)
    OBVIOUS
  <2> QED
    BY <2>1 DEF IInv, OneHolder
<1>9. PublishedInOrder'
  <2> SUFFICES ASSUME NEW k \in published', NEW j \in Earlier(k)
               PROVE  j \in published' \/ Deleted(j[1])'
    BY DEF PublishedInOrder, Earlier
  <2>1. j \in Key /\ k \in Key
    BY DEF TypeOK, Earlier
  <2>2. CASE k \in published
    <3>1. j \in published \/ Deleted(j[1])
      BY <2>2 DEF IInv, PublishedInOrder
    <3> QED
      BY <3>1 DEF Deleted
  <2>3. CASE k \notin published
    <3>1. Done(j)
      BY <2>3 DEF Clear
    <3>2. outbox[j].state = "gone" => outbox'[j].state = "gone"
      BY <2>1
    <3>3. outbox[j].state \in {"delivered", "cleaned"} => j \in published
      BY <2>1 DEF IInv, DeliveredWasPublished
    <3> QED
      BY <2>1, <3>1, <3>2, <3>3 DEF Done, Deleted
  <2> QED
    BY <2>2, <2>3
<1> QED
  BY <1>5, <1>6, <1>7, <1>8, <1>9 DEF IInv

\* Key and dispatcher types, for use below.
LEMMA Types ==
    ASSUME TypeOK
    PROVE  /\ \A k \in Key : outbox[k] \in Row /\ outbox[k].attempts \in Nat
           /\ \A p \in Pod : disp[p] \in Dispatcher
           /\ \A p \in Pod : disp[p].candidates \subseteq Key
           /\ \A p \in Pod : disp[p].batch \subseteq Claim /\ disp[p].current \subseteq Claim
BY DEF TypeOK, Row, Dispatcher

\* A step of one dispatcher that takes up nothing new.
LEMMA LoopInv ==
    ASSUME IInv, NEW p \in Pod, NEW d \in Dispatcher,
           disp' = [disp EXCEPT ![p] = d],
           d.candidates \subseteq disp[p].candidates,
           d.batch \union d.current \subseteq disp[p].batch \union disp[p].current,
           d.pc = "mark" => disp[p].pc = "mark" /\ d.current = disp[p].current,
           owed' \subseteq Pod \X Key, faults' \in 0 .. MaxFaults,
           UNCHANGED <<seq, outbox, published, late>>
    PROVE  IInv'
<1>0. TypeOK
  BY DEF IInv, DeliveredWasPublished
<1>1. TypeOK'
  BY <1>0 DEF TypeOK
<1>2. Numbered' /\ Fresh'
  BY DEF IInv, Numbered, Fresh
<1>3. \A q \in Pod : disp'[q] = IF q = p THEN d ELSE disp[q]
  BY <1>0 DEF TypeOK
<1>4. \A k \in Key :
        /\ Done(k) => Done(k)'
        /\ outbox[k].state = "gone" => outbox'[k].state = "gone"
        /\ outbox[k].attempts <= outbox'[k].attempts
        /\ outbox'[k].state \in {"delivered", "cleaned"} =>
             outbox[k].state \in {"delivered", "cleaned"} \/ k \in published
  BY <1>0, Types DEF Done
<1>5. ASSUME NEW q \in Pod
      PROVE  /\ disp'[q].candidates \subseteq disp[q].candidates
             /\ \A c \in Claim : Holds(q, c)' => Holds(q, c)
             /\ disp'[q].pc = "mark" => \A c \in disp'[q].current : c.key \in published'
  <2>1. CASE q = p
    BY <1>3, <2>1 DEF Holds, IInv, Working
  <2>2. CASE q # p
    BY <1>3, <2>2 DEF Holds, IInv, Working
  <2> QED
    BY <2>1, <2>2
<1> QED
  BY <1>1, <1>2, <1>4, <1>5, StepInv
-----------------------------------------------------------------------------
(* The loop of a dispatcher, without the rows.                             *)

\* Waking or settling a dispatcher leaves its claims alone.
LEMMA WakeKeeps ==
    ASSUME NEW d \in Dispatcher
    PROVE  /\ Wake(d) \in Dispatcher
           /\ Wake(d).candidates = d.candidates /\ Wake(d).batch = d.batch
           /\ Wake(d).current = d.current
           /\ Wake(d).pc = "mark" => d.pc = "mark"
           /\ Drain(d) \in Dispatcher
           /\ Drain(d).candidates = d.candidates /\ Drain(d).batch = d.batch
           /\ Drain(d).current = d.current /\ Drain(d).pc = "cleanup"
           /\ Settled(d) \in Dispatcher
           /\ Settled(d).candidates = d.candidates /\ Settled(d).batch = d.batch
           /\ Settled(d).current = d.current /\ Settled(d).pc \in {"cleanup", "idle"}
<1>1. [d EXCEPT !.wakeAgain = TRUE] \in Dispatcher
  BY DEF Dispatcher
<1>2. [d EXCEPT !.pc = "idle"] \in Dispatcher
  BY DEF Dispatcher
<1>3. /\ Drain(d) \in Dispatcher
      /\ Drain(d).candidates = d.candidates /\ Drain(d).batch = d.batch
      /\ Drain(d).current = d.current /\ Drain(d).pc = "cleanup"
  BY DEF Dispatcher, Drain
<1>4. /\ [d EXCEPT !.wakeAgain = TRUE].candidates = d.candidates
      /\ [d EXCEPT !.wakeAgain = TRUE].batch = d.batch
      /\ [d EXCEPT !.wakeAgain = TRUE].current = d.current
      /\ [d EXCEPT !.wakeAgain = TRUE].pc = d.pc
      /\ [d EXCEPT !.pc = "idle"].candidates = d.candidates
      /\ [d EXCEPT !.pc = "idle"].batch = d.batch
      /\ [d EXCEPT !.pc = "idle"].current = d.current
      /\ [d EXCEPT !.pc = "idle"].pc = "idle"
  BY DEF Dispatcher
<1>5. Wake(d) \in {d, [d EXCEPT !.wakeAgain = TRUE], Drain(d)}
  BY DEF Wake
<1>6. Settled(d) \in {Drain(d), [d EXCEPT !.pc = "idle"]}
  BY DEF Settled
<1> QED
  BY <1>1, <1>2, <1>3, <1>4, <1>5, <1>6

\* The steps of a dispatcher that take up nothing new keep the invariant.
LEMMA DispatcherInv ==
    ASSUME IInv, NEW p \in Pod,
           \/ HandlerWake(p) \/ Start(p) \/ Poll(p) \/ ClaimRead(p) \/ ClaimsDone(p)
           \/ BatchDone(p) \/ DrainFails(p) \/ Settle(p) \/ Stop(p) \/ Exit(p) \/ Crash(p)
    PROVE  IInv'
<1>0. TypeOK
  BY DEF IInv, DeliveredWasPublished
<1> DEFINE d == disp[p]
<1>a. /\ d \in Dispatcher /\ owed \subseteq Pod \X Key
      /\ faults \in 0 .. MaxFaults /\ MaxFaults \in Nat
  BY <1>0, OutboxAssumption DEF TypeOK
<1>b. Fault => faults' \in 0 .. MaxFaults
  BY <1>a DEF Fault
<1>c. Down \in Dispatcher /\ Down.candidates = {} /\ Down.batch = {} /\ Down.current = {}
      /\ Down.pc = "down"
  BY DEF Down, Dispatcher
<1>1. CASE HandlerWake(p)
  <2>1. disp' = [disp EXCEPT ![p] = Wake(d)] /\ owed' \subseteq owed
        /\ UNCHANGED <<seq, outbox, published, late, faults>>
    BY <1>1 DEF HandlerWake
  <2> QED
    BY <1>a, <2>1, WakeKeeps, LoopInv
<1>2. CASE Start(p)
  <2> DEFINE e == [Down EXCEPT !.pc = "idle", !.stopped = FALSE]
  <2>1. /\ disp' = [disp EXCEPT ![p] = Wake(e)]
        /\ UNCHANGED <<seq, outbox, owed, published, late, faults>>
    BY <1>2 DEF Start
  <2>2. e \in Dispatcher /\ e.candidates = {} /\ e.batch = {} /\ e.current = {} /\ e.pc = "idle"
    BY DEF Down, Dispatcher
  <2> HIDE DEF e
  <2> QED
    BY <1>a, <2>1, <2>2, WakeKeeps, LoopInv
<1>3. CASE Poll(p)
  <2>1. disp' = [disp EXCEPT ![p] = Wake(d)]
        /\ UNCHANGED <<seq, outbox, owed, published, late, faults>>
    BY <1>3 DEF Poll
  <2> QED
    BY <1>a, <2>1, WakeKeeps, LoopInv
<1>4. CASE ClaimRead(p)
  <2>1. PICK c \in d.current :
          disp' = [disp EXCEPT ![p] = [d EXCEPT
            !.pc = "cas", !.current = {},
            !.batch = d.batch \union RereadBatch(c),
            !.found = d.found \/ RereadBatch(c) # {}]]
    BY <1>4, Zenon DEF ClaimRead
  <2>2. UNCHANGED <<seq, outbox, owed, published, late, faults>>
    BY <1>4, Zenon DEF ClaimRead
  <2>3. c \in Claim
    BY <1>0, Types
  <2>4. RereadBatch(c) \subseteq {c}
    BY <2>3 DEF RereadBatch, Reread, Claim
  <2> DEFINE f == d.found \/ RereadBatch(c) # {}
             b == d.batch \union RereadBatch(c)
             e == [d EXCEPT !.pc = "cas", !.current = {}, !.batch = b, !.found = f]
  <2>5. f \in BOOLEAN /\ b \subseteq Claim
    BY <1>0, <1>a, <2>3, <2>4, Types DEF Dispatcher
  <2>6. b \subseteq d.batch \union d.current
    BY <2>4
  <2> HIDE DEF f, b
  <2>7. e \in Dispatcher /\ e.candidates = d.candidates /\ e.batch = b /\ e.current = {}
        /\ e.pc = "cas"
    BY <1>a, <2>5 DEF Dispatcher
  <2>8. disp' = [disp EXCEPT ![p] = e]
    BY <2>1 DEF f, b
  <2> HIDE DEF e
  <2>9. e.batch \union e.current \subseteq d.batch \union d.current
    BY <2>6, <2>7
  <2> QED
    BY <1>a, <2>2, <2>7, <2>8, <2>9, LoopInv
<1>5. CASE ClaimsDone(p)
  <2> DEFINE e == [d EXCEPT !.pc = "publish"]
  <2>1. disp' = [disp EXCEPT ![p] = e] /\ UNCHANGED <<seq, outbox, owed, published, late, faults>>
    BY <1>5 DEF ClaimsDone
  <2>2. e \in Dispatcher /\ e.candidates = d.candidates /\ e.batch = d.batch
        /\ e.current = d.current /\ e.pc = "publish"
    BY <1>a DEF Dispatcher
  <2> HIDE DEF e
  <2> QED
    BY <1>a, <2>1, <2>2, LoopInv
<1>6. CASE BatchDone(p)
  <2> DEFINE again == d.wakeAgain \/ d.found
             e == [d EXCEPT !.pc = "settling", !.wakeAgain = again]
  <2>1. /\ disp' = [disp EXCEPT ![p] = Drain(d)] \/ disp' = [disp EXCEPT ![p] = e]
        /\ UNCHANGED <<seq, outbox, owed, published, late, faults>>
    BY <1>6 DEF BatchDone
  <2>2. again \in BOOLEAN
    BY <1>a DEF Dispatcher
  <2> HIDE DEF again
  <2>3. e \in Dispatcher /\ e.candidates = d.candidates /\ e.batch = d.batch
        /\ e.current = d.current /\ e.pc = "settling"
    BY <1>a, <2>2 DEF Dispatcher
  <2> HIDE DEF e
  <2>4. CASE disp' = [disp EXCEPT ![p] = Drain(d)]
    BY <1>a, <2>1, <2>4, WakeKeeps, LoopInv
  <2>5. CASE disp' = [disp EXCEPT ![p] = e]
    BY <1>a, <2>1, <2>3, <2>5, LoopInv
  <2> QED
    BY <2>1, <2>4, <2>5
<1>7. CASE DrainFails(p)
  <2> DEFINE e == [d EXCEPT !.pc = "settling", !.candidates = {}, !.batch = {}, !.current = {}]
  <2>1. disp' = [disp EXCEPT ![p] = e] /\ UNCHANGED <<seq, outbox, owed, published, late>>
        /\ Fault
    BY <1>7 DEF DrainFails
  <2>2. e \in Dispatcher /\ e.candidates = {} /\ e.batch = {} /\ e.current = {}
        /\ e.pc = "settling"
    BY <1>a DEF Dispatcher
  <2> HIDE DEF e
  <2> QED
    BY <1>a, <1>b, <2>1, <2>2, LoopInv
<1>8. CASE Settle(p)
  <2>1. disp' = [disp EXCEPT ![p] = Settled(d)]
        /\ UNCHANGED <<seq, outbox, owed, published, late, faults>>
    BY <1>8 DEF Settle
  <2> QED
    BY <1>a, <2>1, WakeKeeps, LoopInv
<1>9. CASE Stop(p)
  <2> DEFINE e == [d EXCEPT !.stopped = TRUE]
  <2>1. disp' = [disp EXCEPT ![p] = e] /\ UNCHANGED <<seq, outbox, owed, published, late, faults>>
    BY <1>9 DEF Stop
  <2>2. e \in Dispatcher /\ e.candidates = d.candidates /\ e.batch = d.batch
        /\ e.current = d.current /\ e.pc = d.pc
    BY <1>a DEF Dispatcher
  <2> HIDE DEF e
  <2> QED
    BY <1>a, <2>1, <2>2, LoopInv
<1>10. CASE Exit(p) \/ Crash(p)
  <2>1. /\ disp' = [disp EXCEPT ![p] = Down] /\ owed' \subseteq owed
        /\ UNCHANGED <<seq, outbox, published, late>>
        /\ faults' \in 0 .. MaxFaults
    BY <1>a, <1>b, <1>10 DEF Exit, Crash, Gone
  <2> QED
    BY <1>a, <1>c, <2>1, LoopInv
<1> QED
  BY <1>1, <1>2, <1>3, <1>4, <1>5, <1>6, <1>7, <1>8, <1>9, <1>10
-----------------------------------------------------------------------------
(* The rows.                                                               *)

\* What a step may do to a row that is committed.
Advances(k) ==
    /\ outbox'[k] \in Row
    /\ RowShape(outbox'[k])
    /\ outbox'[k].state = "none" <=> outbox[k].state = "none"
    /\ outbox'[k].state = "none" => outbox'[k].attempts = outbox[k].attempts
    /\ Done(k) => Done(k)'
    /\ outbox[k].state = "gone" => outbox'[k].state = "gone"
    /\ outbox[k].attempts <= outbox'[k].attempts
    /\ outbox'[k].state \in {"delivered", "cleaned"} =>
         outbox[k].state \in {"delivered", "cleaned"} \/ k \in published

\* A row that stays as it is advances.
LEMMA SameRow ==
    ASSUME TypeOK, NEW k \in Key, outbox'[k] = outbox[k]
    PROVE  Advances(k)
BY Types DEF Advances, TypeOK, Done

\* A step that moves rows on, with whatever one dispatcher keeps of its claims.
LEMMA WorkInv ==
    ASSUME IInv, outbox' \in [Key -> Row], \A k \in Key : Advances(k),
           disp' \in [Pod -> Dispatcher],
           \A p \in Pod :
              /\ disp'[p].candidates \subseteq disp[p].candidates
              /\ disp'[p].batch \union disp'[p].current
                   \subseteq disp[p].batch \union disp[p].current
              /\ disp'[p].pc = "mark" => \A c \in disp'[p].current : c.key \in published',
           published \subseteq published', published' \subseteq Key,
           \A k \in published' \ published : Clear(k),
           late' \subseteq Key, \A k \in late' \ late : Clear(k),
           faults' \in 0 .. MaxFaults,
           UNCHANGED <<seq, owed>>
    PROVE  IInv'
<1>0. TypeOK
  BY DEF IInv, DeliveredWasPublished
<1>1. TypeOK'
  BY <1>0 DEF TypeOK, Advances
<1>2. Numbered' /\ Fresh'
  BY DEF IInv, Numbered, Fresh, Advances
<1>3. \A k \in Key :
        /\ Done(k) => Done(k)'
        /\ outbox[k].state = "gone" => outbox'[k].state = "gone"
        /\ outbox[k].attempts <= outbox'[k].attempts
        /\ outbox'[k].state \in {"delivered", "cleaned"} =>
             outbox[k].state \in {"delivered", "cleaned"} \/ k \in published
  BY DEF Advances
<1>4. \A p \in Pod : \A c \in Claim : Holds(p, c)' => Holds(p, c)
  BY DEF Holds
<1> QED
  BY <1>1, <1>2, <1>3, <1>4, StepInv

\* The dispatchers stay as they are: what they keep of their claims is all.
LEMMA RowsInv ==
    ASSUME IInv, outbox' \in [Key -> Row], \A k \in Key : Advances(k),
           faults' \in 0 .. MaxFaults,
           UNCHANGED <<seq, disp, owed, published, late>>
    PROVE  IInv'
<1>1. /\ disp \in [Pod -> Dispatcher] /\ published \subseteq Key /\ late \subseteq Key
      /\ \A p \in Pod : disp[p].pc = "mark" => \A c \in disp[p].current : c.key \in published
  BY DEF IInv, DeliveredWasPublished, TypeOK, Working
<1> QED
  BY <1>1, WorkInv

\* Committing a message adds its row.
LEMMA CommitInv ==
    ASSUME IInv, NEW p \in Pod, NEW s \in Session, Commit(p, s)
    PROVE  IInv'
<1>0. TypeOK /\ Numbered
  BY DEF IInv, DeliveredWasPublished
<1> DEFINE k == <<s, seq[s] + 1>>
           r == [NoRow EXCEPT !.state = "pending"]
<1>1. /\ seq[s] < MaxSeq
      /\ seq' = [seq EXCEPT ![s] = seq[s] + 1]
      /\ outbox' = [outbox EXCEPT ![k] = r]
      /\ owed' = owed \union {<<p, k>>}
      /\ UNCHANGED <<disp, published, late, faults>>
  BY DEF Commit
<1>2. seq[s] \in Nat /\ MaxSeq \in Nat /\ seq[s] + 1 \in 1 .. MaxSeq
  BY <1>0, <1>1, OutboxAssumption DEF TypeOK
<1>3. k \in Key
  BY <1>2 DEF Key
<1>4. outbox[k].state = "none"
  BY <1>0, <1>2, <1>3 DEF Numbered
<1>5. r \in Row /\ RowShape(r) /\ r.state = "pending" /\ r.attempts = 0
  <2>1. /\ NoRow \in Row /\ NoRow.attempts = 0 /\ NoRow.token = 0 /\ ~NoRow.lapsed
    BY DEF NoRow, Row
  <2>2. /\ r \in Row /\ r.state = "pending" /\ r.attempts = NoRow.attempts
        /\ r.token = NoRow.token /\ r.lapsed = NoRow.lapsed
    BY <2>1 DEF Row
  <2> HIDE DEF r
  <2> QED
    BY <2>1, <2>2 DEF RowShape
<1>6. outbox[k] \in Row /\ RowShape(outbox[k])
  BY <1>0, <1>3 DEF TypeOK
<1> HIDE DEF r
<1>7. \A j \in Key : outbox'[j] = IF j = k THEN r ELSE outbox[j]
  BY <1>0, <1>1 DEF TypeOK
<1>8. TypeOK'
  BY <1>0, <1>1, <1>2, <1>3, <1>5, <1>7 DEF TypeOK
<1>12. Fresh'
  BY <1>0, <1>5, <1>7 DEF IInv, Fresh
<1>9. Numbered'
  <2> SUFFICES ASSUME NEW j \in Key
               PROVE  outbox'[j].state = "none" <=> j[2] > seq'[j[1]]
    BY DEF Numbered
  <2>1. j[1] \in Session /\ j[2] \in 1 .. MaxSeq /\ j = <<j[1], j[2]>>
    BY DEF Key
  <2>2. CASE j[1] # s
    BY <1>0, <1>1, <1>7, <2>1, <2>2 DEF Numbered, TypeOK
  <2>3. CASE j[1] = s /\ j[2] # seq[s] + 1
    BY <1>0, <1>1, <1>2, <1>7, <2>1, <2>3 DEF Numbered, TypeOK
  <2>4. CASE j = k
    BY <1>0, <1>1, <1>2, <1>5, <1>7, <2>4 DEF TypeOK
  <2> QED
    BY <2>1, <2>2, <2>3, <2>4
<1>10. \A j \in Key :
        /\ Done(j) => Done(j)'
        /\ outbox[j].state = "gone" => outbox'[j].state = "gone"
        /\ outbox[j].attempts <= outbox'[j].attempts
        /\ outbox'[j].state \in {"delivered", "cleaned"} =>
             outbox[j].state \in {"delivered", "cleaned"} \/ j \in published
  <2>1. outbox[k].attempts = 0
    BY <1>0, <1>3, <1>4 DEF IInv, Fresh
  <2> QED
    BY <1>0, <1>4, <1>5, <1>7, <2>1, Types DEF Done
<1>11. \A q \in Pod : \A c \in Claim : Holds(q, c)' => Holds(q, c)
  BY <1>1 DEF Holds
<1> QED
  BY <1>1, <1>8, <1>9, <1>10, <1>11, <1>12, StepInv DEF IInv, Working

\* Deleting a session settles its rows for good.
LEMMA DeleteInv ==
    ASSUME IInv, NEW s \in Session, DeleteSession(s)
    PROVE  IInv'
<1>0. TypeOK /\ Numbered
  BY DEF IInv, DeliveredWasPublished
<1> DEFINE R(k) == [outbox[k] EXCEPT !.state = "gone", !.token = 0, !.lapsed = FALSE]
<1>1. /\ outbox' = [k \in Key |-> IF k[1] = s /\ k[2] <= seq[s] THEN R(k) ELSE outbox[k]]
      /\ UNCHANGED <<seq, disp, owed, published, late, faults>>
  BY Zenon DEF DeleteSession
<1>2. ASSUME NEW k \in Key PROVE Advances(k)
  <2>1. CASE ~(k[1] = s /\ k[2] <= seq[s])
    <3> HIDE DEF R
    <3>1. outbox'[k] = outbox[k]
      BY <1>1, <2>1
    <3> QED
      BY <1>0, <3>1, SameRow
  <2>2. CASE k[1] = s /\ k[2] <= seq[s]
    <3>1. outbox[k] \in Row /\ outbox[k].attempts \in Nat
      BY <1>0, Types
    <3>2. /\ R(k) \in Row /\ R(k).state = "gone" /\ R(k).token = 0 /\ ~R(k).lapsed
          /\ R(k).attempts = outbox[k].attempts
      BY <3>1 DEF Row
    <3> HIDE DEF R
    <3>3. outbox'[k] = R(k)
      BY <1>1, <2>2
    <3>4. outbox[k].state # "none"
      <4>1. seq[k[1]] \in Nat /\ k[2] \in Nat
        BY <1>0 DEF TypeOK, Key
      <4> QED
        BY <1>0, <2>2, <4>1 DEF Numbered
    <3> QED
      BY <3>1, <3>2, <3>3, <3>4 DEF Advances, RowShape, Done
  <2> QED
    BY <2>1, <2>2
<1> HIDE DEF R
<1>3. outbox' \in [Key -> Row]
  BY <1>1, <1>2 DEF Advances
<1> QED
  BY <1>0, <1>1, <1>2, <1>3, RowsInv DEF TypeOK

\* The lease of a claim running out leaves the claim at its row.
LEMMA LeaseRunsOutInv ==
    ASSUME IInv, NEW k \in Key, LeaseRunsOut(k)
    PROVE  IInv'
<1>0. TypeOK /\ outbox[k] \in Row /\ RowShape(outbox[k]) /\ outbox[k].attempts \in Nat
  BY Types DEF IInv, DeliveredWasPublished, TypeOK
<1> DEFINE r == [outbox[k] EXCEPT !.lapsed = TRUE]
<1>1. /\ outbox' = [outbox EXCEPT ![k] = r] /\ outbox[k].token # 0
      /\ UNCHANGED <<seq, disp, owed, published, late>>
  BY DEF LeaseRunsOut
<1>2. faults' \in 0 .. MaxFaults
  BY <1>0, OutboxAssumption DEF LeaseRunsOut, Fault, TypeOK
<1>3. /\ r \in Row /\ r.state = outbox[k].state /\ r.token = outbox[k].token
      /\ r.attempts = outbox[k].attempts
  BY <1>0 DEF Row
<1> HIDE DEF r
<1>4. outbox'[k] = r /\ \A j \in Key : j # k => outbox'[j] = outbox[j]
  BY <1>0, <1>1 DEF TypeOK
<1>5. Advances(k)
  BY <1>0, <1>1, <1>3, <1>4 DEF Advances, RowShape, Done
<1>6. \A j \in Key : Advances(j)
  BY <1>0, <1>4, <1>5, SameRow
<1>7. outbox' \in [Key -> Row]
  BY <1>0, <1>1, <1>3 DEF TypeOK
<1> QED
  BY <1>1, <1>2, <1>6, <1>7, RowsInv

\* A retry becoming due changes nothing else of its row.
LEMMA RetryDueInv ==
    ASSUME IInv, NEW k \in Key, RetryDue(k)
    PROVE  IInv'
<1>0. TypeOK /\ outbox[k] \in Row /\ RowShape(outbox[k]) /\ outbox[k].attempts \in Nat
  BY Types DEF IInv, DeliveredWasPublished, TypeOK
<1> DEFINE r == [outbox[k] EXCEPT !.due = TRUE]
<1>1. /\ outbox' = [outbox EXCEPT ![k] = r]
      /\ UNCHANGED <<seq, disp, owed, published, late, faults>>
  BY DEF RetryDue
<1>2. /\ r \in Row /\ r.state = outbox[k].state /\ r.token = outbox[k].token
      /\ r.attempts = outbox[k].attempts /\ r.lapsed = outbox[k].lapsed
  BY <1>0 DEF Row
<1> HIDE DEF r
<1>3. outbox'[k] = r /\ \A j \in Key : j # k => outbox'[j] = outbox[j]
  BY <1>0, <1>1 DEF TypeOK
<1>4. Advances(k)
  BY <1>0, <1>2, <1>3 DEF Advances, RowShape, Done
<1>5. \A j \in Key : Advances(j)
  BY <1>0, <1>3, <1>4, SameRow
<1>6. outbox' \in [Key -> Row]
  BY <1>0, <1>1, <1>2 DEF TypeOK
<1> QED
  BY <1>0, <1>1, <1>5, <1>6, RowsInv DEF TypeOK

\* Cleaning up removes delivered rows only.
LEMMA CleanupInv ==
    ASSUME IInv, NEW p \in Pod, Cleanup(p)
    PROVE  IInv'
<1>0. TypeOK
  BY DEF IInv, DeliveredWasPublished
<1> DEFINE e == [disp[p] EXCEPT !.pc = "select"]
<1>1. disp' = [disp EXCEPT ![p] = e] /\ UNCHANGED <<seq, owed, published, late, faults>>
  BY DEF Cleanup
<1>2. /\ e \in Dispatcher /\ e.candidates = disp[p].candidates /\ e.batch = disp[p].batch
      /\ e.current = disp[p].current /\ e.pc = "select"
  BY <1>0, Types DEF Dispatcher
<1> HIDE DEF e
<1>3. CASE UNCHANGED outbox
  BY <1>0, <1>1, <1>2, <1>3, LoopInv DEF TypeOK
<1>4. ASSUME NEW old \in SUBSET {k \in Key : outbox[k].state = "delivered"},
             outbox' = [k \in Key |->
               IF k \in old THEN [outbox[k] EXCEPT !.state = "cleaned"] ELSE outbox[k]]
      PROVE  IInv'
  <2>1. ASSUME NEW k \in Key PROVE Advances(k)
    <3>1. CASE k \notin old
      BY <1>0, <1>4, <3>1, SameRow
    <3>2. CASE k \in old
      <4>1. outbox[k] \in Row /\ outbox[k].attempts \in Nat /\ RowShape(outbox[k])
        BY <1>0, Types DEF TypeOK
      <4> DEFINE r == [outbox[k] EXCEPT !.state = "cleaned"]
      <4>2. /\ r \in Row /\ r.state = "cleaned" /\ r.token = outbox[k].token
            /\ r.attempts = outbox[k].attempts /\ r.lapsed = outbox[k].lapsed
        BY <4>1 DEF Row
      <4>3. outbox'[k] = r /\ outbox[k].state = "delivered"
        BY <1>4, <3>2
      <4> HIDE DEF r
      <4> QED
        BY <4>1, <4>2, <4>3 DEF Advances, RowShape, Done
    <3> QED
      BY <3>1, <3>2
  <2>2. outbox' \in [Key -> Row]
    BY <1>4, <2>1 DEF Advances
  <2>3. disp' \in [Pod -> Dispatcher]
    BY <1>0, <1>1, <1>2 DEF TypeOK
  <2>4. \A q \in Pod :
          /\ disp'[q].candidates \subseteq disp[q].candidates
          /\ disp'[q].batch \union disp'[q].current
               \subseteq disp[q].batch \union disp[q].current
          /\ disp'[q].pc = "mark" => \A c \in disp'[q].current : c.key \in published'
    BY <1>0, <1>1, <1>2 DEF TypeOK, IInv, Working
  <2> QED
    BY <1>0, <1>1, <2>1, <2>2, <2>3, <2>4, WorkInv DEF TypeOK
<1> QED
  BY <1>3, <1>4 DEF Cleanup
-----------------------------------------------------------------------------
(* Claiming.                                                               *)

\* The head of a session has nothing to publish before it.
LEMMA HeadIsClear ==
    ASSUME TypeOK, Numbered, NEW k \in Heads
    PROVE  Clear(k)
<1> SUFFICES ASSUME NEW j \in Earlier(k) PROVE Done(j)
  BY DEF Clear
<1>1. k \in Key /\ j \in Key /\ j[1] = k[1] /\ j[2] < k[2]
  BY DEF Heads, Earlier
<1>2. outbox[k].state = "pending" /\ outbox[j].state # "pending"
  BY DEF Heads, Claimable
<1>3. k[2] \in Nat /\ j[2] \in Nat /\ seq[k[1]] \in Nat
  BY <1>1 DEF Key, TypeOK
<1>4. outbox[j].state # "none"
  BY <1>1, <1>2, <1>3 DEF Numbered
<1> QED
  BY <1>1, <1>2, <1>4, Types DEF Done, Row

\* The candidates of claimBatch are heads of their sessions.
LEMMA SelectInv ==
    ASSUME IInv, NEW p \in Pod, Select(p)
    PROVE  IInv'
<1>0. TypeOK /\ Numbered
  BY DEF IInv, DeliveredWasPublished
<1>1. PICK s \in SUBSET Heads :
        disp' = [disp EXCEPT ![p].pc = "cas", ![p].candidates = s]
  BY Zenon DEF Select
<1>2. UNCHANGED <<seq, outbox, owed, published, late, faults>>
  BY DEF Select
<1> DEFINE e == [disp[p] EXCEPT !.pc = "cas", !.candidates = s]
<1>3. s \subseteq Key
  BY DEF Heads
<1>4. /\ e \in Dispatcher /\ e.candidates = s /\ e.batch = disp[p].batch
      /\ e.current = disp[p].current /\ e.pc = "cas"
  BY <1>0, <1>3, Types DEF Dispatcher
<1> HIDE DEF e
<1>5. disp' = [disp EXCEPT ![p] = e] /\ \A q \in Pod : disp'[q] = IF q = p THEN e ELSE disp[q]
  BY <1>0, <1>1 DEF TypeOK, e
<1>6. TypeOK' /\ Numbered' /\ Fresh'
  BY <1>0, <1>2, <1>4, <1>5 DEF TypeOK, Numbered, Fresh, IInv
<1>7. ASSUME NEW q \in Pod
      PROVE  /\ \A k \in disp'[q].candidates \ disp[q].candidates : Clear(k)
             /\ \A c \in Claim : Holds(q, c)' => Holds(q, c)
             /\ disp'[q].pc = "mark" => \A c \in disp'[q].current : c.key \in published'
  <2>1. CASE q = p
    BY <1>0, <1>4, <1>5, <2>1, HeadIsClear DEF Holds
  <2>2. CASE q # p
    BY <1>2, <1>5, <2>2 DEF Holds, IInv, Working
  <2> QED
    BY <2>1, <2>2
<1>8. \A k \in Key : Advances(k)
  BY <1>0, <1>2, SameRow
<1> QED
  BY <1>2, <1>6, <1>7, <1>8, StepInv DEF Advances

\* A claim draws a token nobody has.
LEMMA ClaimCasInv ==
    ASSUME IInv, NEW p \in Pod, ClaimCas(p)
    PROVE  IInv'
<1>0. TypeOK
  BY DEF IInv, DeliveredWasPublished
<1>a. /\ disp[p] \in Dispatcher /\ disp[p].candidates \subseteq Key
      /\ disp[p].batch \subseteq Claim
  BY <1>0, Types
<1>b. UNCHANGED <<seq, owed, published, late, faults>>
  BY DEF ClaimCas
<1>1. ASSUME NEW k \in disp[p].candidates, ~Claimable(k), UNCHANGED outbox,
             disp' = [disp EXCEPT ![p].candidates = disp[p].candidates \ {k}]
      PROVE  IInv'
  <2> DEFINE e == [disp[p] EXCEPT !.candidates = disp[p].candidates \ {k}]
  <2>1. disp' = [disp EXCEPT ![p] = e]
    BY <1>1
  <2>2. /\ e \in Dispatcher /\ e.candidates = disp[p].candidates \ {k}
        /\ e.batch = disp[p].batch /\ e.current = disp[p].current /\ e.pc = disp[p].pc
    BY <1>a DEF Dispatcher
  <2> HIDE DEF e
  <2> QED
    BY <1>0, <1>1, <1>b, <2>1, <2>2, LoopInv DEF TypeOK
<1>2. ASSUME NEW k \in disp[p].candidates, Claimable(k),
             outbox' = [outbox EXCEPT ![k] = [outbox[k] EXCEPT
                 !.attempts = outbox[k].attempts + 1,
                 !.token = outbox[k].attempts + 1, !.lapsed = FALSE]],
             disp' = [disp EXCEPT ![p] = [disp[p] EXCEPT
                 !.pc = "reread",
                 !.candidates = disp[p].candidates \ {k},
                 !.current = {[key |-> k, token |-> outbox[k].attempts + 1]}]]
      PROVE  IInv'
  <2>0. PICK n \in Nat : n = outbox[k].attempts + 1
    BY <1>0, <1>a, Types
  <2> DEFINE r == [outbox[k] EXCEPT !.attempts = n, !.token = n, !.lapsed = FALSE]
             c0 == [key |-> k, token |-> n]
             e == [disp[p] EXCEPT !.pc = "reread",
                     !.candidates = disp[p].candidates \ {k}, !.current = {c0}]
  <2>1. k \in Key /\ outbox[k] \in Row /\ outbox[k].attempts \in Nat
    BY <1>0, <1>a, Types
  <2>2. n \in Nat /\ outbox[k].attempts < n /\ n # 0
    BY <2>0, <2>1
  <2>3. outbox' = [outbox EXCEPT ![k] = r]
    BY <1>2, <2>0, Zenon
  <2>4. disp' = [disp EXCEPT ![p] = e]
    BY <1>2, <2>0, Zenon
  <2>5. /\ r \in Row /\ r.state = outbox[k].state /\ r.token = n /\ r.attempts = n
        /\ ~r.lapsed
    BY <2>1, <2>2 DEF Row
  <2>6. c0 \in Claim /\ c0.key = k /\ c0.token = n
    BY <2>1, <2>2 DEF Claim
  <2> HIDE DEF r, c0
  <2>7. /\ e \in Dispatcher /\ e.candidates = disp[p].candidates \ {k}
        /\ e.batch = disp[p].batch /\ e.current = {c0} /\ e.pc = "reread"
    BY <1>a, <2>6 DEF Dispatcher
  <2> HIDE DEF e
  <2>8. outbox'[k] = r /\ \A j \in Key : j # k => outbox'[j] = outbox[j]
    BY <1>0, <2>1, <2>3 DEF TypeOK
  <2>9. \A q \in Pod : disp'[q] = IF q = p THEN e ELSE disp[q]
    BY <1>0, <2>4 DEF TypeOK
  <2>10. \A j \in Key : Advances(j)
    <3>1. outbox[k].state = "pending"
      BY <1>2 DEF Claimable
    <3>2. Advances(k)
      BY <2>1, <2>2, <2>5, <2>8, <3>1 DEF Advances, RowShape, Done
    <3> QED
      BY <1>0, <2>8, <3>2, SameRow
  <2>11. TypeOK' /\ Numbered' /\ Fresh'
    <3>1. outbox' \in [Key -> Row] /\ disp' \in [Pod -> Dispatcher]
      BY <1>0, <2>3, <2>4, <2>5, <2>7 DEF TypeOK
    <3>2. TypeOK'
      BY <1>0, <1>b, <2>10, <3>1 DEF TypeOK, Advances
    <3>3. Numbered' /\ Fresh'
      BY <1>b, <2>10 DEF IInv, Numbered, Fresh, Advances
    <3> QED
      BY <3>2, <3>3
  <2>12. Clear(k)
    BY DEF IInv, Working
  <2>13. \A q \in Pod : ~Holds(q, c0)
    <3> SUFFICES ASSUME NEW q \in Pod, Holds(q, c0) PROVE FALSE
      OBVIOUS
    <3>1. c0.token <= outbox[c0.key].attempts
      BY <2>6 DEF IInv, Working
    <3> QED
      BY <2>1, <2>2, <2>6, <3>1
  <2>14. ASSUME NEW q \in Pod
         PROVE  /\ disp'[q].candidates \subseteq disp[q].candidates
                /\ \A c \in Claim : Holds(q, c)' => Holds(q, c) \/ (q = p /\ c = c0)
                /\ disp'[q].pc = "mark" => \A c \in disp'[q].current : c.key \in published'
    <3>1. CASE q = p
      BY <2>7, <2>9, <3>1 DEF Holds
    <3>2. CASE q # p
      BY <1>b, <2>9, <3>2 DEF Holds, IInv, Working
    <3> QED
      BY <3>1, <3>2
  <2>15. ASSUME NEW q \in Pod, NEW c \in Claim, Holds(q, c)', ~Holds(q, c)
         PROVE  /\ Clear(c.key)
                /\ outbox[c.key].attempts < c.token
                /\ c.token <= outbox'[c.key].attempts
                /\ \A o \in Pod : o # q => ~Holds(o, c)'
    <3>1. q = p /\ c = c0
      <4>1. Holds(q, c)' => Holds(q, c) \/ (q = p /\ c = c0)
        BY <2>14
      <4> QED
        BY <2>15, <4>1
    <3>2. ASSUME NEW o \in Pod, o # p PROVE ~Holds(o, c0)'
      <4>1. Holds(o, c0)' => Holds(o, c0)
        BY <2>6, <2>14, <3>2
      <4> QED
        BY <2>13, <3>2, <4>1
    <3> QED
      BY <2>2, <2>5, <2>6, <2>8, <2>12, <3>1, <3>2
  <2> QED
    BY <1>b, <2>10, <2>11, <2>14, <2>15, StepInv DEF Advances
<1> QED
  BY <1>1, <1>2, Zenon DEF ClaimCas
-----------------------------------------------------------------------------
(* Publishing and marking.                                                 *)

\* Taking a claim from the batch takes up nothing new.
LEMMA TakeKeeps ==
    ASSUME TypeOK, NEW p \in Pod, NEW c \in disp[p].batch, NEW pc \in {"mark", "fail"},
           Take(p, c, pc)
    PROVE  /\ disp' \in [Pod -> Dispatcher]
           /\ disp'[p].current = {c} /\ disp'[p].pc = pc
           /\ \A q \in Pod : q # p => disp'[q] = disp[q]
           /\ \A q \in Pod :
                /\ disp'[q].candidates \subseteq disp[q].candidates
                /\ disp'[q].batch \union disp'[q].current
                     \subseteq disp[q].batch \union disp[q].current
<1> DEFINE e == [disp[p] EXCEPT !.pc = pc, !.batch = disp[p].batch \ {c}, !.current = {c}]
<1>1. disp' = [disp EXCEPT ![p] = e]
  BY DEF Take
<1>2. disp[p] \in Dispatcher /\ c \in Claim
  BY Types
<1>3. /\ e \in Dispatcher /\ e.candidates = disp[p].candidates
      /\ e.batch = disp[p].batch \ {c} /\ e.current = {c} /\ e.pc = pc
  BY <1>2 DEF Dispatcher
<1> HIDE DEF e
<1>4. \A q \in Pod : disp'[q] = IF q = p THEN e ELSE disp[q]
  BY <1>1 DEF TypeOK
<1>5. disp' \in [Pod -> Dispatcher]
  BY <1>1, <1>3 DEF TypeOK
<1> QED
  BY <1>3, <1>4, <1>5

\* What a dispatcher holds is in order.
LEMMA HeldIsClear ==
    ASSUME IInv, NEW p \in Pod, NEW c \in disp[p].batch \union disp[p].current
    PROVE  c \in Claim /\ c.key \in Key /\ Clear(c.key)
<1>1. c \in Claim
  BY Types DEF IInv, DeliveredWasPublished
<1> QED
  BY <1>1 DEF IInv, Working, Holds, Claim

\* Publishing, at once or late, keeps the order.
LEMMA PublishInv ==
    ASSUME IInv,
           \/ \E p \in Pod : Publish(p) \/ PublishFails(p)
           \/ LatePublish \/ LoseLate
    PROVE  IInv'
<1>0. TypeOK
  BY DEF IInv, DeliveredWasPublished
<1>a. /\ outbox \in [Key -> Row] /\ published \subseteq Key /\ late \subseteq Key
      /\ faults \in 0 .. MaxFaults /\ MaxFaults \in Nat
      /\ disp \in [Pod -> Dispatcher]
  BY <1>0, OutboxAssumption DEF TypeOK
<1>b. UNCHANGED outbox => \A k \in Key : Advances(k)
  BY <1>0, SameRow
<1>c. \A q \in Pod : disp[q].pc = "mark" => \A c \in disp[q].current : c.key \in published
  BY DEF IInv, Working
<1>1. ASSUME NEW p \in Pod, Publish(p) PROVE IInv'
  <2>1. PICK c \in disp[p].batch : Take(p, c, "mark") /\ published' = published \union {c.key}
    BY <1>1 DEF Publish
  <2>2. UNCHANGED <<seq, outbox, owed, late, faults>>
    BY <1>1 DEF Publish
  <2>3. c.key \in Key /\ Clear(c.key)
    BY HeldIsClear
  <2>4. \A q \in Pod : disp'[q].pc = "mark" => \A d \in disp'[q].current : d.key \in published'
    BY <1>0, <1>c, <2>1, TakeKeeps
  <2> QED
    BY <1>0, <1>a, <1>b, <2>1, <2>2, <2>3, <2>4, TakeKeeps, WorkInv
<1>2. ASSUME NEW p \in Pod, PublishFails(p) PROVE IInv'
  <2>1. PICK c \in disp[p].batch :
          Take(p, c, "fail") /\ late' \in {late, late \union {c.key}}
    BY <1>2 DEF PublishFails
  <2>2. UNCHANGED <<seq, outbox, owed, published>> /\ Fault
    BY <1>2 DEF PublishFails
  <2>3. c.key \in Key /\ Clear(c.key)
    BY HeldIsClear
  <2>4. \A q \in Pod : disp'[q].pc = "mark" => \A d \in disp'[q].current : d.key \in published'
    BY <1>0, <1>c, <2>1, <2>2, TakeKeeps
  <2>5. faults' \in 0 .. MaxFaults
    BY <1>a, <2>2 DEF Fault
  <2> QED
    BY <1>0, <1>a, <1>b, <2>1, <2>2, <2>3, <2>4, <2>5, TakeKeeps, WorkInv
<1>3. CASE LatePublish \/ LoseLate
  <2>1. /\ late' \subseteq late /\ published \subseteq published'
        /\ published' \subseteq published \union late
        /\ UNCHANGED <<seq, outbox, disp, owed, faults>>
    BY <1>3 DEF LatePublish, LoseLate
  <2>2. \A k \in late : Clear(k)
    BY DEF IInv, LateInOrder
  <2> QED
    BY <1>a, <1>b, <1>c, <2>1, <2>2, WorkInv
<1> QED
  BY <1>1, <1>2, <1>3

\* The claim of a dispatcher is over.
LEMMA ReleaseKeeps ==
    ASSUME IInv, NEW p \in Pod, NEW pc \in {"publish", "fail"},
           NEW s \in {{}, disp[p].current},
           disp' = [disp EXCEPT ![p].pc = pc, ![p].current = s],
           published' = published
    PROVE  /\ disp' \in [Pod -> Dispatcher]
           /\ \A q \in Pod :
                /\ disp'[q].candidates \subseteq disp[q].candidates
                /\ disp'[q].batch \union disp'[q].current
                     \subseteq disp[q].batch \union disp[q].current
                /\ disp'[q].pc = "mark" => \A c \in disp'[q].current : c.key \in published'
<1>0. TypeOK
  BY DEF IInv, DeliveredWasPublished
<1> DEFINE e == [disp[p] EXCEPT !.pc = pc, !.current = s]
<1>1. disp' = [disp EXCEPT ![p] = e]
  BY <1>0 DEF TypeOK
<1>2. disp[p] \in Dispatcher /\ s \subseteq Claim
  BY <1>0, Types
<1>3. /\ e \in Dispatcher /\ e.candidates = disp[p].candidates
      /\ e.batch = disp[p].batch /\ e.current = s /\ e.pc = pc
  BY <1>2 DEF Dispatcher
<1> HIDE DEF e
<1>4. \A q \in Pod : disp'[q] = IF q = p THEN e ELSE disp[q]
  BY <1>0, <1>1 DEF TypeOK
<1>5. disp' \in [Pod -> Dispatcher]
  BY <1>0, <1>1, <1>3 DEF TypeOK
<1>6. \A q \in Pod : disp[q].pc = "mark" => \A c \in disp[q].current : c.key \in published
  BY DEF IInv, Working
<1> QED
  BY <1>3, <1>4, <1>5, <1>6

\* Marking a published row advances it, and no other.
LEMMA SetDeliveredAdvances ==
    ASSUME TypeOK, NEW c \in Claim, c.key \in published, SetDelivered(c)
    PROVE  outbox' \in [Key -> Row] /\ \A k \in Key : Advances(k)
<1>1. CASE ~Owned(c)
  BY <1>1, SameRow DEF SetDelivered, TypeOK
<1>2. CASE Owned(c)
  <2> DEFINE r == DeliveredRow(outbox[c.key])
  <2>1. c.key \in Key /\ outbox[c.key] \in Row /\ outbox[c.key].attempts \in Nat
    BY Types DEF Claim
  <2>2. outbox' = [outbox EXCEPT ![c.key] = r]
    BY <1>2 DEF SetDelivered
  <2>3. /\ r \in Row /\ r.state = "delivered" /\ r.token = 0 /\ ~r.lapsed
        /\ r.attempts = outbox[c.key].attempts
    BY <2>1 DEF DeliveredRow, Row
  <2> HIDE DEF r
  <2>4. outbox'[c.key] = r /\ \A j \in Key : j # c.key => outbox'[j] = outbox[j]
    BY <2>1, <2>2 DEF TypeOK
  <2>5. Advances(c.key)
    BY <1>2, <2>1, <2>3, <2>4 DEF Advances, RowShape, Done, Owned
  <2>6. outbox' \in [Key -> Row]
    BY <2>2, <2>3 DEF TypeOK
  <2> QED
    BY <2>4, <2>5, <2>6, SameRow
<1> QED
  BY <1>1, <1>2

\* Marking delivered, with or without an error, keeps the invariant.
LEMMA MarkDeliveredInv ==
    ASSUME IInv, NEW p \in Pod, MarkDelivered(p) \/ MarkDeliveredThrows(p)
    PROVE  IInv'
<1>0. TypeOK
  BY DEF IInv, DeliveredWasPublished
<1>1. PICK c \in disp[p].current : SetDelivered(c) \/ UNCHANGED outbox
  BY DEF MarkDelivered, MarkDeliveredThrows
<1>2. c \in Claim /\ c.key \in published
  BY <1>0, Types DEF IInv, Working, MarkDelivered, MarkDeliveredThrows
<1>3. outbox' \in [Key -> Row] /\ \A k \in Key : Advances(k)
  BY <1>0, <1>1, <1>2, SetDeliveredAdvances, SameRow DEF TypeOK
<1>4. UNCHANGED <<seq, owed, published, late>>
  BY DEF MarkDelivered, MarkDeliveredThrows
<1>5. faults' \in 0 .. MaxFaults
  BY <1>0, OutboxAssumption DEF MarkDelivered, MarkDeliveredThrows, Fault, TypeOK
<1>6. \/ disp' = [disp EXCEPT ![p].pc = "publish", ![p].current = {}]
      \/ disp' = [disp EXCEPT ![p].pc = "fail", ![p].current = disp[p].current]
  <2>1. CASE MarkDelivered(p)
    BY <2>1, Zenon DEF MarkDelivered
  <2>2. CASE MarkDeliveredThrows(p)
    <3>1. disp' = [disp EXCEPT ![p] = [disp[p] EXCEPT !.pc = "fail"]]
      BY <2>2 DEF MarkDeliveredThrows
    <3>2. [disp[p] EXCEPT !.pc = "fail"]
            = [disp[p] EXCEPT !.pc = "fail", !.current = disp[p].current]
      BY <1>0, Types DEF Dispatcher
    <3> QED
      BY <3>1, <3>2
  <2> QED
    BY <2>1, <2>2
<1>7. late \subseteq Key /\ published \subseteq Key
  BY <1>0 DEF TypeOK
<1> QED
  BY <1>3, <1>4, <1>5, <1>6, <1>7, ReleaseKeeps, WorkInv

\* Releasing a claim leaves the row pending.
LEMMA MarkFailedInv ==
    ASSUME IInv, NEW p \in Pod, MarkFailed(p)
    PROVE  IInv'
<1>0. TypeOK
  BY DEF IInv, DeliveredWasPublished
<1> DEFINE R(k) == [outbox[k] EXCEPT !.token = 0, !.lapsed = FALSE, !.due = FALSE]
<1>1. PICK c \in disp[p].current :
        outbox' = IF Owned(c) THEN [outbox EXCEPT ![c.key] = R(c.key)] ELSE outbox
  BY Zenon DEF MarkFailed
<1>2. /\ disp' = [disp EXCEPT ![p].pc = "publish", ![p].current = {}]
      /\ UNCHANGED <<seq, owed, published, late, faults>>
  BY Zenon DEF MarkFailed
<1>3. c \in Claim /\ c.key \in Key /\ outbox[c.key] \in Row /\ outbox[c.key].attempts \in Nat
  BY <1>0, Types DEF Claim
<1>4. /\ R(c.key) \in Row /\ R(c.key).state = outbox[c.key].state /\ R(c.key).token = 0
      /\ ~R(c.key).lapsed /\ R(c.key).attempts = outbox[c.key].attempts
  BY <1>3 DEF Row
<1> HIDE DEF R
<1>5. outbox' \in [Key -> Row] /\ \A k \in Key : Advances(k)
  <2>1. CASE ~Owned(c)
    BY <1>0, <1>1, <2>1, SameRow DEF TypeOK
  <2>2. CASE Owned(c)
    <3>1. outbox'[c.key] = R(c.key) /\ \A j \in Key : j # c.key => outbox'[j] = outbox[j]
      BY <1>0, <1>1, <1>3, <2>2 DEF TypeOK
    <3>2. Advances(c.key)
      BY <1>3, <1>4, <3>1 DEF Advances, RowShape, Done
    <3>3. outbox' \in [Key -> Row]
      BY <1>0, <1>1, <1>4, <2>2 DEF TypeOK
    <3> QED
      BY <1>0, <3>1, <3>2, <3>3, SameRow
  <2> QED
    BY <2>1, <2>2
<1>6. late \subseteq Key /\ published \subseteq Key /\ faults \in 0 .. MaxFaults
  BY <1>0 DEF TypeOK
<1> QED
  BY <1>2, <1>5, <1>6, ReleaseKeeps, WorkInv
-----------------------------------------------------------------------------
\* Every step keeps the invariant.
LEMMA NextInv == IInv /\ [Next]_vars => IInv'
<1> SUFFICES ASSUME IInv, [Next]_vars PROVE IInv'
  OBVIOUS
<1>0. TypeOK
  BY DEF IInv, DeliveredWasPublished
<1>1. ASSUME NEW p \in Pod, Step(p) PROVE IInv'
  BY <1>1, CleanupInv, SelectInv, ClaimCasInv, DispatcherInv, PublishInv, MarkDeliveredInv,
     MarkFailedInv DEF Step
<1>2. ASSUME NEW p \in Pod,
             \/ HandlerWake(p) \/ Start(p) \/ Poll(p) \/ Stop(p) \/ Exit(p) \/ Crash(p)
             \/ PublishFails(p) \/ MarkDeliveredThrows(p) \/ DrainFails(p)
      PROVE  IInv'
  BY <1>2, DispatcherInv, PublishInv, MarkDeliveredInv
<1>3. CASE UNCHANGED vars
  <2>1. UNCHANGED <<seq, outbox, disp, owed, published, late, faults>>
    BY <1>3 DEF vars
  <2> QED
    BY <1>0, <2>1, SameRow, RowsInv DEF TypeOK
<1> QED
  BY <1>1, <1>2, <1>3, CommitInv, DeleteInv, LeaseRunsOutInv, RetryDueInv, PublishInv DEF Next

\* The inductive invariant holds in every reachable state.
THEOREM Invariance == Spec => []IInv
BY InitInv, NextInv, PTL DEF Spec
-----------------------------------------------------------------------------
(***************************************************************************)
(* At least once, for every number of pods, messages and faults: a row is  *)
(* marked delivered or cleaned up only after its message reached Redis.    *)
(***************************************************************************)
THEOREM DeliveredHolds == Spec => []DeliveredWasPublished
<1>1. IInv => DeliveredWasPublished
  BY DEF IInv
<1> QED
  BY <1>1, Invariance, PTL

(***************************************************************************)
(* Per-session order, for every batch size and every overlap of batches,   *)
(* lapsed claims and late commands: no message is published before an      *)
(* earlier one of its session.                                             *)
(***************************************************************************)
THEOREM OrderHolds == Spec => []PublishedInOrder
<1>1. IInv => PublishedInOrder
  BY DEF IInv
<1> QED
  BY <1>1, Invariance, PTL

\* Only a pod that holds a claim ends it, and it moves on in doing so.
LEMMA MarkEndsOwn ==
    ASSUME IInv, NEW q \in Pod, MarkDelivered(q) \/ MarkDeliveredThrows(q) \/ MarkFailed(q),
           NEW k \in Key, outbox'[k].token # outbox[k].token
    PROVE  Holds(q, [key |-> k, token |-> outbox[k].token]) /\ disp'[q] # disp[q]
<1>0. TypeOK
  BY DEF IInv, DeliveredWasPublished
<1>1. outbox' # outbox /\ disp[q] \in Dispatcher
  BY <1>0, Types
<1>2. PICK c \in disp[q].current : Owned(c) /\ \A j \in Key : j # c.key => outbox'[j] = outbox[j]
  <2>1. CASE MarkFailed(q)
    <3> DEFINE R(j) == [outbox[j] EXCEPT !.token = 0, !.lapsed = FALSE, !.due = FALSE]
    <3>1. PICK c \in disp[q].current :
            outbox' = IF Owned(c) THEN [outbox EXCEPT ![c.key] = R(c.key)] ELSE outbox
      BY <2>1, Zenon DEF MarkFailed
    <3> HIDE DEF R
    <3> QED
      BY <1>0, <1>1, <3>1 DEF TypeOK
  <2>2. CASE MarkDelivered(q) \/ MarkDeliveredThrows(q)
    <3>1. PICK c \in disp[q].current : SetDelivered(c)
      BY <1>1, <2>2 DEF MarkDelivered, MarkDeliveredThrows
    <3> QED
      BY <1>0, <1>1, <3>1 DEF SetDelivered, TypeOK
  <2> QED
    BY <2>1, <2>2
<1>3. c \in Claim /\ c.key = k /\ c.token = outbox[k].token
  BY <1>0, <1>2, Types DEF Owned
<1>4. c = [key |-> k, token |-> outbox[k].token]
  BY <1>3 DEF Claim
<1>5. disp'[q].pc # disp[q].pc
  <2>1. CASE MarkDeliveredThrows(q)
    <3>1. disp' = [disp EXCEPT ![q] = [disp[q] EXCEPT !.pc = "fail"]] /\ disp[q].pc = "mark"
      BY <2>1 DEF MarkDeliveredThrows
    <3> QED
      BY <1>0, <1>1, <3>1 DEF TypeOK, Dispatcher
  <2>2. CASE MarkDelivered(q) \/ MarkFailed(q)
    <3>0. /\ disp' = [disp EXCEPT ![q].pc = "publish", ![q].current = {}]
          /\ disp[q].pc \in {"mark", "fail"}
      BY <2>2, Zenon DEF MarkDelivered, MarkFailed
    <3>1. /\ disp' = [disp EXCEPT ![q] = [disp[q] EXCEPT !.pc = "publish", !.current = {}]]
          /\ disp[q].pc # "publish"
      BY <3>0
    <3> QED
      BY <1>0, <1>1, <3>1 DEF TypeOK, Dispatcher
  <2> QED
    BY <2>1, <2>2
<1> QED
  BY <1>4, <1>5 DEF Holds

(***************************************************************************)
(* Mutual exclusion on claims: while its lease runs, a claim is ended by   *)
(* the pod that holds it and by nobody else, unless the session goes.      *)
(***************************************************************************)
THEOREM ClaimHeldHolds == Spec => ClaimHeld
<1> DEFINE Held ==
      \A p \in Pod : \A k \in Key :
         LET c == [key |-> k, token |-> outbox[k].token]
         IN  /\ c.token # 0
             /\ ~outbox[k].lapsed
             /\ Holds(p, c)
             /\ outbox'[k].token # c.token
             => disp'[p] # disp[p] \/ outbox'[k].state = "gone"
<1>1. IInv /\ [Next]_vars => [Held]_vars
  <2> SUFFICES ASSUME IInv, Next, NEW p \in Pod, NEW k \in Key,
                      outbox[k].token # 0, ~outbox[k].lapsed,
                      Holds(p, [key |-> k, token |-> outbox[k].token]),
                      outbox'[k].token # outbox[k].token
               PROVE  disp'[p] # disp[p] \/ outbox'[k].state = "gone"
    BY Zenon
  <2>0. TypeOK
    BY DEF IInv, DeliveredWasPublished
  <2>a. outbox' # outbox /\ outbox[k] \in Row /\ outbox[k].state = "pending"
        /\ [key |-> k, token |-> outbox[k].token] \in Claim
    BY <2>0, Types DEF TypeOK, RowShape, Row, Claim
  <2>1. ASSUME NEW q \in Pod, MarkDelivered(q) \/ MarkDeliveredThrows(q) \/ MarkFailed(q)
        PROVE  disp'[p] # disp[p]
    <3>1. Holds(q, [key |-> k, token |-> outbox[k].token]) /\ disp'[q] # disp[q]
      BY <2>1, MarkEndsOwn
    <3>2. p = q
      BY <2>a, <3>1 DEF IInv, OneHolder
    <3> QED
      BY <3>1, <3>2
  <2>2. ASSUME NEW q \in Pod PROVE ~ClaimCas(q)
    <3> SUFFICES ASSUME ClaimCas(q) PROVE FALSE
      OBVIOUS
    <3>1. PICK j \in disp[q].candidates :
            /\ Claimable(j)
            /\ \E r : outbox' = [outbox EXCEPT ![j] = r]
      BY <2>a, Zenon DEF ClaimCas
    <3>2. j = k
      BY <2>0, <3>1 DEF TypeOK
    <3> QED
      BY <3>1, <3>2 DEF Claimable
  <2>3. ASSUME NEW q \in Pod PROVE ~Cleanup(q)
    <3> SUFFICES ASSUME Cleanup(q) PROVE FALSE
      OBVIOUS
    <3>1. PICK old \in SUBSET {j \in Key : outbox[j].state = "delivered"} :
            outbox' = [j \in Key |->
              IF j \in old THEN [outbox[j] EXCEPT !.state = "cleaned"] ELSE outbox[j]]
      BY <2>a DEF Cleanup
    <3>2. k \notin old
      BY <2>a
    <3> QED
      BY <3>1, <3>2
  <2>4. ASSUME NEW q \in Pod, NEW s \in Session PROVE ~Commit(q, s)
    <3> SUFFICES ASSUME Commit(q, s) PROVE FALSE
      OBVIOUS
    <3> DEFINE j == <<s, seq[s] + 1>>
    <3>1. outbox' = [outbox EXCEPT ![j] = [NoRow EXCEPT !.state = "pending"]]
          /\ seq[s] \in Nat /\ seq[s] < MaxSeq
      BY <2>0 DEF Commit, TypeOK
    <3>2. k = j
      BY <2>0, <3>1 DEF TypeOK
    <3>3. outbox[k].state = "none"
      BY <3>1, <3>2 DEF IInv, Numbered
    <3> QED
      BY <2>a, <3>3
  <2>5. ASSUME NEW s \in Session, DeleteSession(s) PROVE outbox'[k].state = "gone"
    <3> DEFINE R(j) == [outbox[j] EXCEPT !.state = "gone", !.token = 0, !.lapsed = FALSE]
    <3>1. outbox' = [j \in Key |-> IF j[1] = s /\ j[2] <= seq[s] THEN R(j) ELSE outbox[j]]
      BY <2>5, Zenon DEF DeleteSession
    <3>2. R(k).state = "gone"
      BY <2>a DEF Row
    <3> HIDE DEF R
    <3> QED
      BY <3>1, <3>2
  <2>6. ASSUME NEW j \in Key PROVE ~LeaseRunsOut(j) /\ ~RetryDue(j)
    <3>1. \A r : outbox' = [outbox EXCEPT ![j] = r] => j = k /\ outbox'[k] = r
      BY <2>0 DEF TypeOK
    <3>2. /\ [outbox[k] EXCEPT !.lapsed = TRUE].token = outbox[k].token
          /\ [outbox[k] EXCEPT !.due = TRUE].token = outbox[k].token
      BY <2>a DEF Row
    <3>3. ~LeaseRunsOut(j)
      BY <3>1, <3>2 DEF LeaseRunsOut
    <3>4. ~RetryDue(j)
      BY <3>1, <3>2 DEF RetryDue
    <3> QED
      BY <3>3, <3>4
  <2>7. ~LatePublish /\ ~LoseLate
    BY <2>a DEF LatePublish, LoseLate
  <2>8. ASSUME NEW q \in Pod
        PROVE  /\ ~Select(q) /\ ~ClaimRead(q) /\ ~ClaimsDone(q) /\ ~Publish(q)
               /\ ~BatchDone(q) /\ ~Settle(q) /\ ~HandlerWake(q) /\ ~Start(q) /\ ~Poll(q)
               /\ ~Stop(q) /\ ~Exit(q) /\ ~Crash(q) /\ ~PublishFails(q) /\ ~DrainFails(q)
    BY <2>a, Zenon DEF Select, ClaimRead, ClaimsDone, Publish, BatchDone, Settle, HandlerWake,
       Start, Poll, Stop, Exit, Crash, Gone, PublishFails, DrainFails
  <2> QED
    BY <2>1, <2>2, <2>3, <2>4, <2>5, <2>6, <2>7, <2>8 DEF Next, Step
<1> QED
  BY <1>1, Invariance, PTL DEF Spec, ClaimHeld
=============================================================================
