-------------------------- MODULE VersionedWriteProofs --------------------------
(***************************************************************************)
(* Proofs about VersionedWrite, for any clients and parts and any number   *)
(* of requests and incarnations.  The HTTP artifact update compares no     *)
(* versions, so the theorems are about the other handlers: the hypothesis  *)
(* is "artifactHttp" \notin Handler.                                       *)
(***************************************************************************)
EXTENDS VersionedWrite, FiniteSetTheorems, TLAPS

-----------------------------------------------------------------------------
(* The inductive invariant, in the parts the theorems need.                *)

InFlight == UNION {req[c] : c \in Client}

\* A request that has written: its cells are made, though not yet announced.
Applied(q) == q.pc \in {"alloc", "emit"}

\* The cells anybody was told of, may be told of, or will be.
Known ==
    told \union CellsOf(row) \union UNION {Announced(q) : q \in {q \in InFlight : Applied(q)}}

\* A request is based on cells its client was told of, one for each part.
Requests ==
    \A c \in Client : \A q \in req[c] :
        /\ q.handler \in handlers
        /\ q.op = "update" <=> q.base # {}
        /\ q.base \subseteq told
        /\ \A d, e \in q.base : d.part = e.part => d = e
        /\ q.pc = "lost" => q.op = "update"
        /\ Applied(q) => q.born # 0

\* No two requests make the same version, and the row has the newest one of
\* its incarnation.
History ==
    /\ Known \subseteq Cell
    /\ \A d, e \in Known :
         d.part = e.part /\ d.born = e.born /\ d.version = e.version => d = e
    /\ \A d \in Known :
         /\ d.born <= row.born
         /\ d.born = row.born => d.version <= row.cell[d.part].version

\* The number of an update is drawn once.
Numbered ==
    /\ \A u \in updates : u.seq <= account
    /\ \A u, v \in updates : u.seq = v.seq => u = v
    /\ \A c \in Client : \A q \in req[c] : q.pc = "emit" =>
         /\ q.updSeq \in 1 .. account
         /\ \A u \in updates : u.seq # q.updSeq
         /\ \A e \in Client : \A r \in req[e] :
              r.pc = "emit" /\ r.updSeq = q.updSeq => e = c

\* The object has moved on from what the request is based on.
Stale(q) ==
    \E d \in q.base : d.born < row.born \/ d.version < row.cell[d.part].version

SessionHandlers == {"sessionUser", "sessionRuntime"}

\* A race lost stays lost.
LostForGood ==
    \A c \in Client : \A q \in req[c] :
        q.pc = "lost" /\ handlers \intersect SessionHandlers = {}
        => ~row.alive \/ Stale(q)

\* The clients whose request may still write, or draw a number.
Unwritten == {c \in Client : \E q \in req[c] : ~Applied(q)}
Unnumbered == {c \in Client : \E q \in req[c] : q.pc # "emit"}

\* A request counts at most once: in a version, in the row's seq, and in the
\* account's.
Counted ==
    /\ IsFiniteSet(Unwritten) /\ IsFiniteSet(Unnumbered)
    /\ account + Cardinality(Unnumbered) <= issued
    /\ row.seq + Cardinality(Unwritten) <= issued
    /\ \A c \in Client : \A q \in req[c] : q.seq + Cardinality(Unwritten) <= issued
    /\ \A d \in Known : d.version + Cardinality(Unwritten) <= issued + 1

IInv ==
    /\ TypeOK
    /\ "artifactHttp" \notin handlers
    /\ Requests
    /\ History
    /\ Numbered
    /\ LostForGood
    /\ Counted
    /\ MismatchIsNews
-----------------------------------------------------------------------------
(* Facts about the parts of the invariant.                                 *)

\* Membership in Known, spelled out.
LEMMA KnownIff ==
    /\ \A d : d \in Known <=>
         \/ d \in told \/ d \in CellsOf(row)
         \/ \E c \in Client : \E q \in req[c] : Applied(q) /\ d \in Announced(q)
    /\ \A d : d \in Known' <=>
         \/ d \in told' \/ d \in CellsOf(row')
         \/ \E c \in Client : \E q \in req'[c] : Applied(q) /\ d \in Announced(q)
BY DEF Known, InFlight

\* The types of the row, of requests and of cells.
LEMMA Types ==
    ASSUME TypeOK
    PROVE  /\ row.born \in Nat /\ row.seq \in Nat /\ account \in Nat /\ issued \in Nat
           /\ row.born \in 1 .. MaxBorn /\ row.alive \in BOOLEAN
           /\ row = [alive |-> row.alive, born |-> row.born, seq |-> row.seq,
                     cell |-> row.cell]
           /\ row.cell \in [Part -> [version : Version, value : Value]]
           /\ \A p \in Part : row.cell[p].version \in Nat
           /\ \A c \in Client : \A q \in req[c] :
                /\ q \in Request /\ q.base \subseteq Cell /\ q.handler \in Handler
                /\ q.value \in Value /\ q.seq \in Nat /\ q.born \in 0 .. MaxBorn
                /\ q.updSeq \in Nat
           /\ \A d \in Cell : /\ d.part \in Part /\ d.born \in Nat /\ d.version \in Nat
                              /\ d = [part |-> d.part, born |-> d.born,
                                      version |-> d.version, value |-> d.value]
<1>1. row \in Row /\ account \in Nat /\ issued \in Nat
  BY WriteAssumption DEF TypeOK
<1>2. /\ row.born \in Nat /\ row.seq \in Nat
      /\ row.born \in 1 .. MaxBorn /\ row.alive \in BOOLEAN
      /\ row = [alive |-> row.alive, born |-> row.born, seq |-> row.seq, cell |-> row.cell]
      /\ row.cell \in [Part -> [version : Version, value : Value]]
  BY <1>1, WriteAssumption DEF Row
<1>3. \A p \in Part : row.cell[p].version \in Nat
  BY <1>2, WriteAssumption DEF Version
<1>4. \A c \in Client : \A q \in req[c] :
        /\ q \in Request /\ q.base \subseteq Cell /\ q.handler \in Handler
        /\ q.value \in Value /\ q.seq \in Nat /\ q.born \in 0 .. MaxBorn
        /\ q.updSeq \in Nat
  BY WriteAssumption DEF TypeOK, Request
<1>5. \A d \in Cell : /\ d.part \in Part /\ d.born \in Nat /\ d.version \in Nat
                      /\ d = [part |-> d.part, born |-> d.born,
                              version |-> d.version, value |-> d.value]
  BY WriteAssumption DEF Cell, Version
<1> QED
  BY <1>1, <1>2, <1>3, <1>4, <1>5

\* The cells of a well-typed row.
LEMMA CellOfType ==
    ASSUME TypeOK, NEW p \in Part
    PROVE  /\ CellOf(row, p) \in Cell /\ CellOf(row, p) \in CellsOf(row)
           /\ CellOf(row, p).part = p /\ CellOf(row, p).born = row.born
           /\ CellOf(row, p).version = row.cell[p].version
<1>1. /\ row.born \in 1 .. MaxBorn
      /\ row.cell[p].version \in Version /\ row.cell[p].value \in Value
  BY Types
<1> QED
  BY <1>1 DEF CellOf, CellsOf, Cell

\* How the clients that may still write, or draw a number, change with one
\* client's request.
LEMMA Recount ==
    ASSUME NEW c \in Client, NEW S, \A e \in Client : req'[e] = IF e = c THEN S ELSE req[e]
    PROVE  /\ (\E q \in S : ~Applied(q)) => Unwritten' = Unwritten \union {c}
           /\ (\A q \in S : Applied(q)) => Unwritten' = Unwritten \ {c}
           /\ (\E q \in S : q.pc # "emit") => Unnumbered' = Unnumbered \union {c}
           /\ (\A q \in S : q.pc = "emit") => Unnumbered' = Unnumbered \ {c}
<1>1. \A e \in Client : e # c => /\ e \in Unwritten' <=> e \in Unwritten
                                 /\ e \in Unnumbered' <=> e \in Unnumbered
  BY DEF Unwritten, Unnumbered
<1>2. /\ c \in Unwritten' <=> \E q \in S : ~Applied(q)
      /\ c \in Unnumbered' <=> \E q \in S : q.pc # "emit"
  BY DEF Unwritten, Unnumbered
<1>3. /\ Unwritten \subseteq Client /\ Unwritten' \subseteq Client
      /\ Unnumbered \subseteq Client /\ Unnumbered' \subseteq Client
  BY DEF Unwritten, Unnumbered
<1> QED
  BY <1>1, <1>2, <1>3

\* Adding or removing one client changes their number by at most one.
LEMMA Sizes ==
    ASSUME NEW S, IsFiniteSet(S), NEW c
    PROVE  /\ Cardinality(S) \in Nat
           /\ IsFiniteSet(S \union {c}) /\ Cardinality(S \union {c}) \in Nat
           /\ Cardinality(S \union {c}) <= Cardinality(S) + 1
           /\ c \in S => S \union {c} = S
           /\ IsFiniteSet(S \ {c}) /\ Cardinality(S \ {c}) \in Nat
           /\ Cardinality(S \ {c}) <= Cardinality(S)
           /\ c \in S => Cardinality(S \ {c}) + 1 = Cardinality(S)
<1>1. Cardinality(S) \in Nat
  BY FS_CardinalityType
<1>2. /\ IsFiniteSet(S \union {c})
      /\ Cardinality(S \union {c}) = IF c \in S THEN Cardinality(S) ELSE Cardinality(S) + 1
  BY FS_AddElement
<1>3. /\ IsFiniteSet(S \ {c})
      /\ Cardinality(S \ {c}) = IF c \in S THEN Cardinality(S) - 1 ELSE Cardinality(S)
  BY FS_RemoveElement
<1>4. Cardinality(S \ {c}) \in Nat
  BY <1>3, FS_CardinalityType
<1> QED
  BY <1>1, <1>2, <1>3, <1>4
-----------------------------------------------------------------------------
\* Initially the invariant holds: one version of each part, known to all.
LEMMA InitInv ==
    ASSUME "artifactHttp" \notin Handler
    PROVE  Init => IInv
<1> SUFFICES ASSUME Init PROVE IInv
  OBVIOUS
<1> USE WriteAssumption
<1>0. /\ account = 0 /\ req = [c \in Client |-> {}] /\ reply = [c \in Client |-> NoReply]
      /\ told = CellsOf(row) /\ updates = {} /\ issued = 0
  BY Zenon DEF Init
<1>1. \A c \in Client : req[c] = {} /\ reply[c] = NoReply
  BY <1>0, Zenon
<1>2. row = [alive |-> TRUE, born |-> 1, seq |-> 0,
             cell |-> [p \in Part |-> [version |-> 1, value |-> 0]]]
  BY Zenon DEF Init
<1>3. row.cell \in [Part -> [version : Version, value : Value]]
      /\ row.born = 1 /\ row.seq = 0 /\ row.alive
      /\ \A p \in Part : row.cell[p].version = 1
  BY <1>2 DEF Version, Value
<1>4. row \in Row
  BY <1>2, <1>3 DEF Row
<1>5. CellsOf(row) \subseteq Cell
  BY <1>3 DEF CellsOf, CellOf, Cell
<1>6. NoReply \in Reply
  BY DEF NoReply, Reply
<1>7. handlers \subseteq Handler
  BY DEF Init
<1>8. TypeOK
  BY <1>0, <1>4, <1>5, <1>6, <1>7 DEF TypeOK
<1>9. Requests /\ LostForGood /\ Numbered
  BY <1>1 DEF Init, Requests, LostForGood, Numbered
<1>10. \A d : d \in Known <=> d \in CellsOf(row)
  BY <1>1, KnownIff DEF Init
<1>11. \A d \in Known : d \in Cell /\ d = CellOf(row, d.part) /\ d.born = 1 /\ d.version = 1
                        /\ d.part \in Part
  BY <1>3, <1>5, <1>10 DEF CellsOf, CellOf
<1>12. History
  BY <1>3, <1>11 DEF History
<1>13. Unwritten = {} /\ Unnumbered = {}
  BY <1>1 DEF Unwritten, Unnumbered
<1>14. Counted
  BY <1>1, <1>3, <1>11, <1>13, FS_EmptySet DEF Init, Counted
<1>15. MismatchIsNews
  BY <1>1 DEF MismatchIsNews, NoReply
<1> QED
  BY <1>7, <1>8, <1>9, <1>12, <1>14, <1>15 DEF IInv
-----------------------------------------------------------------------------
(* Requests and answers.                                                   *)

\* A new request changes nothing that is known.
LEMMA SubmitInv ==
    ASSUME IInv, NEW c \in Client, NEW h \in handlers,
           NEW op \in {"update", "create", "delete"}, NEW base \in SUBSET told,
           op = "update" <=> base # {},
           \A d, e \in base : d.part = e.part => d = e,
           Submit(c, h, op, base)
    PROVE  IInv'
<1> USE WriteAssumption
<1>0. TypeOK /\ Requests /\ History /\ Numbered /\ LostForGood /\ Counted /\ MismatchIsNews
  BY DEF IInv
<1> DEFINE q == [op |-> op, handler |-> h, base |-> base, value |-> issued + 1,
                 pc |-> "read", seq |-> 0, born |-> 0, updSeq |-> 0]
<1>1. /\ req[c] = {} /\ issued < MaxRequests /\ issued' = issued + 1
      /\ req' = [req EXCEPT ![c] = {q}]
      /\ reply' = [reply EXCEPT ![c] = NoReply]
      /\ UNCHANGED <<handlers, row, account, told, updates>>
  BY DEF Submit
<1>2. q \in Request
  BY <1>0, <1>1 DEF TypeOK, Request, Value
<1>3. /\ q.handler = h /\ q.base = base /\ q.op = op /\ q.pc = "read" /\ q.seq = 0
  OBVIOUS
<1> HIDE DEF q
<1>4. ~Applied(q)
  BY <1>3 DEF Applied
<1>5. \A e \in Client : req'[e] = IF e = c THEN {q} ELSE req[e]
  BY <1>0, <1>1 DEF TypeOK
<1>6. NoReply \in Reply /\ NoReply.kind = "none"
  BY DEF NoReply, Reply
<1>7. TypeOK'
  BY <1>0, <1>1, <1>2, <1>5, <1>6 DEF TypeOK
<1>8. Requests'
  BY <1>0, <1>1, <1>3, <1>4, <1>5 DEF Requests, IInv
<1>9. \A d : d \in Known' <=> d \in Known
  BY <1>1, <1>4, <1>5, KnownIff
<1>10. History'
  BY <1>0, <1>1, <1>9 DEF History
<1>11. Numbered'
  BY <1>0, <1>1, <1>3, <1>5 DEF Numbered
<1>12. LostForGood'
  BY <1>0, <1>1, <1>3, <1>5 DEF LostForGood, Stale
<1>13. Counted'
  <2>1. Unwritten' = Unwritten \union {c} /\ Unnumbered' = Unnumbered \union {c}
    BY <1>3, <1>4, <1>5, Recount
  <2>2. /\ IsFiniteSet(Unwritten') /\ IsFiniteSet(Unnumbered')
        /\ Cardinality(Unwritten) \in Nat /\ Cardinality(Unnumbered) \in Nat
        /\ Cardinality(Unwritten') \in Nat /\ Cardinality(Unnumbered') \in Nat
        /\ Cardinality(Unwritten') <= Cardinality(Unwritten) + 1
        /\ Cardinality(Unnumbered') <= Cardinality(Unnumbered) + 1
    BY <1>0, <2>1, Sizes DEF Counted
  <2>3. \A d \in Known : d.version \in Nat
    BY <1>0, Types DEF History
  <2>4. row.seq + Cardinality(Unwritten) <= issued /\ account + Cardinality(Unnumbered) <= issued
    BY <1>0 DEF Counted
  <2>5. \A e \in Client : \A r \in req'[e] : r.seq + Cardinality(Unwritten') <= issued'
    BY <1>0, <1>1, <1>3, <1>5, <2>2, <2>4, Types DEF Counted
  <2>6. \A d \in Known' : d.version + Cardinality(Unwritten') <= issued' + 1
    BY <1>0, <1>1, <1>9, <2>2, <2>3, Types DEF Counted
  <2> QED
    BY <1>0, <1>1, <2>2, <2>4, <2>5, <2>6, Types DEF Counted
<1>14. MismatchIsNews'
  BY <1>0, <1>1, <1>6 DEF MismatchIsNews, TypeOK
<1> QED
  BY <1>1, <1>7, <1>8, <1>10, <1>11, <1>12, <1>13, <1>14 DEF IInv

\* An answer tells what is known.
LEMMA AnswerInv ==
    ASSUME IInv, NEW c \in Client, NEW q \in req[c], NEW cells \in SUBSET Known,
           NEW kind \in {"none", "success", "mismatch", "existing", "error"},
           Answer(c, q, kind, cells),
           /\ kind = "mismatch" /\ cells # {}
           /\ handlers \intersect {"sessionUser", "sessionRuntime"} = {}
           => ~(cells \subseteq q.base),
           \/ UNCHANGED updates
           \/ /\ q.pc = "emit" /\ Announced(q) \subseteq Cell
              /\ updates' = updates \union {[seq |-> q.updSeq, cells |-> Announced(q)]}
    PROVE  IInv'
<1> USE WriteAssumption
<1>0. TypeOK /\ Requests /\ History /\ Numbered /\ LostForGood /\ Counted /\ MismatchIsNews
  BY DEF IInv
<1> DEFINE a == [kind |-> kind, base |-> q.base, cells |-> cells]
<1>1. /\ req' = [req EXCEPT ![c] = {}]
      /\ reply' = [reply EXCEPT ![c] = a]
      /\ told' = told \union cells
      /\ UNCHANGED <<handlers, row, account, issued>>
  BY DEF Answer
<1>2. /\ a \in Reply /\ a.kind = kind /\ a.base = q.base /\ a.cells = cells
  BY <1>0, Types DEF Reply, History
<1> HIDE DEF a
<1>3. \A e \in Client : req'[e] = IF e = c THEN {} ELSE req[e]
  BY <1>0, <1>1 DEF TypeOK
<1>4. \A e \in Client : req'[e] \subseteq req[e]
  BY <1>3
<1>5. \A d \in Known' : d \in Known
  BY <1>1, <1>4, KnownIff
<1>6. TypeOK'
  <2>1. updates' \subseteq [seq : 1 .. MaxRequests, cells : SUBSET Cell]
    <3>1. q.pc = "emit" => q.updSeq \in 1 .. MaxRequests
      BY <1>0 DEF Numbered, TypeOK
    <3> QED
      BY <1>0, <3>1 DEF TypeOK
  <2>2. told' \subseteq Cell
    BY <1>0, <1>1 DEF History, TypeOK
  <2>3. req' \in [Client -> SUBSET Request] /\ reply' \in [Client -> Reply]
    BY <1>0, <1>1, <1>2 DEF TypeOK
  <2> QED
    BY <1>0, <1>1, <1>4, <2>1, <2>2, <2>3 DEF TypeOK
<1>7. Requests'
  BY <1>0, <1>1, <1>4 DEF Requests
<1>8. History'
  BY <1>0, <1>1, <1>5 DEF History
<1>9. Numbered'
  <2>1. CASE UNCHANGED updates
    BY <1>0, <1>1, <1>4, <2>1 DEF Numbered
  <2>2. CASE /\ q.pc = "emit"
             /\ updates' = updates \union {[seq |-> q.updSeq, cells |-> Announced(q)]}
    <3>1. q.updSeq \in 1 .. account /\ \A u \in updates : u.seq # q.updSeq
      BY <1>0, <2>2 DEF Numbered
    <3>2. (\A u \in updates' : u.seq <= account)
          /\ (\A u, v \in updates' : u.seq = v.seq => u = v)
      BY <1>0, <2>2, <3>1, Types DEF Numbered
    <3>3. ASSUME NEW e \in Client, NEW r \in req'[e], r.pc = "emit"
          PROVE  /\ r.updSeq \in 1 .. account
                 /\ \A u \in updates' : u.seq # r.updSeq
                 /\ \A f \in Client : \A s \in req'[f] :
                      s.pc = "emit" /\ s.updSeq = r.updSeq => f = e
      <4>1. e # c /\ r \in req[e]
        BY <1>3
      <4>2. r.updSeq # q.updSeq
        BY <1>0, <2>2, <3>3, <4>1 DEF Numbered
      <4> QED
        BY <1>0, <1>4, <2>2, <3>3, <4>1, <4>2 DEF Numbered
    <3> QED
      BY <1>1, <3>2, <3>3 DEF Numbered
  <2> QED
    BY <2>1, <2>2
<1>10. LostForGood'
  BY <1>0, <1>1, <1>4 DEF LostForGood, Stale
<1>11. Counted'
  <2>1. Unwritten' = Unwritten \ {c} /\ Unnumbered' = Unnumbered \ {c}
    BY <1>3, Recount
  <2>2. /\ IsFiniteSet(Unwritten') /\ IsFiniteSet(Unnumbered')
        /\ Cardinality(Unwritten) \in Nat /\ Cardinality(Unnumbered) \in Nat
        /\ Cardinality(Unwritten') \in Nat /\ Cardinality(Unnumbered') \in Nat
        /\ Cardinality(Unwritten') <= Cardinality(Unwritten)
        /\ Cardinality(Unnumbered') <= Cardinality(Unnumbered)
    BY <1>0, <2>1, Sizes DEF Counted
  <2>3. \A d \in Known : d.version \in Nat
    BY <1>0, Types DEF History
  <2>4. \A e \in Client : \A r \in req'[e] : r.seq + Cardinality(Unwritten') <= issued'
    BY <1>0, <1>1, <1>4, <2>2, Types DEF Counted
  <2>5. \A d \in Known' : d.version + Cardinality(Unwritten') <= issued' + 1
    BY <1>0, <1>1, <1>5, <2>2, <2>3, Types DEF Counted
  <2> QED
    BY <1>0, <1>1, <2>2, <2>4, <2>5, Types DEF Counted
<1>12. MismatchIsNews'
  BY <1>0, <1>1, <1>2 DEF MismatchIsNews, TypeOK
<1> QED
  BY <1>1, <1>6, <1>7, <1>8, <1>9, <1>10, <1>11, <1>12 DEF IInv
-----------------------------------------------------------------------------
(* The steps of a request.                                                 *)

\* A request that goes on keeps what it asks for; the rest is up to the step.
LEMMA AdvanceInv ==
    ASSUME IInv, NEW c \in Client, NEW q \in req[c], NEW r \in Request,
           r.handler = q.handler, r.op = q.op, r.base = q.base,
           r.pc = "lost" => r.op = "update",
           Applied(r) => r.born # 0,
           req' = [req EXCEPT ![c] = {r}],
           row' \in Row, account' \in 0 .. MaxRequests,
           UNCHANGED <<handlers, reply, told, updates, issued>>,
           History', Numbered', LostForGood', Counted'
    PROVE  IInv'
<1>0. TypeOK /\ Requests /\ MismatchIsNews
  BY DEF IInv
<1>1. \A e \in Client : req'[e] = IF e = c THEN {r} ELSE req[e]
  BY <1>0 DEF TypeOK
<1>2. TypeOK'
  BY <1>0, <1>1 DEF TypeOK
<1>3. Requests'
  BY <1>0, <1>1 DEF Requests
<1>4. MismatchIsNews'
  BY <1>0 DEF MismatchIsNews
<1> QED
  BY <1>2, <1>3, <1>4 DEF IInv

\* The other requests keep their numbers.
LEMMA NumbersKept ==
    ASSUME TypeOK, Numbered, NEW c \in Client, NEW r,
           \A e \in Client : req'[e] = IF e = c THEN {r} ELSE req[e],
           r.pc # "emit", UNCHANGED <<account, updates>>
    PROVE  Numbered'
BY DEF Numbered

\* Reading, and losing the race, leave the row as it is.
LEMMA ReadInv ==
    ASSUME IInv, NEW c \in Client, NEW q \in req[c], Read(c, q) \/ LoseUpdate(c, q)
    PROVE  IInv'
<1> USE WriteAssumption
<1>0. TypeOK /\ Requests /\ History /\ Numbered /\ LostForGood /\ Counted
      /\ "artifactHttp" \notin handlers
  BY DEF IInv
<1>1. UNCHANGED <<handlers, row, account, reply, told, updates, issued>>
  BY DEF Read, LoseUpdate, Step
<1>2. /\ q \in Request /\ row.seq \in 0 .. MaxRequests /\ row.born \in 0 .. MaxBorn
      /\ q.pc \in {"read", "write"}
  BY <1>0, Types DEF TypeOK, Row, Read, LoseUpdate
<1>3. PICK r \in Request :
        /\ req' = [req EXCEPT ![c] = {r}]
        /\ r.handler = q.handler /\ r.op = q.op /\ r.base = q.base
        /\ r.pc \in {"write", "lost"} /\ r.seq \in {q.seq, row.seq}
        /\ r.pc = "lost" => LoseUpdate(c, q)
  <2>1. CASE Read(c, q)
    <3> DEFINE r == [[q EXCEPT !.seq = row.seq] EXCEPT !.pc = "write", !.born = row.born]
    <3>1. req' = [req EXCEPT ![c] = {r}]
      BY <1>1, <2>1 DEF Read, Step
    <3>2. /\ r \in Request /\ r.handler = q.handler /\ r.op = q.op /\ r.base = q.base
          /\ r.pc = "write" /\ r.seq = row.seq
      BY <1>2 DEF Request
    <3> HIDE DEF r
    <3> QED
      BY <3>1, <3>2
  <2>2. CASE LoseUpdate(c, q)
    <3> DEFINE r == [q EXCEPT !.pc = "lost", !.born = row.born]
    <3>1. req' = [req EXCEPT ![c] = {r}]
      BY <1>1, <2>2 DEF LoseUpdate, Step
    <3>2. /\ r \in Request /\ r.handler = q.handler /\ r.op = q.op /\ r.base = q.base
          /\ r.pc = "lost" /\ r.seq = q.seq
      BY <1>2 DEF Request
    <3> HIDE DEF r
    <3> QED
      BY <2>2, <3>1, <3>2
  <2> QED
    BY <2>1, <2>2
<1>4. \A e \in Client : req'[e] = IF e = c THEN {r} ELSE req[e]
  BY <1>0, <1>3 DEF TypeOK
<1>5. ~Applied(r) /\ ~Applied(q)
  BY <1>2, <1>3 DEF Applied
<1>6. \A d : d \in Known' => d \in Known
  BY <1>1, <1>4, <1>5, KnownIff
<1>7. History'
  BY <1>0, <1>1, <1>6 DEF History
<1>8. Numbered'
  BY <1>0, <1>1, <1>3, <1>4, NumbersKept
<1>9. LostForGood'
  <2> SUFFICES ASSUME NEW e \in Client, NEW s \in req'[e], s.pc = "lost",
                      handlers \intersect SessionHandlers = {}, row.alive
               PROVE  Stale(s)
    BY <1>1 DEF LostForGood, Stale
  <2>1. CASE e # c
    BY <1>0, <1>4, <2>1 DEF LostForGood
  <2>2. CASE e = c
    <3>1. s = r /\ LoseUpdate(c, q)
      BY <1>3, <1>4, <2>2
    <3>2. q.handler \in handlers /\ q.handler \notin SessionHandlers
      BY <1>0 DEF Requests
    <3>3. PICK d \in q.base : row.cell[d.part].version # d.version
      BY <3>1, <3>2 DEF LoseUpdate, Cas, Mismatch, SessionHandlers
    <3>4. d \in Known /\ d \in Cell
      BY <1>0, Types, KnownIff DEF Requests
    <3>5. d.born <= row.born /\ (d.born = row.born => d.version <= row.cell[d.part].version)
      BY <1>0, <3>4 DEF History
    <3>6. d.born < row.born \/ d.version < row.cell[d.part].version
      BY <1>0, <3>3, <3>4, <3>5, Types
    <3> QED
      BY <1>3, <3>1, <3>6 DEF Stale
  <2> QED
    BY <2>1, <2>2
<1>10. Counted'
  <2>1. c \in Unwritten /\ c \in Unnumbered
    BY <1>2, <1>5 DEF Unwritten, Unnumbered
  <2>2. Unwritten' = Unwritten /\ Unnumbered' = Unnumbered
    <3>1. (\E s \in {r} : ~Applied(s)) /\ (\E s \in {r} : s.pc # "emit")
      BY <1>3, <1>5
    <3>2. Unwritten' = Unwritten \union {c} /\ Unnumbered' = Unnumbered \union {c}
      BY <1>4, <3>1, Recount
    <3> QED
      BY <2>1, <3>2
  <2>3. r.seq + Cardinality(Unwritten) <= issued
    BY <1>0, <1>3 DEF Counted
  <2>4. \A e \in Client : \A s \in req'[e] : s.seq + Cardinality(Unwritten) <= issued
    BY <1>0, <1>4, <2>3 DEF Counted
  <2> QED
    BY <1>0, <1>1, <1>6, <2>2, <2>4 DEF Counted
<1>11. r.pc = "lost" => r.op = "update"
  BY <1>3 DEF LoseUpdate
<1> QED
  BY <1>0, <1>1, <1>3, <1>5, <1>7, <1>8, <1>9, <1>10, <1>11, AdvanceInv DEF TypeOK

\* A request with the number of its update is a request.
LEMMA NumberedType ==
    ASSUME NEW q \in Request, NEW n \in 0 .. MaxRequests
    PROVE  LET s == [q EXCEPT !.pc = "emit", !.updSeq = n]
           IN  /\ s \in Request /\ s.handler = q.handler /\ s.op = q.op /\ s.base = q.base
               /\ s.pc = "emit" /\ s.seq = q.seq /\ s.born = q.born /\ s.value = q.value
               /\ s.updSeq = n
BY DEF Request

\* Numbering an update changes nothing that is known.
LEMMA AllocateInv ==
    ASSUME IInv, NEW c \in Client, NEW q \in req[c], Allocate(c, q)
    PROVE  IInv'
<1> USE WriteAssumption
<1>0. TypeOK /\ Requests /\ History /\ Numbered /\ LostForGood /\ Counted
  BY DEF IInv
<1>1. /\ q.pc = "alloc" /\ account' = account + 1
      /\ req' = [req EXCEPT ![c] = {[q EXCEPT !.pc = "emit", !.updSeq = account + 1]}]
      /\ UNCHANGED <<handlers, row, reply, told, updates, issued>>
  BY DEF Allocate
<1>3. c \in Unnumbered /\ c \notin Unwritten
  BY <1>0, <1>1 DEF Unnumbered, Unwritten, Applied, TypeOK
<1>4. /\ IsFiniteSet(Unnumbered \ {c}) /\ Cardinality(Unnumbered \ {c}) \in Nat
      /\ Cardinality(Unnumbered \ {c}) + 1 = Cardinality(Unnumbered)
      /\ Cardinality(Unnumbered) \in Nat /\ Cardinality(Unwritten) \in Nat
  BY <1>0, <1>3, Sizes DEF Counted
<1>5. account + 1 \in 1 .. MaxRequests
  BY <1>0, <1>4, Types DEF Counted, TypeOK
<1>6. q \in Request /\ q.born # 0 /\ Applied(q)
  BY <1>0, <1>1, Types DEF Requests, Applied
<1>7. PICK r \in Request :
        /\ req' = [req EXCEPT ![c] = {r}]
        /\ r.handler = q.handler /\ r.op = q.op /\ r.base = q.base
        /\ r.pc = "emit" /\ r.seq = q.seq /\ r.born = q.born /\ r.value = q.value
        /\ r.updSeq = account + 1
  <2>1. PICK n \in 0 .. MaxRequests : n = account + 1
    BY <1>5
  <2>2. req' = [req EXCEPT ![c] = {[q EXCEPT !.pc = "emit", !.updSeq = n]}]
    BY <1>1, <2>1
  <2> DEFINE s == [q EXCEPT !.pc = "emit", !.updSeq = n]
  <2>3. /\ s \in Request /\ s.handler = q.handler /\ s.op = q.op /\ s.base = q.base
        /\ s.pc = "emit" /\ s.seq = q.seq /\ s.born = q.born /\ s.value = q.value
        /\ s.updSeq = n
    BY <1>6, NumberedType, Zenon
  <2> HIDE DEF s
  <2>4. req' = [req EXCEPT ![c] = {s}]
    BY <2>2 DEF s
  <2> QED
    BY <2>1, <2>3, <2>4
<1>2. \A e \in Client : req'[e] = IF e = c THEN {r} ELSE req[e]
  BY <1>0, <1>7 DEF TypeOK
<1>8. Announced(r) = Announced(q)
  BY <1>7 DEF Announced
<1>9. Applied(r)
  BY <1>7 DEF Applied
<1>10. \A d : d \in Known' => d \in Known
  BY <1>1, <1>2, <1>6, <1>8, <1>9, KnownIff
<1>11. History'
  BY <1>0, <1>1, <1>10 DEF History
<1>12. Numbered'
  <2>1. \A u \in updates : u.seq <= account + 1 /\ u.seq # account + 1
    BY <1>0, Types DEF Numbered, TypeOK
  <2>2. \A e \in Client : \A s \in req[e] :
          s.pc = "emit" => s.updSeq \in 1 .. account + 1 /\ s.updSeq # account + 1
    BY <1>0, Types DEF Numbered
  <2>3. ASSUME NEW e \in Client, NEW s \in req'[e], s.pc = "emit"
        PROVE  /\ s.updSeq \in 1 .. account'
               /\ \A u \in updates' : u.seq # s.updSeq
               /\ \A f \in Client : \A t \in req'[f] :
                    t.pc = "emit" /\ t.updSeq = s.updSeq => f = e
    <3>1. CASE e = c
      BY <1>0, <1>1, <1>2, <1>5, <1>7, <2>1, <2>2, <2>3, <3>1
    <3>2. CASE e # c
      BY <1>0, <1>1, <1>2, <1>7, <2>1, <2>2, <2>3, <3>2 DEF Numbered
    <3> QED
      BY <3>1, <3>2
  <2> QED
    BY <1>0, <1>1, <2>1, <2>3 DEF Numbered
<1>13. LostForGood'
  BY <1>0, <1>1, <1>2, <1>7 DEF LostForGood, Stale
<1>14. Counted'
  <2>1. Unnumbered' = Unnumbered \ {c} /\ Unwritten' = Unwritten
    <3>1. (\A s \in {r} : Applied(s)) /\ (\A s \in {r} : s.pc = "emit")
      BY <1>7, <1>9
    <3>2. Unwritten' = Unwritten \ {c} /\ Unnumbered' = Unnumbered \ {c}
      BY <1>2, <3>1, Recount
    <3> QED
      BY <1>3, <3>2
  <2>2. \A e \in Client : \A s \in req'[e] : s.seq + Cardinality(Unwritten) <= issued
    BY <1>0, <1>2, <1>7 DEF Counted
  <2>3. account + 1 + Cardinality(Unnumbered \ {c}) <= issued
    BY <1>0, <1>4, Types DEF Counted
  <2> QED
    BY <1>0, <1>1, <1>4, <1>10, <2>1, <2>2, <2>3 DEF Counted
<1>15. row' \in Row /\ account' \in 0 .. MaxRequests /\ r.born # 0 /\ r.pc # "lost"
  BY <1>0, <1>1, <1>5, <1>6, <1>7 DEF TypeOK
<1>16. /\ UNCHANGED <<handlers, reply, told, updates, issued>>
       /\ Applied(r) => r.born # 0
       /\ r.pc = "lost" => r.op = "update"
  BY <1>1, <1>15
<1> QED
  BY <1>7, <1>11, <1>12, <1>13, <1>14, <1>15, <1>16, AdvanceInv
-----------------------------------------------------------------------------
(* Writing.                                                                *)

\* The cells of any row.
LEMMA RowCells ==
    ASSUME NEW r \in Row, NEW p \in Part
    PROVE  /\ CellOf(r, p) \in Cell /\ CellOf(r, p) \in CellsOf(r)
           /\ CellOf(r, p).part = p /\ CellOf(r, p).born = r.born
           /\ CellOf(r, p).version = r.cell[p].version
           /\ r.born \in Nat /\ r.cell[p].version \in Nat /\ r.seq \in Nat
<1>1. /\ r.born \in 1 .. MaxBorn /\ r.born \in Nat /\ r.seq \in Nat
      /\ r.cell[p].version \in Version /\ r.cell[p].value \in Value
      /\ r.cell[p].version \in Nat
  BY WriteAssumption DEF Row, Version
<1> QED
  BY <1>1 DEF CellOf, CellsOf, Cell

\* A write that makes new versions only of its own incarnation, or a new
\* incarnation, and announces what it wrote.
LEMMA WriteInv ==
    ASSUME IInv, NEW c \in Client, NEW q \in req[c], NEW r \in Request,
           q.pc = "write", r.pc = "alloc",
           r.handler = q.handler, r.op = q.op, r.base = q.base, r.seq = q.seq,
           r.born # 0,
           req' = [req EXCEPT ![c] = {r}],
           row' \in Row,
           UNCHANGED <<handlers, account, reply, told, updates, issued>>,
           Announced(r) \subseteq CellsOf(row'),
           row'.seq <= row.seq \/ row'.seq <= q.seq + 1,
           \/ /\ row'.born = row.born
              /\ row'.alive => row.alive
              /\ \A p \in Part : \/ row'.cell[p] = row.cell[p]
                                 \/ row'.cell[p].version = row.cell[p].version + 1
           \/ /\ row'.born > row.born
              /\ \A p \in Part : row'.cell[p].version = 1
    PROVE  IInv'
<1> USE WriteAssumption
<1>0. TypeOK /\ Requests /\ History /\ Numbered /\ LostForGood /\ Counted
  BY DEF IInv
<1>1. \A e \in Client : req'[e] = IF e = c THEN {r} ELSE req[e]
  BY <1>0 DEF TypeOK
<1>2. Applied(r) /\ ~Applied(q)
  BY DEF Applied
<1>3. \A d : d \in Known' => d \in Known \/ d \in CellsOf(row')
  BY <1>1, <1>2, KnownIff
<1>4. \A d \in Known : d \in Cell /\ d.born \in Nat /\ d.version \in Nat /\ d.part \in Part
  BY <1>0, Types DEF History
<1>5. row \in Row /\ row.born \in Nat /\ row'.born \in Nat
  BY <1>0 DEF TypeOK, Row
<1>6. ASSUME NEW d \in CellsOf(row')
      PROVE  /\ d \in Cell /\ d.part \in Part /\ d.born = row'.born
             /\ d.version = row'.cell[d.part].version /\ d.version \in Nat
             /\ d = CellOf(row', d.part)
  <2>1. PICK p \in Part : d = CellOf(row', p)
    BY DEF CellsOf
  <2> QED
    BY <2>1, RowCells
<1>7. ASSUME NEW p \in Part
      PROVE  /\ CellOf(row, p) \in Known /\ row.cell[p].version \in Nat
             /\ row'.cell[p].version \in Nat /\ CellOf(row, p).version = row.cell[p].version
             /\ CellOf(row, p).part = p /\ CellOf(row, p).born = row.born
  BY <1>5, RowCells, KnownIff
<1>8. History'
  <2>1. Known' \subseteq Cell
    BY <1>3, <1>4, <1>6
  <2>2. ASSUME NEW d \in Known, NEW e \in CellsOf(row'),
               d.part = e.part, d.born = e.born, d.version = e.version
        PROVE  d = e
    <3>1. d.born <= row.born
          /\ (d.born = row.born => d.version <= row.cell[d.part].version)
      BY <1>0 DEF History
    <3>2. row'.born = row.born /\ row'.cell[d.part] = row.cell[d.part]
      BY <1>4, <1>5, <1>6, <1>7, <2>2, <3>1
    <3>3. e = CellOf(row, d.part)
      BY <1>6, <2>2, <3>2 DEF CellOf
    <3> QED
      BY <1>0, <1>4, <1>7, <2>2, <3>3 DEF History
  <2>3. \A d, e \in Known' :
          d.part = e.part /\ d.born = e.born /\ d.version = e.version => d = e
    <3> SUFFICES ASSUME NEW d \in Known', NEW e \in Known',
                        d.part = e.part, d.born = e.born, d.version = e.version
                 PROVE  d = e
      OBVIOUS
    <3>1. CASE d \in Known /\ e \in Known
      BY <1>0, <3>1 DEF History
    <3>2. CASE d \in CellsOf(row') /\ e \in CellsOf(row')
      BY <1>6, <3>2
    <3> QED
      BY <1>3, <2>2, <3>1, <3>2
  <2>4. ASSUME NEW d \in Known'
        PROVE  /\ d.born <= row'.born
               /\ d.born = row'.born => d.version <= row'.cell[d.part].version
    <3>1. CASE d \in Known
      <4>1. d.born <= row.born
            /\ (d.born = row.born => d.version <= row.cell[d.part].version)
        BY <1>0, <3>1 DEF History
      <4> QED
        BY <1>4, <1>5, <1>7, <3>1, <4>1
    <3>2. CASE d \in CellsOf(row')
      BY <1>5, <1>6, <3>2
    <3> QED
      BY <1>3, <3>1, <3>2
  <2> QED
    BY <2>1, <2>3, <2>4 DEF History
<1>9. Numbered'
  BY <1>0, <1>1, NumbersKept
<1>10. LostForGood'
  <2> SUFFICES ASSUME NEW e \in Client, NEW s \in req'[e], s.pc = "lost",
                      handlers \intersect SessionHandlers = {}, row'.alive
               PROVE  Stale(s)'
    BY DEF LostForGood
  <2>1. s \in req[e]
    BY <1>1
  <2>2. s.base # {} /\ \A d \in s.base : d \in Known
    BY <1>0, <2>1, KnownIff DEF Requests
  <2>3. CASE row'.born = row.born /\ row.alive
    <3>1. PICK d \in s.base : d.born < row.born \/ d.version < row.cell[d.part].version
      BY <1>0, <2>1, <2>3 DEF LostForGood, Stale
    <3>2. d.born < row'.born \/ d.version < row'.cell[d.part].version
      BY <1>4, <1>7, <2>2, <2>3, <3>1
    <3> QED
      BY <3>2 DEF Stale
  <2>4. CASE row'.born > row.born
    <3>1. PICK d \in s.base : d \in Known
      BY <2>2
    <3>2. d.born < row'.born
      BY <1>0, <1>4, <1>5, <2>4, <3>1 DEF History
    <3> QED
      BY <3>2 DEF Stale
  <2> QED
    BY <1>5, <2>3, <2>4
<1>11. Counted'
  <2>1. c \in Unwritten /\ c \in Unnumbered
    BY <1>2 DEF Unwritten, Unnumbered
  <2>2. Unwritten' = Unwritten \ {c} /\ Unnumbered' = Unnumbered
    <3>1. (\A s \in {r} : Applied(s)) /\ (\E s \in {r} : s.pc # "emit")
      BY <1>2
    <3>2. Unwritten' = Unwritten \ {c} /\ Unnumbered' = Unnumbered \union {c}
      BY <1>1, <3>1, Recount
    <3> QED
      BY <2>1, <3>2
  <2>3. /\ IsFiniteSet(Unwritten') /\ Cardinality(Unwritten) \in Nat
        /\ Cardinality(Unwritten') \in Nat
        /\ Cardinality(Unwritten') + 1 = Cardinality(Unwritten)
    BY <1>0, <2>1, <2>2, Sizes DEF Counted
  <2>4. q.seq \in Nat /\ row.seq \in Nat /\ row'.seq \in Nat /\ issued \in Nat
    BY <1>0, Types DEF Row
  <2>5. row'.seq + Cardinality(Unwritten') <= issued
    BY <1>0, <2>3, <2>4 DEF Counted
  <2>6. \A e \in Client : \A s \in req'[e] : s.seq + Cardinality(Unwritten') <= issued
    BY <1>0, <1>1, <2>3, <2>4, Types DEF Counted
  <2>7. ASSUME NEW d \in Known'
        PROVE  d.version + Cardinality(Unwritten') <= issued + 1
    <3>1. CASE d \in Known
      BY <1>0, <1>4, <2>3, <2>4, <3>1 DEF Counted
    <3>2. CASE d \in CellsOf(row')
      <4>1. row.cell[d.part].version + Cardinality(Unwritten) <= issued + 1
        BY <1>0, <1>6, <1>7, <3>2 DEF Counted
      <4>2. 1 + Cardinality(Unwritten') <= issued + 1
        BY <2>3, <2>4, <1>0 DEF Counted
      <4> QED
        BY <1>6, <1>7, <2>3, <2>4, <3>2, <4>1, <4>2
    <3> QED
      BY <1>3, <3>1, <3>2
  <2> QED
    BY <1>0, <2>2, <2>3, <2>5, <2>6, <2>7 DEF Counted
<1> QED
  BY <1>0, <1>8, <1>9, <1>10, <1>11, AdvanceInv DEF TypeOK

\* A request that has written is a request.
LEMMA WrittenType ==
    ASSUME NEW q \in Request, NEW b \in 0 .. MaxBorn
    PROVE  LET s == [q EXCEPT !.pc = "alloc", !.born = b]
           IN  /\ s \in Request /\ s.handler = q.handler /\ s.op = q.op /\ s.base = q.base
               /\ s.pc = "alloc" /\ s.seq = q.seq /\ s.value = q.value /\ s.born = b
BY DEF Request

\* The request as the three writes leave it.
LEMMA WriteStep ==
    ASSUME TypeOK, NEW c \in Client, NEW q \in req[c], Step(c, q, "alloc"), row' \in Row
    PROVE  /\ UNCHANGED <<handlers, account, reply, told, updates, issued>>
           /\ \E r \in Request :
                /\ req' = [req EXCEPT ![c] = {r}]
                /\ r.handler = q.handler /\ r.op = q.op /\ r.base = q.base
                /\ r.pc = "alloc" /\ r.seq = q.seq /\ r.value = q.value
                /\ r.born = row'.born /\ r.born # 0
<1>1. /\ req' = [req EXCEPT ![c] = {[q EXCEPT !.pc = "alloc", !.born = row'.born]}]
      /\ UNCHANGED <<handlers, account, reply, told, updates, issued>>
  BY DEF Step
<1>2. PICK b \in 0 .. MaxBorn : b = row'.born /\ b # 0
  BY WriteAssumption DEF Row
<1> DEFINE r == [q EXCEPT !.pc = "alloc", !.born = b]
<1>3. q \in Request
  BY Types
<1>4. /\ r \in Request /\ r.handler = q.handler /\ r.op = q.op /\ r.base = q.base
      /\ r.pc = "alloc" /\ r.seq = q.seq /\ r.value = q.value /\ r.born = b
  BY <1>3, WrittenType, Zenon
<1> HIDE DEF r
<1>5. req' = [req EXCEPT ![c] = {r}]
  BY <1>1, <1>2 DEF r
<1> QED
  BY <1>1, <1>2, <1>4, <1>5

\* What an update that finds the versions it expected writes.
LEMMA WrittenIs ==
    ASSUME IInv, NEW c \in Client, NEW q \in req[c], q.pc = "write", Cas(q)
    PROVE  /\ Written(q) \in [Part -> [version : Version, value : Value]]
           /\ \A p \in Part : IF p \in Parts(q.base)
                              THEN /\ Written(q)[p].version = row.cell[p].version + 1
                                   /\ Written(q)[p].value = q.value
                              ELSE Written(q)[p] = row.cell[p]
           /\ \A d \in q.base : d \in Cell /\ row.cell[d.part].version = d.version
           /\ q.seq + 1 \in 0 .. MaxRequests
<1> USE WriteAssumption
<1>0. TypeOK /\ Requests /\ History /\ Counted /\ "artifactHttp" \notin handlers
  BY DEF IInv
<1>1. q.handler # "artifactHttp" /\ q.value \in Value /\ q.base \subseteq Cell
      /\ q.seq \in Nat /\ issued \in 0 .. MaxRequests
  BY <1>0, Types DEF Requests, TypeOK
<1>2. \A d \in q.base : d \in Cell /\ d.part \in Part /\ row.cell[d.part].version = d.version
  BY <1>0, <1>1, Types DEF Cas, Mismatch
<1>3. Cardinality(Unwritten) \in Nat /\ Cardinality(Unwritten) >= 1
  <2>1. c \in Unwritten
    BY DEF Unwritten, Applied
  <2>2. /\ Cardinality(Unwritten) \in Nat /\ Cardinality(Unwritten \ {c}) \in Nat
        /\ Cardinality(Unwritten \ {c}) + 1 = Cardinality(Unwritten)
    BY <1>0, <2>1, Sizes DEF Counted
  <2> QED
    BY <2>2
<1>4. q.seq + 1 \in 0 .. MaxRequests
  BY <1>0, <1>1, <1>3 DEF Counted
<1>5. ASSUME NEW p \in Part
      PROVE  row.cell[p].version + 1 \in Version
  <2>1. CellOf(row, p) \in Known /\ CellOf(row, p).version = row.cell[p].version
    BY <1>0, CellOfType, KnownIff
  <2>2. row.cell[p].version + Cardinality(Unwritten) <= issued + 1
    BY <1>0, <2>1 DEF Counted
  <2> QED
    BY <1>0, <1>1, <1>3, <2>2, Types DEF Version
<1>6. ASSUME NEW p \in Part, p \in Parts(q.base)
      PROVE  (CHOOSE v \in Version : \E d \in q.base : d.part = p /\ d.version = v)
               = row.cell[p].version
  <2>1. row.cell[p].version \in Version
    BY <1>0, Types
  <2>2. \E d \in q.base : d.part = p /\ d.version = row.cell[p].version
    BY <1>2, <1>6 DEF Parts
  <2>3. \A v \in Version : (\E d \in q.base : d.part = p /\ d.version = v)
                             => v = row.cell[p].version
    BY <1>2
  <2> QED
    BY <2>1, <2>2, <2>3
<1>7. ASSUME NEW p \in Part
      PROVE  /\ Written(q)[p] \in [version : Version, value : Value]
             /\ IF p \in Parts(q.base)
                THEN /\ Written(q)[p].version = row.cell[p].version + 1
                     /\ Written(q)[p].value = q.value
                ELSE Written(q)[p] = row.cell[p]
  <2>1. CASE p \in Parts(q.base)
    <3>1. Written(q)[p] = [version |-> 1 + row.cell[p].version, value |-> q.value]
      BY <1>6, <2>1 DEF Written
    <3>2. 1 + row.cell[p].version = row.cell[p].version + 1
      BY <1>0, Types
    <3> QED
      BY <1>1, <1>5, <2>1, <3>1, <3>2
  <2>2. CASE p \notin Parts(q.base)
    BY <1>0, <2>2, Types DEF Written
  <2> QED
    BY <2>1, <2>2
<1>8. Written(q) = [p \in Part |-> Written(q)[p]]
  BY DEF Written
<1>9. Written(q) \in [Part -> [version : Version, value : Value]]
  BY <1>7, <1>8
<1> QED
  BY <1>2, <1>4, <1>7, <1>9

\* The row an update leaves.
LEMMA RowWritten ==
    ASSUME IInv, NEW c \in Client, NEW q \in req[c], WriteUpdate(c, q)
    PROVE  /\ row' \in Row /\ row'.cell = Written(q) /\ row'.born = row.born
           /\ row'.alive = row.alive /\ row'.seq \in {row.seq, q.seq + 1}
<1> USE WriteAssumption
<1>1. /\ q.pc = "write" /\ q.op = "update" /\ Cas(q) /\ Step(c, q, "alloc")
      /\ row' = [row EXCEPT !.cell = Written(q),
                            !.seq = IF q.handler \in Artifacts THEN q.seq + 1 ELSE @]
  BY DEF WriteUpdate
<1>2. /\ Written(q) \in [Part -> [version : Version, value : Value]]
      /\ q.seq + 1 \in 0 .. MaxRequests
  BY <1>1, WrittenIs
<1>3. row \in Row
  BY DEF IInv, TypeOK
<1> QED
  BY <1>1, <1>2, <1>3 DEF Row

\* An update makes the next version of each of its parts.
LEMMA WriteUpdateInv ==
    ASSUME IInv, NEW c \in Client, NEW q \in req[c], WriteUpdate(c, q)
    PROVE  IInv'
<1> USE WriteAssumption
<1>0. TypeOK /\ Requests
  BY DEF IInv
<1>1. q.pc = "write" /\ q.op = "update" /\ Cas(q) /\ Step(c, q, "alloc")
  BY DEF WriteUpdate
<1>2. /\ Written(q) \in [Part -> [version : Version, value : Value]]
      /\ \A p \in Part : IF p \in Parts(q.base)
                         THEN /\ Written(q)[p].version = row.cell[p].version + 1
                              /\ Written(q)[p].value = q.value
                         ELSE Written(q)[p] = row.cell[p]
      /\ \A d \in q.base : d \in Cell /\ row.cell[d.part].version = d.version
      /\ q.seq + 1 \in 0 .. MaxRequests
  BY <1>1, WrittenIs
<1>4. /\ row' \in Row /\ row'.cell = Written(q) /\ row'.born = row.born
      /\ row'.alive = row.alive /\ row'.seq \in {row.seq, q.seq + 1}
  BY RowWritten
<1>5. PICK r \in Request :
        /\ req' = [req EXCEPT ![c] = {r}]
        /\ r.handler = q.handler /\ r.op = q.op /\ r.base = q.base
        /\ r.pc = "alloc" /\ r.seq = q.seq /\ r.value = q.value
        /\ r.born = row'.born /\ r.born # 0
  BY <1>0, <1>1, <1>4, WriteStep
<1>6. Announced(r) \subseteq CellsOf(row')
  <2> SUFFICES ASSUME NEW d \in q.base
               PROVE  [part |-> d.part, born |-> r.born, version |-> d.version + 1,
                       value |-> r.value] \in CellsOf(row')
    BY <1>1, <1>5 DEF Announced
  <2>1. d.part \in Part /\ d.part \in Parts(q.base)
    BY <1>0, <1>2, Types DEF Parts
  <2>2. row'.cell[d.part].version = d.version + 1 /\ row'.cell[d.part].value = r.value
    BY <1>2, <1>4, <1>5, <2>1
  <2> QED
    BY <1>5, <2>1, <2>2 DEF CellsOf, CellOf
<1>7. row'.seq <= row.seq \/ row'.seq <= q.seq + 1
  BY <1>0, <1>2, <1>4, Types
<1>8. UNCHANGED <<handlers, account, reply, told, updates, issued>>
  BY <1>1 DEF Step
<1>9. \A p \in Part : \/ row'.cell[p] = row.cell[p]
                      \/ row'.cell[p].version = row.cell[p].version + 1
  BY <1>2, <1>4
<1> QED
  BY <1>1, <1>4, <1>5, <1>6, <1>7, <1>8, <1>9, WriteInv

\* A create makes the first versions of a new incarnation.
LEMMA WriteCreateInv ==
    ASSUME IInv, NEW c \in Client, NEW q \in req[c], WriteCreate(c, q)
    PROVE  IInv'
<1> USE WriteAssumption
<1>0. TypeOK /\ Requests
  BY DEF IInv
<1> DEFINE cells == [p \in Part |-> [version |-> 1, value |-> q.value]]
<1>1. /\ q.pc = "write" /\ q.op = "create" /\ row.born < MaxBorn /\ Step(c, q, "alloc")
      /\ row' = [alive |-> TRUE, born |-> row.born + 1, seq |-> 0, cell |-> cells]
  BY Zenon DEF WriteCreate
<1>2. /\ cells \in [Part -> [version : Version, value : Value]]
      /\ \A p \in Part : cells[p].version = 1 /\ cells[p].value = q.value
  BY <1>0, Types DEF Version
<1>3. row.born + 1 \in 1 .. MaxBorn /\ row.born \in Nat
  BY <1>0, <1>1, Types
<1> HIDE DEF cells
<1>4. row' \in Row /\ row'.cell = cells /\ row'.born = row.born + 1 /\ row'.seq = 0
  BY <1>1, <1>2, <1>3 DEF Row
<1>5. PICK r \in Request :
        /\ req' = [req EXCEPT ![c] = {r}]
        /\ r.handler = q.handler /\ r.op = q.op /\ r.base = q.base
        /\ r.pc = "alloc" /\ r.seq = q.seq /\ r.value = q.value
        /\ r.born = row'.born /\ r.born # 0
  BY <1>0, <1>1, <1>4, WriteStep
<1>6. Announced(r) \subseteq CellsOf(row')
  BY <1>1, <1>2, <1>4, <1>5 DEF Announced, CellsOf, CellOf
<1>7. row'.seq <= row.seq
  BY <1>0, <1>4, Types
<1>8. UNCHANGED <<handlers, account, reply, told, updates, issued>>
  BY <1>1 DEF Step
<1>9. row'.born > row.born /\ \A p \in Part : row'.cell[p].version = 1
  BY <1>2, <1>3, <1>4
<1> QED
  BY <1>1, <1>4, <1>5, <1>6, <1>7, <1>8, <1>9, WriteInv

\* A delete leaves the versions as they are.
LEMMA WriteDeleteInv ==
    ASSUME IInv, NEW c \in Client, NEW q \in req[c], WriteDelete(c, q)
    PROVE  IInv'
<1> USE WriteAssumption
<1>0. TypeOK /\ Requests
  BY DEF IInv
<1>1. /\ q.pc = "write" /\ q.op = "delete" /\ row.alive /\ Step(c, q, "alloc")
      /\ row' = [row EXCEPT !.alive = FALSE]
  BY Zenon DEF WriteDelete
<1>2. row \in Row
  BY <1>0 DEF TypeOK
<1>3. row' \in Row /\ row'.cell = row.cell /\ row'.born = row.born /\ row'.seq = row.seq
  BY <1>1, <1>2 DEF Row
<1>4. PICK r \in Request :
        /\ req' = [req EXCEPT ![c] = {r}]
        /\ r.handler = q.handler /\ r.op = q.op /\ r.base = q.base
        /\ r.pc = "alloc" /\ r.seq = q.seq /\ r.value = q.value
        /\ r.born = row'.born /\ r.born # 0
  BY <1>0, <1>1, <1>3, WriteStep
<1>5. Announced(r) = {}
  BY <1>0, <1>1, <1>4 DEF Announced, Requests
<1>6. row'.seq <= row.seq
  BY <1>0, <1>3, Types
<1>7. UNCHANGED <<handlers, account, reply, told, updates, issued>>
  BY <1>1 DEF Step
<1> QED
  BY <1>1, <1>3, <1>4, <1>5, <1>6, <1>7, WriteInv
-----------------------------------------------------------------------------
(* The other steps, and the theorems.                                      *)

\* Every new request is based on cells its client was told of.
LEMMA SubmitsInv ==
    ASSUME IInv, NEW c \in Client, SubmitUpdate(c) \/ SubmitCreate(c) \/ SubmitDelete(c)
    PROVE  IInv'
<1>0. "artifactHttp" \notin handlers
  BY DEF IInv
<1>1. CASE SubmitUpdate(c)
  <2>1. PICK h \in handlers : \E b \in Base(h) : Submit(c, h, "update", b)
    BY <1>1 DEF SubmitUpdate
  <2>2. PICK b \in Base(h) : Submit(c, h, "update", b)
    BY <2>1
  <2>3. b \in SUBSET told /\ b # {} /\ \A d, e \in b : d.part = e.part => d = e
    BY <1>0 DEF Base
  <2> QED
    BY <2>2, <2>3, SubmitInv
<1>2. CASE SubmitCreate(c) \/ SubmitDelete(c)
  <2>1. PICK h \in handlers, op \in {"create", "delete"} : Submit(c, h, op, {})
    BY <1>2 DEF SubmitCreate, SubmitDelete
  <2> QED
    BY <2>1, SubmitInv
<1> QED
  BY <1>1, <1>2

\* A part of the row that differs from what a request expects is news to it.
LEMMA CurrentIsNews ==
    ASSUME IInv, NEW c \in Client, NEW q \in req[c], NEW d \in q.base,
           \/ row.cell[d.part].version # d.version
           \/ d.born < row.born
    PROVE  CellOf(row, d.part) \notin q.base
<1>0. TypeOK /\ Requests
  BY DEF IInv
<1>1. d \in Cell /\ d.part \in Part /\ d.born \in Nat /\ row.born \in Nat
  BY <1>0, Types
<1>2. CellOf(row, d.part).part = d.part /\ CellOf(row, d.part).born = row.born
      /\ CellOf(row, d.part).version = row.cell[d.part].version
  BY <1>0, <1>1, CellOfType
<1>3. CellOf(row, d.part) \in q.base => CellOf(row, d.part) = d
  BY <1>0, <1>2 DEF Requests
<1> QED
  BY <1>1, <1>2, <1>3

\* Every answer tells cells that are known.
LEMMA AnswersInv ==
    ASSUME IInv, NEW c \in Client, NEW q \in req[c],
           \/ NotFound(c, q) \/ ReadMismatch(c, q) \/ ReadExisting(c, q)
           \/ Refetch(c, q) \/ Throw(c, q) \/ Emit(c, q) \/ Succeed(c, q)
    PROVE  IInv'
<1>0. TypeOK /\ Requests /\ History /\ LostForGood
  BY DEF IInv
<1>1. CellsOf(row) \in SUBSET Known /\ {} \in SUBSET Known /\ q.base \in SUBSET Known
  BY <1>0, KnownIff DEF Requests
<1>2. ASSUME NEW S, S \subseteq q.base
      PROVE  Current(S) \in SUBSET Known
  <2>0. q.base \subseteq Cell
    BY <1>0, Types
  <2>1. \A d \in S : d.part \in Part
    BY <1>0, <1>2, <2>0, Types
  <2> QED
    BY <1>0, <1>1, <2>1, CellOfType DEF Current
<1>3. CASE NotFound(c, q) \/ Throw(c, q)
  <2>1. PICK kind \in {"none", "error"} : Answer(c, q, kind, {}) /\ UNCHANGED updates
    BY <1>3 DEF NotFound, Throw
  <2>2. PICK cells \in SUBSET Known : cells = {}
    BY <1>1
  <2>3. Answer(c, q, kind, cells)
    BY <2>1, <2>2
  <2> QED
    BY <2>1, <2>3, AnswerInv
<1>4. CASE ReadMismatch(c, q)
  <2> DEFINE S == Mismatch(q)
  <2>1. S # {} /\ Answer(c, q, "mismatch", Current(S)) /\ UNCHANGED updates
    BY <1>4 DEF ReadMismatch
  <2>2. S \subseteq q.base /\ \A d \in S : row.cell[d.part].version # d.version
    BY DEF Mismatch
  <2> HIDE DEF S
  <2>3. ~(Current(S) \subseteq q.base)
    BY <2>1, <2>2, CurrentIsNews DEF Current
  <2>4. PICK cells \in SUBSET Known : cells = Current(S)
    BY <1>2, <2>2 DEF S, Mismatch
  <2>5. Answer(c, q, "mismatch", cells)
    BY <2>1, <2>4
  <2> QED
    BY <2>1, <2>3, <2>4, <2>5, AnswerInv
<1>5. CASE ReadExisting(c, q)
  <2>1. PICK cells \in SUBSET Known : Answer(c, q, "existing", cells) /\ UNCHANGED updates
    BY <1>1, <1>5 DEF ReadExisting
  <2> QED
    BY <2>1, AnswerInv
<1>6. CASE Refetch(c, q)
  <2> DEFINE first == q.handler = "sessionUser" \/ (q.handler = "sessionRuntime" /\ ~row.alive)
  <2>1. /\ q.pc = "lost" /\ UNCHANGED updates
        /\ Answer(c, q, "mismatch",
             IF first THEN q.base ELSE IF row.alive THEN Current(q.base) ELSE {})
    BY <1>6 DEF Refetch
  <2>2. handlers \intersect SessionHandlers = {} => ~first
    BY <1>0 DEF Requests, SessionHandlers
  <2>3. handlers \intersect SessionHandlers = {} /\ row.alive
        => ~(Current(q.base) \subseteq q.base)
    <3> SUFFICES ASSUME handlers \intersect SessionHandlers = {}, row.alive
                 PROVE  ~(Current(q.base) \subseteq q.base)
      OBVIOUS
    <3>1. PICK d \in q.base : d.born < row.born \/ d.version < row.cell[d.part].version
      BY <1>0, <2>1 DEF LostForGood, Stale
    <3>2. d \in Cell /\ d.part \in Part /\ d.version \in Nat
          /\ row.cell[d.part].version \in Nat
      BY <1>0, Types
    <3> QED
      BY <3>1, <3>2, CurrentIsNews DEF Current
  <2> HIDE DEF first
  <2>4. PICK cells \in SUBSET Known :
          cells = IF first THEN q.base ELSE IF row.alive THEN Current(q.base) ELSE {}
    BY <1>1, <1>2
  <2>5. Answer(c, q, "mismatch", cells)
    BY <2>1, <2>4
  <2>6. cells # {} /\ handlers \intersect SessionHandlers = {} => ~(cells \subseteq q.base)
    BY <2>2, <2>3, <2>4
  <2> QED
    BY <2>1, <2>5, <2>6, AnswerInv DEF SessionHandlers
<1>7. CASE Emit(c, q) \/ Succeed(c, q)
  <2>1. Applied(q) /\ Announced(q) \in SUBSET Known /\ Announced(q) \subseteq Cell
    BY <1>0, <1>7, KnownIff DEF Emit, Succeed, Applied, History
  <2>2. /\ Answer(c, q, "success", Announced(q))
        /\ \/ UNCHANGED updates
           \/ /\ q.pc = "emit"
              /\ updates' = updates \union {[seq |-> q.updSeq, cells |-> Announced(q)]}
    BY <1>7 DEF Emit, Succeed
  <2>3. PICK cells \in SUBSET Known : cells = Announced(q) /\ Answer(c, q, "success", cells)
    BY <2>1, <2>2
  <2> QED
    BY <2>1, <2>2, <2>3, AnswerInv
<1> QED
  BY <1>3, <1>4, <1>5, <1>6, <1>7

\* Every step keeps the invariant.
LEMMA NextInv == IInv /\ [Next]_vars => IInv'
<1> SUFFICES ASSUME IInv, [Next]_vars PROVE IInv'
  OBVIOUS
<1>1. CASE UNCHANGED vars
  <2>1. UNCHANGED <<handlers, row, account, req, reply, told, updates, issued>>
    BY <1>1 DEF vars
  <2>2. TypeOK' /\ Requests' /\ MismatchIsNews' /\ LostForGood' /\ Numbered'
    BY <2>1 DEF IInv, TypeOK, Requests, MismatchIsNews, LostForGood, Numbered, Stale
  <2>3. Known' = Known /\ Unwritten' = Unwritten /\ Unnumbered' = Unnumbered
    BY <2>1 DEF Known, InFlight, Unwritten, Unnumbered
  <2>4. History' /\ Counted'
    BY <2>1, <2>3 DEF IInv, History, Counted
  <2> QED
    BY <2>1, <2>2, <2>4 DEF IInv
<1>2. CASE \E c \in Client : SubmitUpdate(c) \/ SubmitCreate(c) \/ SubmitDelete(c)
  BY <1>2, SubmitsInv
<1>3. ASSUME NEW c \in Client, NEW q \in req[c],
             \/ NotFound(c, q) \/ ReadMismatch(c, q) \/ ReadExisting(c, q) \/ Read(c, q)
             \/ WriteUpdate(c, q) \/ LoseUpdate(c, q) \/ WriteCreate(c, q)
             \/ WriteDelete(c, q) \/ Refetch(c, q) \/ Throw(c, q)
             \/ Allocate(c, q) \/ Emit(c, q) \/ Succeed(c, q)
      PROVE  IInv'
  BY <1>3, ReadInv, WriteUpdateInv, WriteCreateInv, WriteDeleteInv, AllocateInv, AnswersInv
<1> QED
  BY <1>1, <1>2, <1>3 DEF Next

\* The invariant holds in every reachable state, when every handler that
\* updates compares versions in its write.
THEOREM Invariance ==
    ASSUME "artifactHttp" \notin Handler
    PROVE  Spec => []IInv
BY InitInv, NextInv, PTL DEF Spec

\* One history (docs/protocol.md): whatever answers and updates clients get,
\* in any order, a version of a part stands for one value and a number of
\* UpdatePayload.seq for one update.  artifactUpdateHandler, sessionUpdateHandler,
\* machineUpdateHandler and their kin compare versions where they write.
THEOREM OneHistoryHolds ==
    ASSUME "artifactHttp" \notin Handler
    PROVE  Spec => []OneHistory
<1>1. IInv => OneHistory
  BY KnownIff DEF IInv, OneHistory, History, Numbered
<1> QED
  BY <1>1, Invariance, PTL

\* A "version-mismatch" answer of a handler other than the session ones shows
\* something the request did not expect: a lost race stays lost until the
\* row is fetched again.
THEOREM MismatchHolds ==
    ASSUME "artifactHttp" \notin Handler
    PROVE  Spec => []MismatchIsNews
<1>1. IInv => MismatchIsNews
  BY DEF IInv
<1> QED
  BY <1>1, Invariance, PTL
-----------------------------------------------------------------------------
(* The refinement of VersionedObject.                                      *)

\* The abstract state: the object, the call of a request, the calls and the
\* answers, as the refinement mapping reads them.
Obj == [alive |-> row.alive, born |-> row.born, cell |-> row.cell]
Called(q) ==
    [op |-> q.op, base |-> q.base, value |-> q.value, applied |-> q.pc \in {"alloc", "emit"}]
Calls == [c \in Client |-> {Called(q) : q \in req[c]}]
Answers == [c \in Client |-> reply[c].kind]

\* The fields of a call.
LEMMA CalledIs ==
    ASSUME NEW q
    PROVE  /\ Called(q).op = q.op /\ Called(q).base = q.base /\ Called(q).value = q.value
           /\ Called(q).applied <=> Applied(q)
BY Zenon DEF Called, Applied

\* The call of a request that has written.
LEMMA CalledApplied ==
    ASSUME NEW q, NEW r, ~Applied(q), Applied(r),
           r.op = q.op, r.base = q.base, r.value = q.value
    PROVE  Called(r) = [Called(q) EXCEPT !.applied = TRUE]
<1> DEFINE k == [op |-> q.op, base |-> q.base, value |-> q.value, applied |-> TRUE]
<1>1. (r.pc \in {"alloc", "emit"}) = TRUE
  BY DEF Applied
<1>2. Called(r) = k
  BY <1>1, Zenon DEF Called
<1>3. \A b, t : [[op |-> q.op, base |-> q.base, value |-> q.value, applied |-> b]
                EXCEPT !.applied = t]
               = [op |-> q.op, base |-> q.base, value |-> q.value, applied |-> t]
  OBVIOUS
<1>4. [Called(q) EXCEPT !.applied = TRUE] = k
  BY <1>3, Zenon DEF Called
<1> QED
  BY <1>2, <1>4, Zenon

\* The calls change where the request does.
LEMMA CallsChange ==
    ASSUME TypeOK, NEW c \in Client, NEW S, req' = [req EXCEPT ![c] = S]
    PROVE  Calls' = [Calls EXCEPT ![c] = {Called(q) : q \in S}]
<1>1. \A e \in Client : req'[e] = IF e = c THEN S ELSE req[e]
  BY DEF TypeOK
<1>2. \A e \in Client : Calls'[e] = IF e = c THEN {Called(q) : q \in S} ELSE Calls[e]
  BY <1>1 DEF Calls
<1>3. Calls = [e \in Client |-> Calls[e]] /\ Calls' = [e \in Client |-> Calls'[e]]
  BY DEF Calls
<1> QED
  BY <1>2, <1>3

\* The answers change where the reply does.
LEMMA AnswersChange ==
    ASSUME TypeOK, NEW c \in Client, NEW a, reply' = [reply EXCEPT ![c] = a]
    PROVE  Answers' = [Answers EXCEPT ![c] = a.kind]
<1>1. \A e \in Client : reply'[e] = IF e = c THEN a ELSE reply[e]
  BY DEF TypeOK
<1>2. \A e \in Client : Answers'[e] = IF e = c THEN a.kind ELSE Answers[e]
  BY <1>1 DEF Answers
<1>3. Answers = [e \in Client |-> Answers[e]] /\ Answers' = [e \in Client |-> Answers'[e]]
  BY DEF Answers
<1> QED
  BY <1>2, <1>3

\* A new request is an abstract call.
LEMMA AbstractSubmit ==
    ASSUME TypeOK, NEW c \in Client, NEW h, NEW op, NEW base \in SUBSET told,
           Submit(c, h, op, base)
    PROVE  Object!Submit(c)
<1> DEFINE q == [op |-> op, handler |-> h, base |-> base, value |-> issued + 1,
                 pc |-> "read", seq |-> 0, born |-> 0, updSeq |-> 0]
<1>1. /\ req[c] = {} /\ req' = [req EXCEPT ![c] = {q}]
      /\ reply' = [reply EXCEPT ![c] = NoReply] /\ row' = row /\ told' = told
  BY DEF Submit
<1>2. q.base = base /\ ~Applied(q)
  BY DEF Applied
<1>3. PICK k : k = q
  OBVIOUS
<1> HIDE DEF q
<1>4. Calls' = [Calls EXCEPT ![c] = {Called(k)}]
  <2>1. req' = [req EXCEPT ![c] = {k}]
    BY <1>1, <1>3
  <2>2. Calls' = [Calls EXCEPT ![c] = {Called(s) : s \in {k}}]
    BY <2>1, CallsChange
  <2> QED
    BY <2>2
<1>5. Calls[c] = {} /\ Called(k) \in Calls'[c]
  BY <1>1, <1>4 DEF Calls
<1>6. ~Called(k).applied /\ Called(k).base \subseteq told
  BY <1>2, <1>3, CalledIs
<1>7. Answers' = [Answers EXCEPT ![c] = "none"]
  <2>1. NoReply.kind = "none"
    BY DEF NoReply
  <2>2. Answers' = [Answers EXCEPT ![c] = NoReply.kind]
    BY <1>1, AnswersChange, Zenon
  <2> QED
    BY <2>1, <2>2
<1>8. Obj' = Obj
  BY <1>1 DEF Obj
<1>9. \E m \in Calls'[c] :
        Calls' = [Calls EXCEPT ![c] = {m}] /\ ~m.applied /\ m.base \subseteq told
  BY <1>4, <1>5, <1>6, Zenon
<1> QED
  BY <1>1, <1>5, <1>7, <1>8, <1>9, Zenon DEF Object!Submit, Calls, Called, Answers, Obj

\* The fields of the abstract object.
LEMMA ObjFields == Obj.alive = row.alive /\ Obj.born = row.born /\ Obj.cell = row.cell
BY Zenon DEF Obj

\* A request that finds the versions it expects has the current cells, unless
\* they are of an earlier incarnation.
LEMMA BaseCurrent ==
    ASSUME IInv, NEW c \in Client, NEW q \in req[c], q.pc = "write", Cas(q),
           NEW k, k.base = q.base
    PROVE  Object!Current(k)
<1>0. TypeOK /\ Requests /\ History
  BY DEF IInv
<1>1. Obj.alive
  BY ObjFields DEF Cas
<1>2. ASSUME NEW d \in k.base
      PROVE  \/ d = CellOf(row, d.part)
             \/ d.born # row.born /\ d.version = row.cell[d.part].version
  <2>1. d \in Cell /\ row.cell[d.part].version = d.version
    BY WrittenIs
  <2>2. d \in Known /\ d.part \in Part
    BY <1>0, <2>1, KnownIff, Types DEF Requests
  <2>3. /\ CellOf(row, d.part) \in Known /\ CellOf(row, d.part).part = d.part
        /\ CellOf(row, d.part).born = row.born
        /\ CellOf(row, d.part).version = row.cell[d.part].version
    BY <1>0, <2>2, CellOfType, KnownIff
  <2> QED
    BY <1>0, <2>1, <2>2, <2>3 DEF History
<1>3. \A p : [part |-> p, born |-> Obj.born,
              version |-> Obj.cell[p].version, value |-> Obj.cell[p].value] = CellOf(row, p)
  BY ObjFields DEF CellOf
<1>4. \A d \in k.base :
        \/ d = [part |-> d.part, born |-> Obj.born, version |-> Obj.cell[d.part].version,
                value |-> Obj.cell[d.part].value]
        \/ d.born # Obj.born /\ d.version = Obj.cell[d.part].version
  BY <1>2, <1>3, ObjFields
<1> QED
  BY <1>1, <1>4, Zenon DEF Object!Current, Object!Cell, Obj

\* What the update writes is what the abstract object changes.
LEMMA WrittenChanged ==
    ASSUME IInv, NEW c \in Client, NEW q \in req[c], q.pc = "write", Cas(q),
           NEW k, k.base = q.base, k.value = q.value
    PROVE  Object!Changed(k) = Written(q)
<1>1. /\ Written(q) \in [Part -> [version : Version, value : Value]]
      /\ \A p \in Part : IF p \in Parts(q.base)
                         THEN /\ Written(q)[p].version = row.cell[p].version + 1
                              /\ Written(q)[p].value = q.value
                         ELSE Written(q)[p] = row.cell[p]
  BY WrittenIs
<1>2. \A p \in Part : Written(q)[p] =
        IF p \in {d.part : d \in k.base}
        THEN [version |-> Obj.cell[p].version + 1, value |-> k.value]
        ELSE Obj.cell[p]
  BY <1>1, ObjFields DEF Parts
<1>3. Written(q) = [p \in Part |->
        IF p \in {d.part : d \in k.base}
        THEN [version |-> Obj.cell[p].version + 1, value |-> k.value]
        ELSE Obj.cell[p]]
  BY <1>1, <1>2
<1> QED
  BY <1>3, Zenon DEF Object!Changed, Obj

\* Replacing one field of the abstract object.
LEMMA ObjExcept ==
    ASSUME NEW a, NEW b, NEW f, NEW g
    PROVE  /\ [[alive |-> a, born |-> b, cell |-> f] EXCEPT !.cell = g]
                = [alive |-> a, born |-> b, cell |-> g]
           /\ [[alive |-> a, born |-> b, cell |-> f] EXCEPT !.alive = g]
                = [alive |-> g, born |-> b, cell |-> f]
OBVIOUS

\* A write is the instant at which a call is applied.
LEMMA AbstractApply ==
    ASSUME IInv, NEW c \in Client, NEW q \in req[c],
           WriteUpdate(c, q) \/ WriteCreate(c, q) \/ WriteDelete(c, q), row' \in Row
    PROVE  Object!Apply(c)
<1>0. TypeOK /\ Requests
  BY DEF IInv
<1>1. q.pc = "write" /\ Step(c, q, "alloc")
  BY DEF WriteUpdate, WriteCreate, WriteDelete
<1>2. PICK r \in Request :
        /\ req' = [req EXCEPT ![c] = {r}]
        /\ r.handler = q.handler /\ r.op = q.op /\ r.base = q.base
        /\ r.pc = "alloc" /\ r.seq = q.seq /\ r.value = q.value
        /\ r.born = row'.born /\ r.born # 0
  BY <1>0, <1>1, WriteStep
<1>3. ~Applied(q) /\ Applied(r)
  BY <1>1, <1>2 DEF Applied
<1>4. PICK k : k = Called(q)
  OBVIOUS
<1>5. /\ k \in Calls[c] /\ k.op = q.op /\ k.base = q.base /\ k.value = q.value
      /\ ~k.applied
  BY <1>3, <1>4, CalledIs DEF Calls
<1>6. Calls' = [Calls EXCEPT ![c] = {[k EXCEPT !.applied = TRUE]}]
  <2>1. Calls' = [Calls EXCEPT ![c] = {Called(s) : s \in {r}}]
    BY <1>0, <1>2, CallsChange
  <2>2. Calls' = [Calls EXCEPT ![c] = {Called(r)}]
    BY <2>1
  <2>3. Called(r) = [k EXCEPT !.applied = TRUE]
    BY <1>2, <1>3, <1>4, CalledApplied, Zenon
  <2> QED
    BY <2>2, <2>3, Zenon
<1>7. told' = told /\ Answers' = Answers
  BY <1>1 DEF Step, Answers
<1>8. \/ /\ k.op = "update" /\ Object!Current(k)
         /\ Obj' = [Obj EXCEPT !.cell = Object!Changed(k)]
      \/ /\ k.op = "create" /\ ~Obj.alive
         /\ Obj' = [alive |-> TRUE, born |-> Obj.born + 1, cell |-> Object!Fresh(k)]
      \/ /\ k.op = "delete" /\ Obj.alive
         /\ Obj' = [Obj EXCEPT !.alive = FALSE]
  <2>1. CASE WriteUpdate(c, q)
    <3>1. q.op = "update" /\ Cas(q)
      BY <2>1 DEF WriteUpdate
    <3>2. row'.alive = row.alive /\ row'.born = row.born /\ row'.cell = Written(q)
      BY <2>1, RowWritten
    <3>3. Obj' = [alive |-> row.alive, born |-> row.born, cell |-> Written(q)]
      BY <3>2, Zenon DEF Obj
    <3>4. Obj' = [Obj EXCEPT !.cell = Written(q)]
      <4>1. [Obj EXCEPT !.cell = Written(q)]
              = [alive |-> row.alive, born |-> row.born, cell |-> Written(q)]
        BY ObjExcept DEF Obj
      <4> QED
        BY <3>3, <4>1, Zenon
    <3>5. Object!Current(k) /\ Object!Changed(k) = Written(q)
      BY <1>1, <1>5, <3>1, BaseCurrent, WrittenChanged
    <3> QED
      BY <1>5, <3>1, <3>4, <3>5, Zenon
  <2>2. CASE WriteCreate(c, q)
    <3>1. /\ q.op = "create" /\ ~row.alive
          /\ row' = [alive |-> TRUE, born |-> row.born + 1, seq |-> 0,
                     cell |-> [p \in Part |-> [version |-> 1, value |-> q.value]]]
      BY <2>2, Zenon DEF WriteCreate
    <3>2. Object!Fresh(k) = [p \in Part |-> [version |-> 1, value |-> q.value]]
      BY <1>5, Zenon DEF Object!Fresh
    <3>3. /\ row'.alive = TRUE /\ row'.born = row.born + 1
          /\ row'.cell = [p \in Part |-> [version |-> 1, value |-> q.value]]
      BY <3>1, Zenon
    <3>4. Obj' = [alive |-> TRUE, born |-> row.born + 1, cell |-> Object!Fresh(k)]
      BY <3>2, <3>3, Zenon DEF Obj
    <3> QED
      BY <1>5, <3>1, <3>4, ObjFields, Zenon
  <2>3. CASE WriteDelete(c, q)
    <3>1. /\ q.op = "delete" /\ row.alive /\ row' = [row EXCEPT !.alive = FALSE]
      BY <2>3, Zenon DEF WriteDelete
    <3>2. row = [alive |-> row.alive, born |-> row.born, seq |-> row.seq, cell |-> row.cell]
      BY <1>0, Types
    <3>3. row'.alive = FALSE /\ row'.born = row.born /\ row'.cell = row.cell
      <4>1. \A a, b, s, f, g :
              LET n == [[alive |-> a, born |-> b, seq |-> s, cell |-> f] EXCEPT !.alive = g]
              IN  n.alive = g /\ n.born = b /\ n.cell = f
        OBVIOUS
      <4> QED
        BY <3>1, <3>2, <4>1, Zenon
    <3>4. Obj' = [alive |-> FALSE, born |-> row.born, cell |-> row.cell]
      BY <3>3, Zenon DEF Obj
    <3>5. Obj' = [Obj EXCEPT !.alive = FALSE]
      <4>1. PICK z : z = FALSE
        BY Zenon
      <4>2. Obj' = [alive |-> z, born |-> row.born, cell |-> row.cell]
        BY <3>4, <4>1, Zenon
      <4>3. [Obj EXCEPT !.alive = z] = [alive |-> z, born |-> row.born, cell |-> row.cell]
        BY ObjExcept DEF Obj
      <4> QED
        BY <4>1, <4>2, <4>3, Zenon
    <3> QED
      BY <1>5, <3>1, <3>5, ObjFields, Zenon
  <2> QED
    BY <2>1, <2>2, <2>3
<1> QED
  BY <1>5, <1>6, <1>7, <1>8, Zenon
  DEF Object!Apply, Object!Current, Object!Changed, Object!Fresh, Object!Cell,
      Calls, Called, Answers, Obj

\* The cells of the abstract object are those of a row that is there.
LEMMA ObjCells ==
    ASSUME row.alive
    PROVE  \A d \in CellsOf(row) : d \in Object!Cells(Obj)
<1>1. \A p : CellOf(row, p) = [part |-> p, born |-> Obj.born,
                version |-> Obj.cell[p].version, value |-> Obj.cell[p].value]
  BY ObjFields DEF CellOf
<1>2. Obj.alive
  BY ObjFields
<1>3. CellsOf(row) = {[part |-> p, born |-> Obj.born, version |-> Obj.cell[p].version,
                       value |-> Obj.cell[p].value] : p \in Part}
  BY <1>1 DEF CellsOf
<1> QED
  BY <1>2, <1>3 DEF Object!Cells, Object!Cell

\* An answer that tells cells of the object or of its own write, and says
\* truly whether the request was applied, is an abstract answer.
LEMMA AbstractAnswer ==
    ASSUME TypeOK, NEW c \in Client, NEW q \in req[c], NEW cells,
           NEW kind \in {"none", "success", "mismatch", "existing", "error"},
           Answer(c, q, kind, cells),
           kind = "success" => Applied(q),
           kind \in {"mismatch", "existing"} => ~Applied(q),
           \/ cells \subseteq told
           \/ row.alive /\ cells \subseteq CellsOf(row)
           \/ Applied(q) /\ q.op # "delete" /\ cells \subseteq Announced(q)
    PROVE  Object!Answer(c)
<1> DEFINE a == [kind |-> kind, base |-> q.base, cells |-> cells]
<1>1. /\ req' = [req EXCEPT ![c] = {}] /\ reply' = [reply EXCEPT ![c] = a]
      /\ told' = told \union cells /\ row' = row
  BY DEF Answer
<1>2. PICK k : k = Called(q)
  OBVIOUS
<1>3. /\ k \in Calls[c] /\ k.op = q.op /\ k.base = q.base /\ k.value = q.value
      /\ k.applied <=> Applied(q)
  BY <1>2, CalledIs DEF Calls
<1>4. Calls' = [Calls EXCEPT ![c] = {}]
  <2>1. Calls' = [Calls EXCEPT ![c] = {Called(s) : s \in {}}]
    BY <1>1, CallsChange
  <2> QED
    BY <2>1
<1>5. Answers' = [Answers EXCEPT ![c] = kind]
  <2>1. PICK b : b = a
    OBVIOUS
  <2>2. b.kind = kind
    BY <2>1
  <2> HIDE DEF a
  <2>3. reply' = [reply EXCEPT ![c] = b]
    BY <1>1, <2>1
  <2> QED
    BY <2>2, <2>3, AnswersChange
<1>6. Obj' = Obj
  BY <1>1 DEF Obj
<1>7. ASSUME NEW d \in told' \ told
      PROVE  d \in Object!Cells(Obj) \/ Object!Made(k, d)
  <2>0. d \in cells
    BY <1>1
  <2>1. CASE row.alive /\ cells \subseteq CellsOf(row)
    BY <2>0, <2>1, ObjCells
  <2>2. CASE Applied(q) /\ q.op # "delete" /\ cells \subseteq Announced(q)
    <3>1. \/ q.op = "create" /\ d.version = 1 /\ d.value = q.value
          \/ /\ q.op = "update" /\ d.value = q.value
             /\ \E b \in q.base : b.part = d.part /\ d.version = b.version + 1
      <4>1. q.op \in {"update", "create"}
        BY <2>2, Types DEF Request
      <4> QED
        BY <2>0, <2>2, <4>1 DEF Announced
    <3>2. k.applied /\ k.op = q.op /\ k.base = q.base /\ k.value = q.value
      BY <1>3, <2>2
    <3> QED
      BY <3>1, <3>2 DEF Object!Made
  <2> QED
    BY <1>1, <2>0, <2>1, <2>2
<1>8. /\ told \subseteq told'
      /\ kind = "success" => k.applied
      /\ kind \in {"mismatch", "existing"} => ~k.applied
  BY <1>1, <1>3
<1>9. \E answer \in {"success", "mismatch", "existing", "error", "none"} :
        /\ Answers' = [Answers EXCEPT ![c] = answer]
        /\ answer = "success" => k.applied
        /\ answer \in {"mismatch", "existing"} => ~k.applied
  BY <1>5, <1>8, Zenon
<1> QED
  BY <1>3, <1>4, <1>6, <1>7, <1>8, <1>9, Zenon
  DEF Object!Answer, Object!Cells, Object!Cell, Object!Made, Calls, Called, Answers, Obj

\* A step of a request that writes nothing is no step of the abstract object.
LEMMA AbstractStutter ==
    ASSUME TypeOK, NEW c \in Client, NEW q \in req[c],
           Read(c, q) \/ LoseUpdate(c, q) \/ Allocate(c, q)
    PROVE  UNCHANGED Object!vars
<1>1. /\ q \in Request /\ row.born \in 0 .. MaxBorn /\ row.seq \in 0 .. MaxRequests
      /\ \A s \in req[c] : s = q
  BY WriteAssumption, Types DEF TypeOK, Row
<1>2. UNCHANGED <<row, reply, told>>
  BY DEF Read, LoseUpdate, Allocate, Step
<1>3. PICK r : /\ req' = [req EXCEPT ![c] = {r}]
               /\ r.op = q.op /\ r.base = q.base /\ r.value = q.value
               /\ Applied(r) <=> Applied(q)
  <2>1. CASE Read(c, q)
    <3> DEFINE r == [[q EXCEPT !.seq = row.seq] EXCEPT !.pc = "write", !.born = row.born]
    <3>1. req' = [req EXCEPT ![c] = {r}] /\ q.pc = "read"
      BY <1>2, <2>1 DEF Read, Step
    <3>2. r.op = q.op /\ r.base = q.base /\ r.value = q.value /\ r.pc = "write"
      BY <1>1 DEF Request
    <3> HIDE DEF r
    <3> QED
      BY <3>1, <3>2 DEF Applied
  <2>2. CASE LoseUpdate(c, q)
    <3> DEFINE r == [q EXCEPT !.pc = "lost", !.born = row.born]
    <3>1. req' = [req EXCEPT ![c] = {r}] /\ q.pc = "write"
      BY <1>2, <2>2 DEF LoseUpdate, Step
    <3>2. r.op = q.op /\ r.base = q.base /\ r.value = q.value /\ r.pc = "lost"
      BY <1>1 DEF Request
    <3> HIDE DEF r
    <3> QED
      BY <3>1, <3>2 DEF Applied
  <2>3. CASE Allocate(c, q)
    <3> DEFINE r == [q EXCEPT !.pc = "emit", !.updSeq = account + 1]
    <3>1. req' = [req EXCEPT ![c] = {r}] /\ q.pc = "alloc"
      BY <2>3 DEF Allocate
    <3>2. r.op = q.op /\ r.base = q.base /\ r.value = q.value /\ r.pc = "emit"
      BY <1>1 DEF Request
    <3> HIDE DEF r
    <3> QED
      BY <3>1, <3>2 DEF Applied
  <2> QED
    BY <2>1, <2>2, <2>3
<1>4. Called(r) = Called(q)
  <2>1. (r.pc \in {"alloc", "emit"}) = (q.pc \in {"alloc", "emit"})
    BY <1>3 DEF Applied
  <2> QED
    BY <1>3, <2>1, Zenon DEF Called
<1>5. Calls' = Calls
  <2>1. \A e \in Client : req'[e] = IF e = c THEN {r} ELSE req[e]
    BY <1>3 DEF TypeOK
  <2>2. req[c] = {q} /\ req'[c] = {r}
    BY <1>1, <2>1
  <2>3. {Called(s) : s \in req'[c]} = {Called(s) : s \in req[c]}
    BY <1>4, <2>2
  <2>4. \A e \in Client : {Called(s) : s \in req'[e]} = {Called(s) : s \in req[e]}
    BY <2>1, <2>3
  <2> QED
    BY <2>4, Zenon DEF Calls
<1>6. Obj' = Obj /\ Answers' = Answers
  BY <1>2 DEF Obj, Answers
<1> QED
  BY <1>2, <1>5, <1>6, Zenon DEF Object!vars, Calls, Called, Obj, Answers

\* Every answer says truly whether the request was applied.
LEMMA AbstractAnswers ==
    ASSUME IInv, NEW c \in Client, NEW q \in req[c],
           \/ NotFound(c, q) \/ ReadMismatch(c, q) \/ ReadExisting(c, q)
           \/ Refetch(c, q) \/ Throw(c, q) \/ Emit(c, q) \/ Succeed(c, q)
    PROVE  Object!Answer(c)
<1>0. TypeOK /\ Requests
  BY DEF IInv
<1>1. q.base \subseteq told /\ q.base \subseteq Cell
  BY <1>0, Types DEF Requests
<1>2. \A d \in q.base : CellOf(row, d.part) \in CellsOf(row)
  BY <1>0, <1>1, Types, CellOfType
<1>3. CASE NotFound(c, q) \/ Throw(c, q)
  <2>1. PICK kind \in {"none", "error"} : Answer(c, q, kind, {})
    BY <1>3 DEF NotFound, Throw
  <2> QED
    BY <1>0, <2>1, AbstractAnswer
<1>4. CASE ReadMismatch(c, q) \/ ReadExisting(c, q)
  <2>1. ~Applied(q) /\ row.alive
    BY <1>4 DEF ReadMismatch, ReadExisting, Applied
  <2>2. PICK kind \in {"mismatch", "existing"}, cells \in SUBSET CellsOf(row) :
          Answer(c, q, kind, cells)
    <3>1. Current(Mismatch(q)) \subseteq CellsOf(row)
      BY <1>2 DEF Current, Mismatch
    <3> QED
      BY <1>4, <3>1 DEF ReadMismatch, ReadExisting
  <2> QED
    BY <1>0, <2>1, <2>2, AbstractAnswer
<1>5. CASE Refetch(c, q)
  <2>1. ~Applied(q)
    BY <1>5 DEF Refetch, Applied
  <2>2. PICK cells : /\ Answer(c, q, "mismatch", cells)
                     /\ cells \subseteq told \/ (row.alive /\ cells \subseteq CellsOf(row))
    <3>1. Current(q.base) \subseteq CellsOf(row)
      BY <1>2 DEF Current
    <3> QED
      BY <1>1, <1>5, <3>1 DEF Refetch
  <2> QED
    BY <1>0, <2>1, <2>2, AbstractAnswer
<1>6. CASE Emit(c, q) \/ Succeed(c, q)
  <2>1. Applied(q) /\ Answer(c, q, "success", Announced(q))
    BY <1>6 DEF Emit, Succeed, Applied
  <2>2. q.op = "delete" => Announced(q) = {}
    BY <1>0 DEF Requests, Announced
  <2>3. PICK cells : cells = Announced(q) /\ Answer(c, q, "success", cells)
    BY <2>1
  <2> QED
    BY <1>0, <2>1, <2>2, <2>3, AbstractAnswer
<1> QED
  BY <1>3, <1>4, <1>5, <1>6

\* Every step of the handlers is a step of the abstract object, or none.
LEMMA AbstractNext == IInv /\ [Next]_vars => [Object!Next]_(Object!vars)
<1> SUFFICES ASSUME IInv, [Next]_vars PROVE [Object!Next]_(Object!vars)
  OBVIOUS
<1>0. TypeOK /\ row' \in Row
  BY NextInv DEF IInv, TypeOK
<1>1. CASE UNCHANGED vars
  <2>1. UNCHANGED <<row, req, reply, told>>
    BY <1>1 DEF vars
  <2>2. UNCHANGED Object!vars
    BY <2>1, Zenon DEF Object!vars
  <2> QED
    BY <2>2
<1>2. ASSUME NEW c \in Client, SubmitUpdate(c) \/ SubmitCreate(c) \/ SubmitDelete(c)
      PROVE  Object!Submit(c)
  <2>1. PICK h, op, base : base \in SUBSET told /\ Submit(c, h, op, base)
    BY <1>2 DEF SubmitUpdate, SubmitCreate, SubmitDelete, Base
  <2> QED
    BY <1>0, <2>1, AbstractSubmit
<1>3. ASSUME NEW c \in Client, NEW q \in req[c],
             \/ NotFound(c, q) \/ ReadMismatch(c, q) \/ ReadExisting(c, q) \/ Read(c, q)
             \/ WriteUpdate(c, q) \/ LoseUpdate(c, q) \/ WriteCreate(c, q)
             \/ WriteDelete(c, q) \/ Refetch(c, q) \/ Throw(c, q)
             \/ Allocate(c, q) \/ Emit(c, q) \/ Succeed(c, q)
      PROVE  Object!Apply(c) \/ Object!Answer(c) \/ UNCHANGED Object!vars
  BY <1>0, <1>3, AbstractApply, AbstractAnswers, AbstractStutter
<1> QED
  BY <1>1, <1>2, <1>3 DEF Next, Object!Next

\* Linearizable: with handlers that compare versions where they write, the
\* object is an atomic one.  The instant a request takes effect is its
\* updateMany, create or delete; every answer agrees with it.
THEOREM Refinement ==
    ASSUME "artifactHttp" \notin Handler
    PROVE  Spec => Linearizable
<1>1. Init => Object!Init
  <2> SUFFICES ASSUME Init PROVE Object!Init
    OBVIOUS
  <2>1. /\ row = [alive |-> TRUE, born |-> 1, seq |-> 0,
                  cell |-> [p \in Part |-> [version |-> 1, value |-> 0]]]
        /\ req = [c \in Client |-> {}] /\ reply = [c \in Client |-> NoReply]
        /\ told = CellsOf(row)
    BY Zenon DEF Init
  <2>2. row.alive
    BY <2>1, Zenon
  <2>3. Obj.alive
    BY <2>2, ObjFields
  <2>4. NoReply.kind = "none"
    BY DEF NoReply
  <2>5. Calls = [c \in Client |-> {}] /\ Answers = [c \in Client |-> "none"]
    BY <2>1, <2>4 DEF Calls, Answers
  <2>6. told = Object!Cells(Obj)
    <3>1. \A p : CellOf(row, p) = [part |-> p, born |-> Obj.born,
                    version |-> Obj.cell[p].version, value |-> Obj.cell[p].value]
      BY ObjFields DEF CellOf
    <3>2. told = {[part |-> p, born |-> Obj.born, version |-> Obj.cell[p].version,
                   value |-> Obj.cell[p].value] : p \in Part}
      BY <2>1, <3>1 DEF CellsOf
    <3> QED
      BY <2>3, <3>2 DEF Object!Cells, Object!Cell
  <2> QED
    BY <2>3, <2>5, <2>6, Zenon
    DEF Object!Init, Object!Cells, Object!Cell, Calls, Called, Answers, Obj
<1> QED
  BY <1>1, AbstractNext, Invariance, PTL DEF Spec, Linearizable, Object!Spec

\* NoSilentOverwrite (docs/protocol.md:24): a write moves each version it
\* replaces on by one.  The HTTP artifact update, which the hypothesis leaves
\* out, is the only handler that breaks this.
THEOREM NoOverwriteHolds ==
    ASSUME "artifactHttp" \notin Handler
    PROVE  Spec => NoSilentOverwrite
<1> DEFINE Step1 == \A p \in Part :
             row'.cell[p] # row.cell[p] /\ row'.born = row.born
                => row'.cell[p].version = row.cell[p].version + 1
<1>1. ASSUME IInv, NEW c \in Client, NEW q \in req[c], WriteUpdate(c, q)
      PROVE  Step1
  <2>1. Cas(q) /\ q.pc = "write"
    BY <1>1 DEF WriteUpdate
  <2> QED
    BY <1>1, <2>1, RowWritten, WrittenIs
<1>2. ASSUME IInv, NEW c \in Client, NEW q \in req[c], WriteCreate(c, q)
      PROVE  Step1
  <2>1. row'.born = row.born + 1
    BY <1>2, Zenon DEF WriteCreate
  <2>2. row.born \in Nat
    BY <1>2, Types DEF IInv
  <2> QED
    BY <2>1, <2>2
<1>3. ASSUME IInv, NEW c \in Client, NEW q \in req[c], WriteDelete(c, q)
      PROVE  Step1
  <2>1. row' = [row EXCEPT !.alive = FALSE] /\ row \in Row
    BY <1>3, Zenon DEF WriteDelete, IInv, TypeOK
  <2>2. row'.cell = row.cell
    BY <2>1 DEF Row
  <2> QED
    BY <2>2
<1>4. IInv /\ [Next]_vars => [Step1]_vars
  <2> SUFFICES ASSUME IInv, Next PROVE Step1
    OBVIOUS
  <2>1. CASE row' = row
    BY <2>1
  <2>2. CASE row' # row
    <3>1. PICK c \in Client : \E q \in req[c] :
            WriteUpdate(c, q) \/ WriteCreate(c, q) \/ WriteDelete(c, q)
      <4>1. \A c \in Client : ~SubmitUpdate(c) /\ ~SubmitCreate(c) /\ ~SubmitDelete(c)
        BY <2>2 DEF SubmitUpdate, SubmitCreate, SubmitDelete, Submit
      <4>2. \A c \in Client : \A q \in req[c] :
              /\ ~NotFound(c, q) /\ ~ReadMismatch(c, q) /\ ~ReadExisting(c, q)
              /\ ~Refetch(c, q) /\ ~Throw(c, q) /\ ~Emit(c, q) /\ ~Succeed(c, q)
        BY <2>2 DEF NotFound, ReadMismatch, ReadExisting, Refetch, Throw, Emit, Succeed,
                    Answer
      <4>3. \A c \in Client : \A q \in req[c] :
              ~Read(c, q) /\ ~LoseUpdate(c, q) /\ ~Allocate(c, q)
        BY <2>2 DEF Read, LoseUpdate, Allocate
      <4> QED
        BY <4>1, <4>2, <4>3, Zenon DEF Next
    <3> QED
      BY <1>1, <1>2, <1>3, <3>1, Zenon
  <2> QED
    BY <2>1, <2>2
<1> QED
  BY <1>4, Invariance, PTL DEF Spec, NoSilentOverwrite
=============================================================================
