---------------------------- MODULE VersionedWrite ----------------------------
(***************************************************************************)
(* The handlers that write versioned fields, on one object: a session      *)
(* (metadata, agent state), a machine (metadata, daemon state), an         *)
(* artifact (header, body), the account settings or an access key.  They   *)
(* are variations of one handler, each step of which awaits the database:  *)
(*                                                                         *)
(*   Read      the row is read and expectedVersion compared                *)
(*   Write     updateMany ... WHERE version = expectedVersion              *)
(*   Refetch   the row is read again after a lost race                     *)
(*   Allocate  allocateUserSeq numbers the update                          *)
(*   Emit      the update is emitted and the request answered              *)
(*                                                                         *)
(* The HTTP artifact route writes without comparing versions, and a user   *)
(* client's session write answers a lost race from its first read.         *)
(* Creating and deleting follow the same steps.  Any step may throw.       *)
(*                                                                         *)
(* A request writes a value of its own, its number, to every part it       *)
(* changes.  Lease checks of runtime connections are the subject of        *)
(* RuntimeLease: here they pass or fail.                                   *)
(*                                                                         *)
(* Definitions whose name ends in Mut are deliberate defects of the        *)
(* definition that follows them: each one breaks a property below.         *)
(***************************************************************************)
EXTENDS Naturals

CONSTANTS
    Client,         \* clients, with one request each at a time
    Part,           \* the versioned parts of the object
    Handler,        \* bound: the handlers considered
    MaxRequests,    \* bound: requests
    MaxBorn         \* bound: incarnations

Kinds ==
    {{"sessionUser", "sessionRuntime"}, {"machine"}, {"account"}, {"accessKey"},
     {"artifact", "artifactHttp"}}

ASSUME WriteAssumption ==
    /\ MaxRequests \in Nat /\ MaxBorn \in Nat \ {0}
    /\ Handler \subseteq UNION Kinds /\ Handler # {}

VARIABLES
    handlers,   \* the handlers that write this kind of object
    row,        \* the object's row
    account,    \* Account.seq
    req,        \* the request of each client, if any
    reply,      \* the last answer each client got
    told,       \* the cells clients learnt from answers and updates
    updates,    \* the updates emitted
    issued      \* the number of requests so far

vars == <<handlers, row, account, req, reply, told, updates, issued>>

Version == 0 .. MaxRequests + 1
Value == 0 .. MaxRequests

Row ==
    [alive : BOOLEAN, born : 1 .. MaxBorn, seq : 0 .. MaxRequests,
     cell : [Part -> [version : Version, value : Value]]]

Cell == [part : Part, born : 1 .. MaxBorn, version : Version, value : Value]

\* seq: the row's as read; born: the row's as read or written; updSeq: the
\* number of the update
Request ==
    [op : {"update", "create", "delete"}, handler : Handler, base : SUBSET Cell,
     value : Value, pc : {"read", "write", "lost", "alloc", "emit"},
     seq : 0 .. MaxRequests, born : 0 .. MaxBorn, updSeq : 0 .. MaxRequests]

Reply ==
    [kind : {"none", "success", "mismatch", "existing", "error"},
     base : SUBSET Cell, cells : SUBSET Cell]

TypeOK ==
    /\ handlers \subseteq Handler
    /\ row \in Row
    /\ account \in 0 .. MaxRequests
    /\ req \in [Client -> SUBSET Request]
    /\ \A c \in Client : \A q, r \in req[c] : q = r
    /\ reply \in [Client -> Reply]
    /\ told \subseteq Cell
    /\ updates \subseteq [seq : 1 .. MaxRequests, cells : SUBSET Cell]
    /\ issued \in 0 .. MaxRequests

Artifacts == {"artifact", "artifactHttp"}

CellOf(r, p) ==
    [part |-> p, born |-> r.born,
     version |-> r.cell[p].version, value |-> r.cell[p].value]

CellsOf(r) == {CellOf(r, p) : p \in Part}

Parts(cells) == {d.part : d \in cells}

NoReply == [kind |-> "none", base |-> {}, cells |-> {}]

Init ==
    /\ handlers \in {k \intersect Handler : k \in Kinds} \ {{}}
    /\ row = [alive |-> TRUE, born |-> 1, seq |-> 0,
              cell |-> [p \in Part |-> [version |-> 1, value |-> 0]]]
    /\ account = 0
    /\ req = [c \in Client |-> {}]
    /\ reply = [c \in Client |-> NoReply]
    /\ told = CellsOf(row)
    /\ updates = {}
    /\ issued = 0
-----------------------------------------------------------------------------
(* Requests and answers.                                                   *)

\* One part for most handlers, any parts for artifacts: HTTP does not even
\* insist on one.
Base(h) ==
    {b \in SUBSET told :
        /\ \A d, e \in b : d.part = e.part => d = e
        /\ \/ h = "artifactHttp"
           \/ h = "artifact" /\ b # {}
           \/ \E d \in b : b = {d}}

Submit(c, h, op, base) ==
    /\ req[c] = {}
    /\ issued < MaxRequests
    /\ issued' = issued + 1
    /\ req' = [req EXCEPT ![c] =
         {[op |-> op, handler |-> h, base |-> base, value |-> issued + 1,
           pc |-> "read", seq |-> 0, born |-> 0, updSeq |-> 0]}]
    /\ reply' = [reply EXCEPT ![c] = NoReply]
    /\ UNCHANGED <<handlers, row, account, told, updates>>

SubmitUpdate(c) == \E h \in handlers : \E b \in Base(h) : Submit(c, h, "update", b)

SubmitCreate(c) == \E h \in handlers \intersect Artifacts : Submit(c, h, "create", {})

\* DELETE of an artifact, or of the session: machines and accounts stay.
SubmitDelete(c) ==
    \E h \in handlers \ {"machine", "account"} : Submit(c, h, "delete", {})

Answer(c, q, kind, cells) ==
    /\ req' = [req EXCEPT ![c] = {}]
    /\ reply' = [reply EXCEPT ![c] = [kind |-> kind, base |-> q.base, cells |-> cells]]
    /\ told' = told \union cells
    /\ UNCHANGED <<handlers, row, account, issued>>

Step(c, q, pc) ==
    /\ req' = [req EXCEPT ![c] = {[q EXCEPT !.pc = pc, !.born = row'.born]}]
    /\ UNCHANGED <<handlers, account, reply, told, updates, issued>>
-----------------------------------------------------------------------------
(* Reading.                                                                *)

\* The requested parts whose version is not the expected one
Mismatch(q) == {d \in q.base : row.cell[d.part].version # d.version}

Current(cells) == {CellOf(row, d.part) : d \in cells}

\* "not found": most handlers answer an error, update-metadata nothing at all.
NotFound(c, q) ==
    /\ q.pc = "read" /\ q.op # "create"
    /\ ~row.alive
    /\ \/ Answer(c, q, "error", {})
       \/ q.handler \in {"sessionUser", "sessionRuntime"} /\ Answer(c, q, "none", {})
    /\ UNCHANGED updates

ReadMismatch(c, q) ==
    /\ q.pc = "read" /\ q.op = "update"
    /\ row.alive
    /\ Mismatch(q) # {}
    /\ Answer(c, q, "mismatch", Current(Mismatch(q)))
    /\ UNCHANGED updates

ReadExisting(c, q) ==
    /\ q.pc = "read" /\ q.op = "create"
    /\ row.alive
    /\ Answer(c, q, "existing", CellsOf(row))
    /\ UNCHANGED updates

Read(c, q) ==
    /\ q.pc = "read"
    /\ \/ q.op = "update" /\ row.alive /\ Mismatch(q) = {}
       \/ q.op = "create" /\ ~row.alive
       \/ q.op = "delete" /\ row.alive
    /\ UNCHANGED row
    /\ Step(c, [q EXCEPT !.seq = row.seq], "write")
-----------------------------------------------------------------------------
(* Writing.                                                                *)

CasMut(q) == row.alive

\* The WHERE clause of updateMany; the HTTP artifact update has only the id.
Cas(q) ==
    /\ row.alive
    /\ q.handler = "artifactHttp" \/ Mismatch(q) = {}

\* The new versions come from the request, the new seq from the first read.
Written(q) ==
    [p \in Part |->
        IF p \in Parts(q.base)
        THEN [version |-> 1 + CHOOSE v \in Version :
                             \E d \in q.base : d.part = p /\ d.version = v,
              value |-> q.value]
        ELSE row.cell[p]]

WriteUpdate(c, q) ==
    /\ q.pc = "write" /\ q.op = "update"
    /\ Cas(q)
    /\ row' = [row EXCEPT !.cell = Written(q),
                          !.seq = IF q.handler \in Artifacts THEN q.seq + 1 ELSE @]
    /\ Step(c, q, "alloc")

LoseUpdateMut(c, q) ==
    /\ q.pc = "write" /\ q.op = "update"
    /\ ~Cas(q) \/ q.handler = "sessionRuntime"
    /\ q.handler # "artifactHttp"
    /\ UNCHANGED row
    /\ Step(c, q, "alloc")

\* count = 0, also when a runtime's lease check fails
LoseUpdate(c, q) ==
    /\ q.pc = "write" /\ q.op = "update"
    /\ ~Cas(q) \/ q.handler = "sessionRuntime"
    /\ q.handler # "artifactHttp"
    /\ UNCHANGED row
    /\ Step(c, q, "lost")

WriteCreate(c, q) ==
    /\ q.pc = "write" /\ q.op = "create"
    /\ ~row.alive
    /\ row.born < MaxBorn
    /\ row' = [alive |-> TRUE, born |-> row.born + 1, seq |-> 0,
               cell |-> [p \in Part |-> [version |-> 1, value |-> q.value]]]
    /\ Step(c, q, "alloc")

WriteDelete(c, q) ==
    /\ q.pc = "write" /\ q.op = "delete"
    /\ row.alive
    /\ row' = [row EXCEPT !.alive = FALSE]
    /\ Step(c, q, "alloc")

RefetchMut(c, q) ==
    /\ q.pc = "lost"
    /\ Answer(c, q, "mismatch", q.base)
    /\ UNCHANGED updates

\* A user client's session write answers what it read first; the others
\* answer the row as it is now, a session that is gone as it was read first.
Refetch(c, q) ==
    /\ q.pc = "lost"
    /\ Answer(c, q, "mismatch",
         IF q.handler = "sessionUser" \/ (q.handler = "sessionRuntime" /\ ~row.alive)
         THEN q.base
         ELSE IF row.alive THEN Current(q.base) ELSE {})
    /\ UNCHANGED updates

\* An exception at any step: a database error, a row that is gone or exists
\* already, a connection that no longer owns its lease.
Throw(c, q) ==
    /\ Answer(c, q, "error", {})
    /\ UNCHANGED updates
-----------------------------------------------------------------------------
(* Announcing.                                                             *)

\* The cells of the update: the parts as written
Announced(q) ==
    IF q.op = "create"
    THEN {[part |-> p, born |-> q.born, version |-> 1, value |-> q.value] : p \in Part}
    ELSE {[part |-> d.part, born |-> q.born, version |-> d.version + 1,
           value |-> q.value] : d \in q.base}

\* Writing an access key is not announced.
Silent(q) == q.handler = "accessKey" /\ q.op = "update"

Allocate(c, q) ==
    /\ q.pc = "alloc" /\ ~Silent(q)
    /\ account' = account + 1
    /\ req' = [req EXCEPT ![c] = {[q EXCEPT !.pc = "emit", !.updSeq = account + 1]}]
    /\ UNCHANGED <<handlers, row, reply, told, updates, issued>>

Emit(c, q) ==
    /\ q.pc = "emit"
    /\ updates' = updates \union {[seq |-> q.updSeq, cells |-> Announced(q)]}
    /\ Answer(c, q, "success", Announced(q))

Succeed(c, q) ==
    /\ q.pc = "alloc" /\ Silent(q)
    /\ Answer(c, q, "success", Announced(q))
    /\ UNCHANGED updates
-----------------------------------------------------------------------------
Next ==
    \E c \in Client :
        \/ SubmitUpdate(c) \/ SubmitCreate(c) \/ SubmitDelete(c)
        \/ \E q \in req[c] :
             \/ NotFound(c, q) \/ ReadMismatch(c, q) \/ ReadExisting(c, q) \/ Read(c, q)
             \/ WriteUpdate(c, q) \/ LoseUpdate(c, q) \/ WriteCreate(c, q)
             \/ WriteDelete(c, q) \/ Refetch(c, q) \/ Throw(c, q)
             \/ Allocate(c, q) \/ Emit(c, q) \/ Succeed(c, q)

Spec == Init /\ [][Next]_vars
-----------------------------------------------------------------------------
(***************************************************************************)
(* Every handler that compares versions in its write makes the object an   *)
(* atomic one: a write replaces exactly the cells its client had seen, a   *)
(* request is applied at most once and before it succeeds, and never when  *)
(* it is answered "version-mismatch" (VersionedObject).                    *)
(***************************************************************************)
Object == INSTANCE VersionedObject WITH
    object <- [alive |-> row.alive, born |-> row.born, cell |-> row.cell],
    call <- [c \in Client |->
               {[op |-> q.op, base |-> q.base, value |-> q.value,
                 applied |-> q.pc \in {"alloc", "emit"}] : q \in req[c]}],
    reply <- [c \in Client |-> reply[c].kind]

Linearizable == Object!Spec

(***************************************************************************)
(* One history: whatever answers and updates clients receive, from any     *)
(* handler and in any order, a version of a part stands for one value, and *)
(* a number of UpdatePayload.seq for one update.  So no two writers are    *)
(* both told that they made the same version.                              *)
(***************************************************************************)
OneHistory ==
    /\ TypeOK
    /\ \A d, e \in told :
         d.part = e.part /\ d.born = e.born /\ d.version = e.version => d = e
    /\ \A u, v \in updates : u.seq = v.seq => u = v

(***************************************************************************)
(* "return a version-mismatch response containing the current version/data"*)
(* (docs/protocol.md:308): such an answer shows something that the request *)
(* did not expect, so the client can rebase its change and try again.  The *)
(* session handlers are the exception: a user client's is answered from    *)
(* its first read, a runtime's may fail for its lease alone.               *)
(***************************************************************************)
MismatchIsNews ==
    \A c \in Client :
        /\ reply[c].kind = "mismatch"
        /\ reply[c].cells # {}
        /\ handlers \intersect {"sessionUser", "sessionRuntime"} = {}
        => ~(reply[c].cells \subseteq reply[c].base)

(***************************************************************************)
(* "This prevents silent overwrites" (docs/protocol.md:24): a write        *)
(* replaces the version its client expected, and moves it on by one.       *)
(***************************************************************************)
NoSilentOverwrite ==
    [][\A p \in Part :
         row'.cell[p] # row.cell[p] /\ row'.born = row.born
            => row'.cell[p].version = row.cell[p].version + 1]_vars

=============================================================================
