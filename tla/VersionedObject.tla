---------------------------- MODULE VersionedObject ----------------------------
(***************************************************************************)
(* What optimistic concurrency promises a client (docs/protocol.md,        *)
(* "Optimistic concurrency by default"): an object of versioned parts on   *)
(* which every call acts at one instant.                                   *)
(*                                                                         *)
(* A cell is what one part held at one version.  A call names the cells    *)
(* its client bases the change on, all of them cells it was told of.  It   *)
(* is applied only if it replaces exactly those cells, at most once, and   *)
(* the answer says truly whether it was; "error" leaves that open.  What   *)
(* clients are told was the state of the object.                           *)
(*                                                                         *)
(* An object may be deleted and created anew.  A cell of an earlier        *)
(* incarnation may be mistaken for one of the present incarnation with the *)
(* same version: the protocol compares nothing else.                       *)
(***************************************************************************)
EXTENDS Naturals

CONSTANTS Client, Part

VARIABLES
    object,     \* alive, its incarnation, and the version and value of its parts
    call,       \* the call of each client, if any
    reply,      \* the last answer each client got
    told        \* the cells that clients were told of

vars == <<object, call, reply, told>>

Cell(o, p) ==
    [part |-> p, born |-> o.born,
     version |-> o.cell[p].version, value |-> o.cell[p].value]

Cells(o) == IF o.alive THEN {Cell(o, p) : p \in Part} ELSE {}

Init ==
    /\ object.alive
    /\ call = [c \in Client |-> {}]
    /\ reply = [c \in Client |-> "none"]
    /\ told = Cells(object)

Submit(c) ==
    /\ call[c] = {}
    /\ \E k \in call'[c] :
         /\ call' = [call EXCEPT ![c] = {k}]
         /\ ~k.applied
         /\ k.base \subseteq told
    /\ reply' = [reply EXCEPT ![c] = "none"]
    /\ UNCHANGED <<object, told>>

\* The base is current: the very cells, unless they are of an earlier incarnation.
Current(k) ==
    /\ object.alive
    /\ \A d \in k.base :
         \/ d = Cell(object, d.part)
         \/ /\ d.born # object.born
            /\ d.version = object.cell[d.part].version

Changed(k) ==
    [p \in Part |->
        IF p \in {d.part : d \in k.base}
        THEN [version |-> object.cell[p].version + 1, value |-> k.value]
        ELSE object.cell[p]]

Fresh(k) == [p \in Part |-> [version |-> 1, value |-> k.value]]

Apply(c) ==
    \E k \in call[c] :
        /\ ~k.applied
        /\ \/ /\ k.op = "update" /\ Current(k)
              /\ object' = [object EXCEPT !.cell = Changed(k)]
           \/ /\ k.op = "create" /\ ~object.alive
              /\ object' = [alive |-> TRUE, born |-> object.born + 1, cell |-> Fresh(k)]
           \/ /\ k.op = "delete" /\ object.alive
              /\ object' = [object EXCEPT !.alive = FALSE]
        /\ call' = [call EXCEPT ![c] = {[k EXCEPT !.applied = TRUE]}]
        /\ UNCHANGED <<reply, told>>

\* The cells an applied call made
Made(k, d) ==
    /\ k.applied
    /\ d.value = k.value
    /\ \/ k.op = "update" /\ \E b \in k.base : b.part = d.part /\ d.version = b.version + 1
       \/ k.op = "create" /\ d.version = 1

Answer(c) ==
    \E k \in call[c] :
        /\ call' = [call EXCEPT ![c] = {}]
        /\ \E answer \in {"success", "mismatch", "existing", "error", "none"} :
             /\ reply' = [reply EXCEPT ![c] = answer]
             /\ answer = "success" => k.applied
             /\ answer \in {"mismatch", "existing"} => ~k.applied
        /\ told \subseteq told'
        /\ \A d \in told' \ told : d \in Cells(object) \/ Made(k, d)
        /\ UNCHANGED object

Next == \E c \in Client : Submit(c) \/ Apply(c) \/ Answer(c)

Spec == Init /\ [][Next]_vars
=============================================================================
