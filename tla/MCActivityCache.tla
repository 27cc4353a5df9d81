--------------------------- MODULE MCActivityCache ---------------------------
(***************************************************************************)
(* ActivityCache instantiated for TLC: a machine alone, a session alone,   *)
(* and the two sharing a flush.                                            *)
(***************************************************************************)
EXTENDS ActivityCache, TLC

\* b heartbeats and e other changes for each target of A, and f failures.
Only(A, b, e, f) ==
    [beats |-> [x \in Target |-> IF x \in A THEN b ELSE 0],
     events |-> [x \in Target |-> IF x \in A THEN e ELSE 0],
     faults |-> f]

Scenarios ==
    {Only(Machine, 2, 1, 1), Only(Machine, 3, 0, 0),
     Only(Session, 2, 1, 0), Only(Session, 1, 2, 1), Only(Target, 1, 0, 0)}
=============================================================================
