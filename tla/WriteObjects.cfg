SPECIFICATION Spec
CONSTANTS
    Client = {c1, c2}
    Part = {p1, p2}
    Handler = {"sessionUser", "sessionRuntime", "machine", "account", "accessKey", "artifact"}
    MaxRequests = 4
    MaxBorn = 2
SYMMETRY Symmetry
CHECK_DEADLOCK FALSE
INVARIANTS OneHistory MismatchIsNews
PROPERTY Linearizable
