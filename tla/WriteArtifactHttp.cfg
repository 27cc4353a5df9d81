SPECIFICATION Spec
CONSTANTS
    Client = {c1, c2}
    Part = {p1, p2}
    Handler = {"artifact", "artifactHttp"}
    MaxRequests = 3
    MaxBorn = 1
SYMMETRY Symmetry
CHECK_DEADLOCK FALSE
PROPERTY NoSilentOverwrite
