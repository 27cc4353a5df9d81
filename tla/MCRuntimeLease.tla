---------------------------- MODULE MCRuntimeLease ----------------------------
(* The lease protocol on small instances: the handshakes each run considers, *)
(* and the two corners of the state space that the largest run explores.     *)
EXTENDS RuntimeLease, TLC

Live(i) == [replayOnly |-> FALSE, asked |-> i]
Replay(i) == [replayOnly |-> TRUE, asked |-> i]

LiveHandshakes == {Live(i) : i \in Instance}
ModernHandshakes == LiveHandshakes \union {Replay(i) : i \in Instance}
AllHandshakes == ModernHandshakes \union {Live(Null), Replay(Null)}

\* Every socket, none of them legacy or silent, in an instant.
Races ==
    /\ now = 0
    /\ sweep = Null
    /\ \A s \in Socket : /\ socket[s].phase # "silent"
                         /\ socket[s].phase # "idle" => socket[s].asked # Null

\* All but one socket, two statements at once, and time that passes.
Clock ==
    /\ \E s \in Socket : socket[s].phase = "idle"
    /\ Cardinality(inflight) <= 2

RacesOrClock == Races \/ Clock

Symmetry == Permutations(Instance) \union Permutations(Socket)
=============================================================================
