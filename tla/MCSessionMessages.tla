------------------------- MODULE MCSessionMessages -------------------------
(* SessionMessages on small instances: scenarios that would be too large   *)
(* together.                                                               *)
EXTENDS SessionMessages, TLC

VARIABLE scenario   \* its name, and the client it is about

\* Messages that differ in nothing, sent by some of the clients.
OneText(senders) ==
    [c \in Client |-> IF c \notin senders THEN {}
                      ELSE [localId : {NoId}, cipher : {CHOOSE x \in Cipher : TRUE}]]

\* Producers retry, and may reuse a local ID for another text, while other
\* updates take numbers of the account.  Their connections need no generation.
Retried == INSTANCE SessionMessages WITH
    Input <- [c \in Client |-> [localId : LocalId, cipher : Cipher]],
    Reading <- {}, Scope <- {"replay", "legacy"}, MaxGen <- 0, MaxTime <- 0

\* Transactions of every kind of connection wait while leases and legacy rows
\* run out, are renewed late and are claimed.
Clock(c) == INSTANCE SessionMessages WITH
    Client <- {c}, Input <- OneText({c}), Reading <- {}, MaxOther <- 0, MaxSeq <- 1

\* A client replays what another one sends while generations change.
CatchUp(c) == INSTANCE SessionMessages WITH
    Input <- OneText(Client \ {c}), Reading <- {c}, Scope <- {"user", "lease"},
    MaxOther <- 0, MaxTime <- 2, MaxRetries <- 0

ScenarioInit ==
    /\ Init
    /\ scenario \in {<<"retry">>} \union ({"clock", "catch-up"} \X Client)

RetryNext == scenario = <<"retry">> /\ Retried!Next
ClockNext == \E c \in Client : scenario = <<"clock", c>> /\ Clock(c)!Next
CatchUpNext == \E c \in Client : scenario = <<"catch-up", c>> /\ CatchUp(c)!Next

ScenarioNext == (RetryNext \/ ClockNext \/ CatchUpNext) /\ UNCHANGED scenario

ScenarioSpec == ScenarioInit /\ [][ScenarioNext]_<<vars, scenario>>

AnyInput == [c \in Client |-> [localId : LocalId \union {NoId}, cipher : Cipher]]

Symmetry == Permutations(Client) \union Permutations(LocalId)
=============================================================================
