---------------------------- MODULE MCRpcRegistry ----------------------------
(* The RPC registry on small instances: two scenarios that would be too      *)
(* large together.                                                           *)
EXTENDS RpcRegistry, TLC

VARIABLE scenario

\* Two runtimes compete for one method, and nothing fails.
Takeover == INSTANCE RpcRegistry WITH MaxFaults <- 0
Contested == CHOOSE m \in Method : TRUE
TakeoverNext ==
    /\ scenario = "takeover"
    /\ Takeover!Next
    /\ \A s \in Socket \ Fenced : client'[s].state = "new"
    /\ \A m \in Method \ {Contested} :
         /\ \A s \in Socket : ~client'[s].wants[m] /\ m \notin life'[s].cancelled
         /\ \A c \in Caller : call'[c].method # m

\* A runtime and a user socket, two methods, and something fails.
Failures == INSTANCE RpcRegistry WITH MaxEvents <- MaxEvents - 1
Survivor == CHOOSE s \in Fenced : TRUE
FailuresNext ==
    /\ scenario = "failures"
    /\ Failures!Next
    /\ \A s \in Fenced \ {Survivor} : client'[s].state = "new"

ScenarioInit ==
    \/ scenario = "takeover" /\ Takeover!Init
    \/ scenario = "failures" /\ Failures!Init

ScenarioNext == (TakeoverNext \/ FailuresNext) /\ UNCHANGED scenario

ScenarioSpec ==
    ScenarioInit /\ [][ScenarioNext]_<<vars, scenario>> /\ Fairness
=============================================================================
