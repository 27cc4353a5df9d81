----------------------------- MODULE MCDelivery -----------------------------
(***************************************************************************)
(* Delivery instantiated for TLC: three sockets on two processes, in       *)
(* scenarios that differ in what the sockets are and what may happen.      *)
(***************************************************************************)
EXTENDS Delivery, TLC

CONSTANTS p1, p2, s1, s2, s3, alice, bob, session, machine

Connect(type, user, sid, mid, claims, replay) ==
    [type |-> type, user |-> user, session |-> sid, machine |-> mid, lease |-> None,
     claims |-> claims, replayOnly |-> replay, home |-> p1]

Observer(u) == Connect("user-scoped", u, None, None, FALSE, FALSE)
Runtime == Connect("session-scoped", alice, session, None, TRUE, FALSE)
Legacy == Connect("session-scoped", alice, session, None, FALSE, FALSE)
Replay == Connect("session-scoped", alice, session, None, TRUE, TRUE)
Daemon == Connect("machine-scoped", alice, None, machine, FALSE, FALSE)
Elsewhere(c) == [c EXCEPT !.home = p2]

Plan(a, b, c, events, messages, publications, leaves, stops, faults) ==
    [scope |-> (s1 :> a @@ s2 :> b @@ s3 :> c), events |-> events, messages |-> messages,
     publications |-> publications, leaves |-> leaves, stops |-> stops, faults |-> faults]

\* A runtime reconnects to another process, to the same one, or away and back,
\* while a message for it is published late and twice; a replay displaces it; a daemon and a
\* legacy runtime under events; a process goes down.
Plans ==
    {Plan(Runtime, Elsewhere(Runtime), Observer(alice), 0, 1, 2, 0, 0, 1),
     Plan(Runtime, Runtime, Elsewhere(Observer(alice)), 0, 1, 1, 1, 0, 0),
     Plan(Runtime, Elsewhere(Runtime), Runtime, 0, 1, 1, 1, 0, 0),
     Plan(Runtime, Elsewhere(Replay), Observer(bob), 0, 1, 1, 1, 0, 0),
     Plan(Runtime, Elsewhere(Replay), Observer(bob), 1, 0, 0, 0, 0, 0),
     Plan(Daemon, Legacy, Elsewhere(Observer(alice)), 1, 0, 0, 1, 0, 1),
     Plan(Daemon, Legacy, Elsewhere(Observer(alice)), 0, 1, 1, 1, 0, 0),
     Plan(Runtime, Elsewhere(Daemon), Observer(alice), 0, 1, 1, 0, 1, 0)}
=============================================================================
