----------------------------- MODULE EventRouter -----------------------------
(***************************************************************************)
(* Who receives what: sources/app/events/eventRouter.ts.                   *)
(*                                                                         *)
(* With a Socket.IO server, which every deployed process has, recipients   *)
(* are chosen by room: each connection sits in the rooms of its scope and  *)
(* an event names the rooms it goes to.  Without one the router walks its  *)
(* own connections and asks each whether it should get the event; that     *)
(* walk is the reference the rooms are compared with.                      *)
(*                                                                         *)
(* A connection is [type, user, session, machine, lease, replayOnly], a    *)
(* filter [type, session, machine], a durable notification [user, session, *)
(* lease, legacy, origin]; None stands for what is absent.  No caller      *)
(* passes skipSenderConnection, which is left out.                         *)
(*                                                                         *)
(* Definitions whose name ends in Mut are deliberate defects of the        *)
(* definition that follows them: each one breaks a property of Delivery.   *)
(***************************************************************************)
CONSTANT None

\* A room of an account, with what its name is made of.
AccountRoom(user, scope, object, lease) == <<user, scope, object, lease>>

\* Defect: one room for all runtimes of a session.
RuntimeConnectionLeaseRoomMut(user, session, lease) ==
    AccountRoom(user, "session", session, None)

RuntimeConnectionLeaseRoom(user, session, lease) ==
    AccountRoom(user, "session", session, lease)

\* Defect: a replay transport joins like any other runtime.
ConnectionRoomsMut(c) ==
    {AccountRoom(c.user, "all", None, None)}
      \union (IF c.type = "user-scoped" THEN {AccountRoom(c.user, "user", None, None)}
              ELSE IF c.type = "session-scoped"
              THEN {IF c.lease # None THEN RuntimeConnectionLeaseRoom(c.user, c.session, c.lease)
                    ELSE AccountRoom(c.user, "session", c.session, None)}
              ELSE {AccountRoom(c.user, "machine", c.machine, None)})

ConnectionRooms(c) ==
    LET own == CASE c.type = "user-scoped" -> AccountRoom(c.user, "user", None, None)
                 [] c.type = "session-scoped" /\ c.lease # None ->
                      RuntimeConnectionLeaseRoom(c.user, c.session, c.lease)
                 [] c.type = "session-scoped" /\ c.lease = None ->
                      AccountRoom(c.user, "session", c.session, None)
                 [] c.type = "machine-scoped" -> AccountRoom(c.user, "machine", c.machine, None)
    IN  IF c.replayOnly THEN {} ELSE {AccountRoom(c.user, "all", None, None), own}

RecipientRooms(user, f) ==
    CASE f.type = "all-interested-in-session" ->
           {AccountRoom(user, "user", None, None), AccountRoom(user, "session", f.session, None)}
      [] f.type = "user-scoped-only" -> {AccountRoom(user, "user", None, None)}
      [] f.type = "machine-scoped-only" ->
           {AccountRoom(user, "user", None, None), AccountRoom(user, "machine", f.machine, None)}
      [] f.type = "all-user-authenticated-connections" -> {AccountRoom(user, "all", None, None)}

\* The rooms of a durable notification: the observers and one runtime at most.
DurableRooms(n) ==
    {AccountRoom(n.user, "user", None, None)}
      \union (IF n.lease # None THEN {RuntimeConnectionLeaseRoom(n.user, n.session, n.lease)}
              ELSE IF n.legacy THEN {AccountRoom(n.user, "session", n.session, None)} ELSE {})

\* The walk over the connections of an account, for updates and ephemerals.
ShouldSendToConnection(c, f) ==
    CASE f.type = "all-interested-in-session" ->
           \/ c.type = "user-scoped"
           \/ c.type = "session-scoped" /\ ~c.replayOnly /\ c.session = f.session
      [] f.type = "user-scoped-only" -> c.type = "user-scoped"
      [] f.type = "machine-scoped-only" ->
           \/ c.type = "user-scoped"
           \/ c.type = "machine-scoped" /\ c.machine = f.machine
      [] f.type = "all-user-authenticated-connections" -> ~c.replayOnly

\* ... and for durable notifications.
ShouldSendDurable(c, n) ==
    \/ c.type = "user-scoped"
    \/ /\ c.type = "session-scoped" /\ ~c.replayOnly /\ c.session = n.session
       /\ \/ c.lease # None /\ c.lease = n.lease
          \/ c.lease = None /\ n.legacy
=============================================================================
