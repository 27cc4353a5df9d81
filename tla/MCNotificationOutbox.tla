------------------------ MODULE MCNotificationOutbox ------------------------
(* NotificationOutbox instantiated for TLC. *)
EXTENDS NotificationOutbox, TLC

Symmetry == Permutations(Pod) \union Permutations(Session)
=============================================================================
