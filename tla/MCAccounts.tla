----------------------------- MODULE MCAccounts -----------------------------
(* Accounts instantiated for TLC. *)
EXTENDS Accounts, TLC

CONSTANTS j, k, v, w, empty, owner, friend

Put(key, value) == [key |-> key, value |-> value]

\* One key, its deletion, two keys together, and one key twice, emptied at last.
Batches ==
    {<<Put(j, v)>>, <<Put(j, Null)>>, <<Put(k, w), Put(j, w)>>, <<Put(j, v), Put(j, Empty)>>}

\* A listing shows one of the two keys.
Order == j :> 1 @@ k :> 2

\* The store with a crash; friend requests while the feed is read.
Store == [service |-> "kv", requests |-> 3, pages |-> 0, days |-> 0, crashes |-> 1]
Friends == [service |-> "social", requests |-> 4, pages |-> 2, days |-> 1, crashes |-> 0]
Budgets == {Store, Friends}

Symmetry == Permutations(Request)
=============================================================================
