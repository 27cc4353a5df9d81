------------------------------ MODULE KvStore ------------------------------
(***************************************************************************)
(* The key-value store of one account as operators on its rows             *)
(* (sources/app/kv/): what a batch of mutations finds, what it writes,     *)
(* what it announces, and what a listing returns.  Accounts runs them      *)
(* inside transactions.                                                    *)
(***************************************************************************)
EXTENDS Integers, Sequences, FiniteSets

CONSTANTS
    Key,            \* keys of the store
    Value,          \* ciphertexts
    Null,           \* SQL NULL: the value of a deleted key
    Empty,          \* the empty string
    Rank,           \* the order of the keys
    ListLimit       \* limit of a listing

ASSUME KvAssumption ==
    /\ Null \notin Value
    /\ Empty \in Value
    /\ Rank \in [Key -> Nat]
    /\ \A k, l \in Key : Rank[k] = Rank[l] => k = l
    /\ ListLimit \in Nat \ {0}

\* A row of UserKVStore; version -1 stands for a row that was never created.
Entry == [version : Int, value : Value \union {Null}]
NoEntry == [version |-> -1, value |-> Null]

Mutation == [key : Key, value : Value \union {Null}, version : Int]

\* Mutations whose version is not the current one; nothing is written then.
Mismatches(store, batch) ==
    {i \in DOMAIN batch : store[batch[i].key].version # batch[i].version}

Creates(batch, k) == {i \in DOMAIN batch : batch[i].key = k /\ batch[i].version = -1}

\* userKVStore.create throws on the second creation of a key (P2002).
CreatesTwice(batch) ==
    \E k \in Key : \E i, j \in Creates(batch, k) : i # j

\* A string as it is stored: an empty one is taken for none.
Stored(value) == IF value = Empty THEN Null ELSE value

\* What a mutation leaves behind: version 0 for a new key, one more otherwise.
After(m) == [version |-> m.version + 1, value |-> Stored(m.value)]

\* What is announced of it: the value as the client sent it.
News(m) == [version |-> m.version + 1, value |-> m.value]

\* The mutations are applied in order, so the last one of a key stays.
Mutate(store, batch) ==
    [k \in Key |->
        LET own == {i \in DOMAIN batch : batch[i].key = k} IN
        IF own = {} THEN store[k]
        ELSE After(batch[CHOOSE i \in own : \A j \in own : j <= i])]

\* The changes of the kv-batch-update that the transaction announces.
Changes(batch) ==
    [i \in DOMAIN batch |-> [key |-> batch[i].key, entry |-> News(batch[i])]]

\* Reading: a deleted key is shown as if it had never been.
KvGet(store, k) == IF store[k].value = Null THEN NoEntry ELSE store[k]
KvBulkGet(store, keys) == [k \in keys |-> KvGet(store, k)]

\* A listing: the first keys that are not deleted, with no way to ask for more.
KvList(store) ==
    LET shown == {k \in Key : store[k].value # Null}
        listed == {k \in shown : Cardinality({l \in shown : Rank[l] < Rank[k]}) < ListLimit}
    IN  [k \in Key |-> IF k \in listed THEN store[k] ELSE NoEntry]
=============================================================================
