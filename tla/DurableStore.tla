---------------------------- MODULE DurableStore ----------------------------
(***************************************************************************)
(* What Lux promises about durability, without journal, snapshot or crash  *)
(* machinery (DURABILITY.md).  The store is what a restart would rebuild.  *)
(* Mutations enter it one at a time, whole, in a total order.  The newest  *)
(* one may be withdrawn as long as nobody was told it succeeded.  A        *)
(* disaster may cut the store back to an earlier moment, but never past a  *)
(* mutation that is owed to a client.                                      *)
(***************************************************************************)
EXTENDS Integers

CONSTANTS
  Key,        \* the keys of the database
  Id,         \* mutation identifiers, in the order of the history
  SyncEach    \* always_sync: every acknowledged mutation is owed

VARIABLES
  store,      \* store[k]: the mutations of key k that a restart rebuilds
  acked       \* acked[k]: the mutations of key k a client was told of

vars == <<store, acked>>

All == UNION {store[k] : k \in Key}

Cut(image, n) == [k \in Key |-> {i \in image[k] : i < n}]

Init ==
  /\ store = [k \in Key |-> {}]
  /\ acked = [k \in Key |-> {}]

\* A mutation of some keys becomes part of the history, as its newest.
Commit(i) ==
  /\ UNCHANGED acked
  /\ \A j \in All : j < i
  /\ \E keys \in SUBSET Key :
       store' = [k \in Key |-> IF k \in keys THEN store[k] \cup {i} ELSE store[k]]

\* The newest mutation is taken back: its client gets an error.
Withdraw(i) ==
  /\ UNCHANGED acked
  /\ \A k \in Key : i \notin acked[k]
  /\ \A j \in All : j <= i
  /\ store' = Cut(store, i)

\* A client is told that a mutation of the history succeeded.
Acknowledge(i) ==
  /\ acked' = [k \in Key |-> IF i \in store[k] THEN acked[k] \cup {i} ELSE acked[k]]
  /\ UNCHANGED store

\* The store falls back to an earlier moment of its history.
Lose(n) ==
  /\ store' = Cut(store, n)
  /\ \A k \in Key :
       /\ acked'[k] \subseteq acked[k] \cap store'[k]
       /\ SyncEach => acked'[k] = acked[k]

Next ==
  \/ \E i \in Id : Commit(i) \/ Withdraw(i) \/ Acknowledge(i)
  \/ \E n \in Id : Lose(n)

Spec == Init /\ [][Next]_vars
=============================================================================
