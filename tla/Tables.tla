------------------------------- MODULE Tables -------------------------------
(***************************************************************************)
(* A hash table as a function on the keys it holds: what insert, remove    *)
(* and retain of the standard library do to it.                            *)
(***************************************************************************)

\* HashMap::insert: a key already there gets the new value
Inserted(t, k, v) == [x \in DOMAIN t \cup {k} |-> IF x = k THEN v ELSE t[x]]

\* HashMap::remove, retain: the keys of K are gone
Dropped(t, K) == [x \in DOMAIN t \ K |-> t[x]]
=============================================================================
