------------------------------ MODULE WriteOnce ------------------------------
(***************************************************************************)
(* What a registry promises whoever is told of an entry: a book whose      *)
(* entries are written at most once, one at a time, and never change.      *)
(***************************************************************************)
CONSTANTS Keys, Values
VARIABLE book            \* a function from the keys written so far

Init == book = [k \in {} |-> k]

(* The entry of k appears; every other entry stays as it is.              *)
Write(k) ==
  /\ k \notin DOMAIN book
  /\ DOMAIN book' = DOMAIN book \cup {k}
  /\ book' = [j \in DOMAIN book' |-> book'[j]]
  /\ book'[k] \in Values
  /\ \A j \in DOMAIN book : book'[j] = book[j]

Next == \E k \in Keys : Write(k)

Spec == Init /\ [][Next]_book
=============================================================================
