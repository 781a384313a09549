---------------------------- MODULE RecencyTable ----------------------------
(***************************************************************************)
(* What the IO tab promises (README.md:165-169): one value per key, the    *)
(* keys ordered by when they were last written, and, when the table is     *)
(* full, room for a new key made by dropping the one written longest ago.  *)
(***************************************************************************)
EXTENDS Integers, FiniteSets

CONSTANTS Key, Val, Max

VARIABLES
  table,  (* the value of every key held                                   *)
  older,  (* <<j, k>>: j was last written before k                         *)
  last    (* the key and the value that came last                          *)

vars == <<table, older, last>>

Init == table = [k \in {} |-> 0] /\ older = {} /\ last = <<>>

Held == DOMAIN table

(* The keys that leave when k is written.                                  *)
Dropped(k) ==
  IF k \in Held \/ Cardinality(Held) < Max THEN {}
  ELSE {j \in Held : \A i \in Held \ {j} : <<j, i>> \in older}

Put(k, v) ==
  LET kept == Held \ (Dropped(k) \union {k})
  IN  /\ table' = [j \in kept \union {k} |-> IF j = k THEN v ELSE table[j]]
      /\ older' = {p \in older : p[1] \in kept /\ p[2] \in kept}
                    \union (kept \X {k})
      /\ last' = <<k, v>>

Clear == table' = [k \in {} |-> 0] /\ older' = {} /\ last' = <<>>

Next == Clear \/ \E k \in Key, v \in Val : Put(k, v)

Spec == Init /\ [][Next]_vars
==============================================================================
