----------------------------- MODULE Dictionary -----------------------------
(***************************************************************************)
(* What the register and flag tables promise (README.md:177-179): the last *)
(* value of every key, for the first Room keys seen since the last clear.   *)
(* A key that has a place never loses it to another.                       *)
(***************************************************************************)
EXTENDS Integers, FiniteSets

CONSTANTS Key, Val, Room

VARIABLES
  dict,  (* a partial function from keys to values                         *)
  sent   (* the last value that came for every key, held or not            *)

vars == <<dict, sent>>

Empty == [k \in {} |-> 0]

HasRoom(k) == k \in DOMAIN dict \/ Cardinality(DOMAIN dict) < Room

(* map with v for k.                                                       *)
With(map, k, v) == [x \in DOMAIN map \union {k} |-> IF x = k THEN v ELSE map[x]]

Put(k, v) ==
  /\ dict' = IF HasRoom(k) THEN With(dict, k, v) ELSE dict
  /\ sent' = With(sent, k, v)

Clear == dict' = Empty /\ sent' = Empty

Init == dict = Empty /\ sent = Empty

Next == Clear \/ \E k \in Key, v \in Val : Put(k, v)

Spec == Init /\ [][Next]_vars
==============================================================================
