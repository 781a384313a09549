------------------------------- MODULE ByteMap -------------------------------
(***************************************************************************)
(* What the Memory tab promises (README.md:181-190): the last byte         *)
(* received for every address.  A byte for a line that is not shown yet    *)
(* may be lost (no memory for the line); an update of a shown line never.  *)
(***************************************************************************)
EXTENDS Integers, Sequences

CONSTANTS
  AddrSpace,     (* addresses are 0..(AddrSpace - 1)                       *)
  Byte,          (* byte values                                            *)
  BytesPerLine,  (* bytes shown on a line                                  *)
  MaxDump        (* most bytes in one message                              *)

VARIABLES
  known,  (* a partial function from addresses to bytes                    *)
  sent    (* the same, with the bytes that were lost                       *)

vars == <<known, sent>>

Empty == [a \in {} |-> 0]

Shown(a) == \E b \in DOMAIN known : b \div BytesPerLine = a \div BytesPerLine

(* The addresses of a message of n bytes that starts at start.             *)
At(start, i) == (start + i - 1) % AddrSpace
Span(start, n) == {At(start, i) : i \in 1..n}

(* map with the bytes of the message for the addresses of kept.            *)
Filled(map, start, bytes, kept) ==
  [a \in DOMAIN map \union kept |->
     IF a \in kept THEN bytes[CHOOSE i \in DOMAIN bytes : At(start, i) = a]
     ELSE map[a]]

(* The bytes come for the addresses from start on; those in lost get lost. *)
Receive(start, bytes, lost) ==
  LET span == Span(start, Len(bytes))
  IN  /\ \A a \in lost : ~Shown(a)
      /\ known' = Filled(known, start, bytes, span \ lost)
      /\ sent' = Filled(sent, start, bytes, span)

Clear == known' = Empty /\ sent' = Empty

Init == known = Empty /\ sent = Empty

Next ==
  \/ Clear
  \/ \E start \in 0..(AddrSpace - 1), n \in 1..MaxDump :
       \E bytes \in [1..n -> Byte], lost \in SUBSET {a \in Span(start, n) : ~Shown(a)} :
         Receive(start, bytes, lost)

Spec == Init /\ [][Next]_vars
==============================================================================
