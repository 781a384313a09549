-------------------------------- MODULE Lines --------------------------------
(***************************************************************************)
(* Bytes, lines and what network_read_line() hands to its caller.  A line  *)
(* is a sequence of bytes without the LF that ends it.                     *)
(***************************************************************************)
EXTENDS Integers, Sequences

CONSTANTS
  LF,       (* '\n', ends a line                                          *)
  CR,       (* '\r', stripped when it is the last byte of a line          *)
  Chars,    (* every other byte                                           *)
  MaxLine   (* NETWORK_MAX_LINE_SIZE: size of the caller's line buffer    *)

Byte == Chars \union {LF, CR}

ASSUME BytesDistinct == LF # CR /\ LF \notin Chars /\ CR \notin Chars
ASSUME MaxLineIsSize == MaxLine \in Nat /\ MaxLine > 1

(* At most max_len - 1 bytes are copied: the rest of the line is dropped.  *)
Truncate(l) == IF Len(l) >= MaxLine THEN SubSeq(l, 1, MaxLine - 1) ELSE l

(* The CR of a CRLF ending is removed, after the truncation.               *)
StripCR(l) ==
  IF Len(l) > 0 /\ l[Len(l)] = CR THEN SubSeq(l, 1, Len(l) - 1) ELSE l

(* What the caller receives for the line l.                                *)
Cut(l) == StripCR(Truncate(l))

HasLF(s) == \E i \in 1..Len(s) : s[i] = LF
FirstLF(s) == CHOOSE i \in 1..Len(s) : s[i] = LF /\ \A j \in 1..(i - 1) : s[j] # LF
==============================================================================
