------------------------------- MODULE Parser -------------------------------
(***************************************************************************)
(* parser.c, parser_parse_line(): which lines are messages, and what a     *)
(* message keeps of its line.                                              *)
(*                                                                         *)
(* A line is the function of its JSON members; one that is not a JSON      *)
(* object has none (cJSON finds nothing in it).  A member has a type and   *)
(* what it stands for: the text of a name, the number of an index (strtol  *)
(* of a string), the number of an address (parse_hex), and for "val" a     *)
(* record of the text, the bytes the handlers read in it, and the          *)
(* characters a byte takes: 2, or 3 when they are separated by spaces.     *)
(***************************************************************************)
EXTENDS Integers, Sequences

CONSTANT PARSER_MAX_VAL_LEN   (* the size of ParsedData.val, 512           *)

ASSUME ValHasRoom == PARSER_MAX_VAL_LEN \in Nat \ {0}

Required == {"emu", "cat", "sec", "fld", "val"}

Typed(line, name, types) == name \in DOMAIN line /\ line[name].type \in types

(* parser_parse_line() returns 0.  Unknown members do not matter, nor do   *)
(* optional ones of another type.                                          *)
Accepted(line) == \A name \in Required : Typed(line, name, {"string"})

(* copy_json_string() cuts a value that is too long: of its bytes those    *)
(* remain whose digits are all within the first PARSER_MAX_VAL_LEN - 1     *)
(* characters.  The other strings of the emulators fit their fields.       *)
WholeBytes(width) == (PARSER_MAX_VAL_LEN - 1 + (width - 2)) \div width
KeptBytes(val) ==
  LET n == WholeBytes(val.width)
  IN  SubSeq(val.bytes, 1, IF Len(val.bytes) < n THEN Len(val.bytes) ELSE n)

Optional(line, name, types, none) ==
  IF Typed(line, name, types) THEN line[name].of ELSE none

(* The ParsedData of an accepted line; none stands for a false has_addr,   *)
(* has_idx or has_ver.  ts and len are parsed too: the store passes ts on  *)
(* unread and ignores len.                                                 *)
parser_parse_line(line, none) ==
  [emu |-> line.emu.of, cat |-> line.cat.of, sec |-> line.sec.of,
   fld |-> line.fld.of, val |-> line.val.of.text,
   bytes |-> KeptBytes(line.val.of),
   addr |-> Optional(line, "addr", {"string"}, none),
   idx  |-> Optional(line, "idx", {"number", "string"}, none),
   ver  |-> Optional(line, "ver", {"string"}, none)]
==============================================================================
