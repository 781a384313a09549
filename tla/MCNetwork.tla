------------------------------ MODULE MCNetwork ------------------------------
(* Network for TLC: a buffer of four bytes (RecvSize 5), lines of at most    *)
(* four bytes with their LF, so that lines are truncated (MaxLine 3 keeps    *)
(* two bytes), fill the buffer exactly and share it with the next line.      *)
EXTENDS Network
CONSTANT c
MCChars == {c}
==============================================================================
