----------------------------- MODULE MCMemoryMap -----------------------------
(* Three lines of two bytes; the array starts with room for one line, so   *)
(* that it must grow twice.                                                *)
EXTENDS MemoryMap

MCStarts == {1, 3, 4}
==============================================================================
