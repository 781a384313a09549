------------------------------ MODULE MCIoTable ------------------------------
(* Two section:field pairs and one printed location: four keys, one of     *)
(* them reached both as an address and as an index.                        *)
EXTENDS IoTable
==============================================================================
