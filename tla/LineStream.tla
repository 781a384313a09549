----------------------------- MODULE LineStream ------------------------------
(***************************************************************************)
(* What the network layer promises to main(): while a connection is up,    *)
(* the lines the emulator completed arrive one by one, in order, none      *)
(* twice, none made up, each as Cut() of what was written.  A connection   *)
(* may be lost at any time; lines not yet delivered are then gone.         *)
(***************************************************************************)
EXTENDS Lines

CONSTANT Line   (* the lines an emulator may write                         *)

VARIABLES
  written,    (* the complete lines of this connection, in order           *)
  delivered,  (* the lines given to the caller                             *)
  up          (* the caller believes the connection is up                  *)

vars == <<written, delivered, up>>

Init == written = <<>> /\ delivered = <<>> /\ up = FALSE

Open ==
  /\ ~up
  /\ up' = TRUE
  /\ written' = <<>>
  /\ delivered' = <<>>

Write ==
  /\ up
  /\ \E l \in Line : written' = Append(written, l)
  /\ UNCHANGED <<delivered, up>>

Deliver ==
  /\ up
  /\ Len(delivered) < Len(written)
  /\ delivered' = Append(delivered, Cut(written[Len(delivered) + 1]))
  /\ UNCHANGED <<written, up>>

Lose ==
  /\ up
  /\ up' = FALSE
  /\ UNCHANGED <<written, delivered>>

(* A failed attempt to open: the old connection's history is given up.      *)
Forget ==
  /\ ~up
  /\ written' = <<>>
  /\ delivered' = <<>>
  /\ UNCHANGED up

Next == Open \/ Write \/ Deliver \/ Lose \/ Forget

SafeSpec == Init /\ [][Next]_vars

(* A line that waits on a connection that stays up is delivered.            *)
Spec == SafeSpec /\ WF_vars(Deliver)
==============================================================================
