------------------------------ MODULE MCMonitor ------------------------------
(* Monitor for TLC: two emulators, two terminal sizes, one line in flight;  *)
(* a retry every second and a reset after two, so that attempts fail,        *)
(* block and succeed on either side of the reset.                            *)
EXTENDS Monitor
CONSTANTS apple, msx, small, large
MCEmus == {apple, msx}
MCSizes == {small, large}
==============================================================================
