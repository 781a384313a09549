----------------------------- MODULE MCSession -----------------------------
(***************************************************************************)
(* Settings given once, twice, on the command line and in files; a port    *)
(* that is no number; an unknown key in a file and an unknown option.  The *)
(* emulator's lines are no messages, and are logged all the same.          *)
(***************************************************************************)
EXTENDS Session

S(key, text) == [key |-> key, text |-> text]

MCTexts == {"localhost", "6502", "false", "host", "true"}
MCatoi == [t \in MCTexts |-> IF t = "6502" THEN 6502 ELSE 0]
MCDefault == [debug_address |-> "localhost", debug_port |-> 6502, log_all |-> FALSE]
MCDefaultText == [debug_address |-> "localhost", debug_port |-> "6502", log_all |-> "false"]

MCCommandLines ==
  {<<>>, <<S("help", "")>>,
   <<S("debug_address", "host"), S("debug_address", "localhost"), S("log_all", "true")>>}
(* The second file cannot be read.                                         *)
MCUserFiles ==
  {[lines |-> <<S("log_all", "true"), S("other", "host"), S("debug_port", "host"),
               S("debug_address", "localhost"), S("debug_address", "host")>>,
    readable |-> TRUE],
   [lines |-> <<S("log_all", "true")>>, readable |-> FALSE]}

(* The clocks are set back between the last two seconds.                   *)
MCFileNames == {"0200", "0300"}
MCLocalTime == [t \in 0..2 |-> IF t = 1 THEN "0300" ELSE "0200"]
============================================================================
