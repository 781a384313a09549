------------------------------- MODULE Config -------------------------------
(***************************************************************************)
(* The settings of the program (config.c): defaults, command line and      *)
(* configuration file.  A setting is a record of a key and a text, in the  *)
(* command line as in a file; a file is a sequence of settings, since      *)
(* comments and lines without "=" do nothing.                              *)
(***************************************************************************)
EXTENDS Integers, Sequences

CONSTANTS
  Texts,        (* what stands after the "=" of a setting, trimmed         *)
  OtherKeys,    (* bound: keys in a file that the program does not know    *)
  atoi,         (* function: the number that a text begins with, or 0      *)
  Default,      (* the value of every option, CONFIG_DEFAULT_*             *)
  DefaultText   (* and the text written for it into the default file       *)

Option == {"debug_address", "debug_port", "log_all"}
Setting == [key: Option \union OtherKeys, text: Texts]

(* The value that a text stands for.                                       *)
Yes == {"true", "1", "yes"}
Read(key, text) ==
  CASE key = "debug_address" -> text
    [] key = "debug_port"    -> atoi[text]
    [] key = "log_all"       -> text \in Yes

(* The default file says what holds without it (config.c:93-96, 195-201).  *)
ASSUME DefaultsAreWritten ==
  /\ Default = [o \in Option |-> Default[o]] /\ DefaultText \in [Option -> Texts]
  /\ \A o \in Option : Read(o, DefaultText[o]) = Default[o]

config_init == [value |-> Default, cli |-> {}]

Set(c, s) == [c EXCEPT !.value[s.key] = Read(s.key, s.text)]

(* A line of the file: unknown keys, and what the command line has set,    *)
(* are left alone.                                                         *)
parse_config_line(c, s) == IF s.key \in Option \ c.cli THEN Set(c, s) ELSE c

(* config_load() of the file that could be opened.                         *)
LoadLines(c, lines) ==
  LET after[i \in 0..Len(lines)] ==
        IF i = 0 THEN c ELSE parse_config_line(after[i - 1], lines[i])
  IN  after[Len(lines)]

(* --help and unknown options end the program.                             *)
Refused(args) == \E i \in DOMAIN args : args[i].key \notin Option

(* An option of the command line is set, and marked as set by it.          *)
Argument(c, s) == [Set(c, s) EXCEPT !.cli = @ \union {s.key}]

config_parse_args(c, args) ==
  LET after[i \in 0..Len(args)] ==
        IF i = 0 THEN c ELSE Argument(after[i - 1], args[i])
  IN  after[Len(args)]

(* What config_create_default() writes.                                    *)
default_file ==
  <<[key |-> "debug_address", text |-> DefaultText.debug_address],
    [key |-> "debug_port", text |-> DefaultText.debug_port],
    [key |-> "log_all", text |-> DefaultText.log_all]>>
==============================================================================
