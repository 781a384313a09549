------------------------------- MODULE Session -------------------------------
(***************************************************************************)
(* The program and the file system (main.c, config.c, logger.c): start     *)
(* with a command line, read or create a configuration file, open a log    *)
(* file, write logs and snapshots, quit or crash, and start again.         *)
(*                                                                         *)
(* Log and snapshot files are named by the local time, without its zone:   *)
(* the same name comes again when the clocks are set back.  A log line     *)
(* waits in the buffer of stdio until that is written out, at any time, or *)
(* at the end of the program.  SIGINT and SIGTERM quit; SIGHUP, SIGKILL    *)
(* and faults crash.                                                       *)
(***************************************************************************)
EXTENDS Config, SequencesExt

CONSTANTS
  CommandLines,  (* bound: command lines, sequences of settings            *)
  UserFiles,     (* bound: configuration files that the user makes         *)
  Lines,         (* lines that the emulator sends,                         *)
  BadLines,      (* of which these are not messages                        *)
  NoFile,
  HasHome,       (* whether the home directory is known                    *)
  FileNames,     (* what names of log and snapshot files can end in,       *)
  LocalTime,     (* and the one that localtime() makes of a second         *)
  MaxClock,      (* bound: seconds                                         *)
  MaxEvents      (* bound: lines, events and snapshots in a run            *)

ASSUME SessionBounds ==
  MaxClock \in Nat /\ MaxEvents \in Nat /\ BadLines \subseteq Lines /\ HasHome \in BOOLEAN

ASSUME NamesTyped ==
  /\ LocalTime \in [0..MaxClock -> FileNames]
  /\ NoFile \notin FileNames /\ NoFile \notin 0..MaxClock

(* A command line that names no option is refused, whatever its text.      *)
ASSUME SettingsTyped ==
  /\ \A args \in CommandLines : Refused(args) \/ args \in Seq(Setting)
  /\ UserFiles \subseteq [lines: Seq(Setting), readable: BOOLEAN]
  /\ NoFile \notin [lines: Seq(Setting), readable: BOOLEAN]

VARIABLES
  clock,       (* time(NULL)                                               *)
  pc,          (* where main() is; "off": no process                       *)
  config,      (* g_config                                                 *)
  local, home, (* ./rdemonitor.config and ~/.rdemonitor.config             *)
  log,         (* g_logger: the name of its file, or NoFile                *)
  buffer,      (* what stdio has not yet written to it                     *)
  stamp,       (* the time taken for the name of a file in the making      *)
  logs,        (* the log file of every name                               *)
  snaps,       (* the snapshot file of every name: "empty", "whole"        *)
  given,       (* history: command line and files of this run              *)
  told,        (* history: for every log, what its run had to say          *)
  clean        (* history: and whether that run came to its end            *)

settings == <<config, local, home, given>>
logging  == <<log, buffer, logs, told, clean>>
naming   == <<stamp, snaps>>
vars == <<clock, pc, settings, logging, naming>>

Second == 0..MaxClock
NotGiven == [args |-> <<>>, local |-> NoFile, home |-> NoFile]

Init ==
  /\ clock = 0 /\ pc = "off"
  /\ config = config_init /\ given = NotGiven
  /\ local = NoFile /\ home = NoFile
  /\ log = NoFile /\ buffer = <<>>
  /\ logs = [f \in FileNames |-> <<>>] /\ snaps = [f \in FileNames |-> NoFile]
  /\ told = logs /\ clean = [f \in FileNames |-> FALSE] /\ stamp = NoFile
------------------------------------------------------------------------------
(* Start-up.                                                               *)

(* config_parse_args(); a refused command line ends the program at once.   *)
Start(args) ==
  /\ pc = "off" /\ ~Refused(args)
  /\ config' = config_parse_args(config_init, args)
  /\ given' = [args |-> args, local |-> local, home |-> home]
  /\ pc' = "load"
  /\ UNCHANGED <<clock, local, home, logging, naming>>

Opens(file) == file # NoFile /\ file.readable

(* Mutant of config_load: the file in the home directory comes first.      *)
LoadHomeFirst ==
  /\ pc = "load"
  /\ IF Opens(home) THEN config' = LoadLines(config, home.lines) /\ pc' = "log"
     ELSE IF Opens(local) THEN config' = LoadLines(config, local.lines) /\ pc' = "log"
     ELSE pc' = "create" /\ UNCHANGED config
  /\ UNCHANGED <<clock, local, home, given, logging, naming>>

(* ./ is tried before ~/.                                                  *)
config_load ==
  /\ pc = "load"
  /\ \/ /\ Opens(local)
        /\ config' = LoadLines(config, local.lines) /\ pc' = "log"
     \/ /\ ~Opens(local) /\ HasHome /\ Opens(home)
        /\ config' = LoadLines(config, home.lines) /\ pc' = "log"
     \/ /\ ~Opens(local) /\ ~(HasHome /\ Opens(home))
        /\ pc' = "create" /\ UNCHANGED config
  /\ UNCHANGED <<clock, local, home, given, logging, naming>>

File(lines) == [lines |-> lines, readable |-> TRUE]

(* Mutant of CanCreate: a file that cannot be opened counts as missing.     *)
CreateUnlessReadable == HasHome /\ ~Opens(home)

(* access(path, F_OK): a file that is there is not touched, readable or not.*)
CanCreate == HasHome /\ home = NoFile

(* config_create_default() opens the file, or fails.                       *)
CreateFile ==
  /\ pc = "create"
  /\ \/ CanCreate /\ home' = File(<<>>) /\ pc' = "fill"
     \/ pc' = "log" /\ UNCHANGED home
  /\ UNCHANGED <<clock, config, local, given, logging, naming>>

(* and its contents reach the file when it is closed.                      *)
FillFile ==
  /\ pc = "fill"
  /\ home' = File(default_file) /\ pc' = "log"
  /\ UNCHANGED <<clock, config, local, given, logging, naming>>

(* logger_init() takes the time, if a log is wanted,                        *)
logger_init ==
  /\ pc = "log"
  /\ IF config.value.log_all THEN stamp' = clock /\ pc' = "open"
     ELSE pc' = "ui" /\ UNCHANGED stamp
  /\ UNCHANGED <<clock, settings, logging, snaps>>

(* Mutant of FileName: one name for two seconds.                            *)
CoarseName == LocalTime[(stamp \div 2) * 2]

(* The name of the file in the making (generate_timestamp).                *)
FileName == LocalTime[stamp]

(* makes or empties the file of that name, or fails,                       *)
OpenLog ==
  /\ pc = "open" /\ stamp' = NoFile
  /\ \/ /\ pc' = "head" /\ log' = FileName /\ buffer' = <<"started">>
        /\ logs' = [logs EXCEPT ![FileName] = <<>>]
        /\ told' = [told EXCEPT ![FileName] = <<"started">>]
        /\ clean' = [clean EXCEPT ![FileName] = FALSE]
     \/ pc' = "ui" /\ UNCHANGED logging
  /\ UNCHANGED <<clock, settings, snaps>>

(* and flushes its heading.                                                *)
FlushHeading ==
  /\ pc = "head" /\ pc' = "ui"
  /\ logs' = [logs EXCEPT ![log] = @ \o buffer] /\ buffer' = <<>>
  /\ UNCHANGED <<clock, settings, log, told, clean, naming>>

(* The process ends, and with it all it has in memory.                     *)
Exit ==
  /\ pc' = "off" /\ config' = config_init /\ given' = NotGiven
  /\ log' = NoFile /\ buffer' = <<>> /\ stamp' = NoFile

Enabled == log # NoFile

(* An orderly end: logger_close() ends the file.                           *)
Close(last_words) ==
  /\ Exit
  /\ IF Enabled
     THEN /\ logs' = [logs EXCEPT ![log] = @ \o buffer \o last_words]
          /\ told' = [told EXCEPT ![log] = @ \o last_words]
          /\ clean' = [clean EXCEPT ![log] = TRUE]
     ELSE UNCHANGED <<logs, told, clean>>
  /\ UNCHANGED <<clock, local, home, snaps>>

(* The terminal may be of no use: the program ends.                        *)
ui_init ==
  /\ pc = "ui"
  /\ \/ pc' = "run" /\ UNCHANGED <<clock, settings, logging, naming>>
     \/ Close(<<"ended">>)
------------------------------------------------------------------------------
(* The run.                                                                *)
Events(s) == Len(told[s]) - 1
MayTell == pc = "run" /\ (Enabled => Events(log) < MaxEvents)

(* What happens in a run, and what the logger is told of it.               *)
Happens(e) == told' = IF Enabled THEN [told EXCEPT ![log] = Append(@, e)] ELSE told

(* Mutant of logger_write: it does not look whether there is a file.       *)
WriteAnyway(e) == buffer' = Append(buffer, e)

logger_write(e) == buffer' = IF Enabled THEN Append(buffer, e) ELSE buffer

(* Mutant of ReceiveLine: a line is logged after it was parsed.             *)
LogParsedOnly(l) ==
  /\ MayTell /\ Happens(l)
  /\ IF l \in BadLines THEN UNCHANGED buffer ELSE logger_write(l)
  /\ UNCHANGED <<clock, pc, settings, log, logs, clean, naming>>

(* A line is logged before it is parsed.                                   *)
ReceiveLine(l) ==
  /\ MayTell /\ Happens(l) /\ logger_write(l)
  /\ UNCHANGED <<clock, pc, settings, log, logs, clean, naming>>

(* "Connected to", "Connection lost", "Data reset after".                  *)
Note ==
  /\ MayTell /\ Happens("note") /\ logger_write("note")
  /\ UNCHANGED <<clock, pc, settings, log, logs, clean, naming>>

(* s: save_snapshot() takes the time,                                       *)
save_snapshot ==
  /\ MayTell
  /\ stamp' = clock /\ pc' = "snap"
  /\ UNCHANGED <<clock, settings, logging, snaps>>

(* makes or empties the file of that name, or does nothing if it cannot be *)
(* opened,                                                                 *)
OpenSnapshot ==
  /\ pc = "snap"
  /\ \/ pc' = "save" /\ snaps' = [snaps EXCEPT ![FileName] = "empty"] /\ UNCHANGED stamp
     \/ pc' = "run" /\ stamp' = NoFile /\ UNCHANGED snaps
  /\ UNCHANGED <<clock, settings, logging>>

(* writes it and tells the log.                                            *)
WriteSnapshot ==
  /\ pc = "save" /\ pc' = "run" /\ stamp' = NoFile
  /\ snaps' = [snaps EXCEPT ![FileName] = "whole"]
  /\ Happens("note") /\ logger_write("note")
  /\ UNCHANGED <<clock, settings, log, logs, clean>>

(* stdio writes out a part of its buffer.                                  *)
Spill ==
  /\ Enabled /\ pc = "run"
  /\ \E n \in 1..Len(buffer) :
       /\ logs' = [logs EXCEPT ![log] = @ \o SubSeq(buffer, 1, n)]
       /\ buffer' = SubSeq(buffer, n + 1, Len(buffer))
  /\ UNCHANGED <<clock, pc, settings, log, told, clean, naming>>

Goodbye == <<"Shutting down", "ended">>

(* q, SIGINT, SIGTERM: main() says so.                                     *)
Quit == pc = "run" /\ Close(Goodbye)
------------------------------------------------------------------------------
(* The world around it.                                                    *)

(* The process is killed: what is in its buffers is lost.                  *)
Crash ==
  /\ pc # "off" /\ Exit
  /\ UNCHANGED <<clock, local, home, logs, told, clean, snaps>>

Tick ==
  /\ clock < MaxClock /\ clock' = clock + 1
  /\ UNCHANGED <<pc, settings, logging, naming>>

(* The user writes, locks or removes a configuration file between runs.    *)
UserEdits ==
  /\ pc = "off"
  /\ \/ local' \in UserFiles \union {NoFile} /\ UNCHANGED home
     \/ home' \in UserFiles \union {NoFile} /\ UNCHANGED local
  /\ UNCHANGED <<clock, pc, config, given, logging, naming>>

Program ==
  \/ \E args \in CommandLines : Start(args)
  \/ config_load \/ CreateFile \/ FillFile
  \/ logger_init \/ OpenLog \/ FlushHeading \/ ui_init
  \/ \E l \in Lines : ReceiveLine(l)
  \/ Note \/ save_snapshot \/ OpenSnapshot \/ WriteSnapshot \/ Spill \/ Quit

Next == Program \/ Crash \/ Tick \/ UserEdits

Spec == Init /\ [][Next]_vars
------------------------------------------------------------------------------
SessionTypeOK ==
  /\ clock \in Second
  /\ pc \in {"off", "load", "create", "fill", "log", "open", "head", "ui", "run", "snap",
            "save"}
  /\ stamp \in 0..clock \union {NoFile} /\ (stamp # NoFile <=> pc \in {"open", "snap", "save"})
  /\ config.cli \subseteq Option /\ DOMAIN config.value = Option
  /\ log \in FileNames \union {NoFile}
  /\ \A f \in FileNames : logs[f] # <<>> => logs[f][1] = "started"
  /\ log = NoFile => buffer = <<>>

(* The last setting of a sequence for an option, or 0.                     *)
LastOf(sets, o) ==
  IF \E i \in DOMAIN sets : sets[i].key = o
  THEN CHOOSE i \in DOMAIN sets :
         sets[i].key = o /\ \A j \in DOMAIN sets : j > i => sets[j].key # o
  ELSE 0

(* "Command line arguments take priority over config file", of which the   *)
(* first that opens counts, ./ before ~/ (config.c:227-232); what neither  *)
(* says has its default.  In each, the last setting of an option counts.   *)
FileInForce ==
  IF Opens(given.local) THEN given.local.lines
  ELSE IF HasHome /\ Opens(given.home) THEN given.home.lines ELSE <<>>
SettingsInForce ==
  pc \in {"log", "open", "head", "ui", "run", "snap", "save"} =>
    \A o \in Option :
      LET a == LastOf(given.args, o)
          f == LastOf(FileInForce, o)
      IN  config.value[o] = IF a # 0 THEN Read(o, given.args[a].text)
                            ELSE IF f # 0 THEN Read(o, FileInForce[f].text)
                            ELSE Default[o]

(* The program never changes what a user wrote into a configuration file   *)
(* ("File exists, don't overwrite", config.c:181), also when it cannot     *)
(* read it, whatever earlier runs did; it only makes a home file that      *)
(* leaves every setting as it is.                                          *)
ConfigFilesKept ==
  [][pc # "off" =>
       /\ UNCHANGED local
       /\ home' # home =>
            /\ home \in {NoFile, File(<<>>)}
            /\ LoadLines(config, home'.lines) = config]_vars

(* A log holds what its run had to say, in that order and from the start,  *)
(* up to what was not written out; after an orderly end, and together with *)
(* the buffer at any time, it holds everything ("all received JSON data is *)
(* recorded", README.md:206).                                              *)
LogTellsAll ==
  /\ \A f \in FileNames : /\ IsPrefix(logs[f], told[f])
                          /\ clean[f] => logs[f] = told[f]
  /\ Enabled => logs[log] \o buffer = told[log]

(* The names that the program may write to: those of the seconds since it  *)
(* took the time for a file that it has not finished.                      *)
InTheMaking == IF stamp = NoFile THEN {} ELSE {LocalTime[t] : t \in stamp..clock}

(* A file is made again, and what it held lost, only under the local time  *)
(* of a second that has come since the name was taken: the file of any     *)
(* other time is kept, and an open log only grows (logger.c:15, 52,        *)
(* main.c:87-92).  A file of the past is lost when its local time comes    *)
(* again: in the hour repeated at the end of daylight saving, or within    *)
(* the same second.                                                        *)
OldFilesKept ==
  [][\A f \in FileNames \ InTheMaking :
       /\ snaps'[f] = snaps[f]
       /\ IsPrefix(logs[f], logs'[f])
       /\ logs'[f] # logs[f] => f = log]_vars
==============================================================================
