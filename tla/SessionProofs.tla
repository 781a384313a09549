---------------------------- MODULE SessionProofs ----------------------------
(***************************************************************************)
(* The log files, for every set of command lines, files and lines, every   *)
(* number of seconds and of events.                                        *)
(***************************************************************************)
EXTENDS Session, NumberFacts, SequenceTheorems, TLAPS

Event == Lines \union {"started", "note"} \union {Goodbye[1], Goodbye[2]}

Snapshots == [FileNames -> {NoFile, "empty", "whole"}]

LogShape ==
  /\ clock \in Second /\ log \in FileNames \union {NoFile}
  /\ buffer \in Seq(Event)
  /\ logs \in [FileNames -> Seq(Event)] /\ told \in [FileNames -> Seq(Event)]
  /\ clean \in [FileNames -> BOOLEAN]
  /\ snaps \in Snapshots

(* A log that is still written to has not come to its end.                 *)
OpenIsNotClean == Enabled => ~clean[log]

LogInv == LogShape /\ LogTellsAll /\ OpenIsNotClean

(* A time is taken exactly while a file is in the making, and it is of the *)
(* past; the heading that is flushed is that of an open log.               *)
Making ==
  /\ clock \in Second
  /\ stamp = NoFile \/ (stamp \in Second /\ stamp <= clock)
  /\ stamp # NoFile <=> pc \in {"open", "snap", "save"}
  /\ pc = "head" => Enabled

IInv == LogInv /\ Making
-----------------------------------------------------------------------------
(* Prefixes.                                                               *)
LEMMA PrefixOfItself ==
  ASSUME NEW S, NEW s \in Seq(S) PROVE IsPrefix(s, s)
  BY DEF IsPrefix

LEMMA PrefixOfConcat ==
  ASSUME NEW S, NEW s \in Seq(S), NEW t \in Seq(S)
  PROVE  IsPrefix(s, s \o t)
<1>1. Len(s) <= Len(s \o t)
  BY ConcatProperties, LenProperties
<1>2. SubSeq(s, 1, Len(s)) = SubSeq(s \o t, 1, Len(s))
  BY SMTT(20)
<1>3. QED
  BY <1>1, <1>2 DEF IsPrefix

LEMMA Regrouped ==
  ASSUME NEW s \in Seq(Event), NEW t \in Seq(Event), NEW u \in Seq(Event)
  PROVE  (s \o t) \o u = s \o (t \o u)
  BY ConcatAssociative
-----------------------------------------------------------------------------
THEOREM Initially == Init => IInv
<1> SUFFICES ASSUME Init PROVE IInv
  OBVIOUS
<1>1. 0 \in Second
  BY SessionBounds DEF Second
<1>2. <<>> \in Seq(Event)
  OBVIOUS
<1>3. LogShape
  BY <1>1, <1>2 DEF Init, LogShape, Snapshots
<1>4. \A s \in FileNames : logs[s] = <<>> /\ told[s] = <<>> /\ ~clean[s]
  BY DEF Init
<1>5. IsPrefix(<<>>, <<>>)
  BY <1>2, PrefixOfItself
<1>6. LogTellsAll /\ OpenIsNotClean
  BY <1>4, <1>5 DEF Init, LogTellsAll, OpenIsNotClean, Enabled
<1>7. Making
  BY <1>1 DEF Init, Making
<1>8. QED
  BY <1>3, <1>6, <1>7 DEF LogInv, IInv

(* What a run has to say is added to its log's history and to the buffer.   *)
LEMMA TellKeepsLogs ==
  ASSUME LogInv, NEW e \in Event, Happens(e), logger_write(e),
         UNCHANGED <<clock, log, logs, clean>>,
         snaps' \in Snapshots
  PROVE  LogInv'
<1> USE DEF Enabled
<1>1. CASE log = NoFile
  <2>1. UNCHANGED <<told, buffer>>
    BY <1>1 DEF Happens, logger_write
  <2>2. QED
    BY <1>1, <2>1 DEF LogInv, LogShape, LogTellsAll, OpenIsNotClean
<1>2. CASE log # NoFile
  <2>1. log \in FileNames /\ logs[log] \in Seq(Event) /\ told[log] \in Seq(Event)
        /\ buffer \in Seq(Event) /\ logs[log] \o buffer = told[log] /\ ~clean[log]
    BY <1>2 DEF LogInv, LogShape, LogTellsAll, OpenIsNotClean
  <2>2. buffer' = Append(buffer, e) /\ told' = [told EXCEPT ![log] = Append(@, e)]
    BY <1>2 DEF Happens, logger_write
  <2>3. Append(buffer, e) \in Seq(Event) /\ Append(told[log], e) \in Seq(Event)
    BY <2>1
  <2>4. logs[log] \o Append(buffer, e) = Append(told[log], e)
    <3>1. <<e>> \in Seq(Event)
      OBVIOUS
    <3>2. Append(buffer, e) = buffer \o <<e>> /\ Append(told[log], e) = told[log] \o <<e>>
      BY <2>1, AppendIsConcat
    <3>3. (logs[log] \o buffer) \o <<e>> = logs[log] \o (buffer \o <<e>>)
      BY <2>1, <3>1, Regrouped
    <3>4. QED
      BY <2>1, <3>2, <3>3
  <2>5. LogShape'
    BY <2>1, <2>2, <2>3 DEF LogInv, LogShape
  <2>6. told'[log] = Append(told[log], e)
        /\ \A s \in FileNames \ {log} : told'[s] = told[s]
    BY <2>1, <2>2 DEF LogInv, LogShape
  <2>7. IsPrefix(logs[log], told'[log])
    BY <2>1, <2>3, <2>4, <2>6, PrefixOfConcat
  <2>8. LogTellsAll'
    BY <2>1, <2>2, <2>4, <2>6, <2>7 DEF LogInv, LogTellsAll
  <2>9. OpenIsNotClean'
    BY <2>1 DEF OpenIsNotClean
  <2>10. QED
    BY <2>5, <2>8, <2>9 DEF LogInv
<1>3. QED
  BY <1>1, <1>2

(* The end of the process, orderly or not, closes the log.                 *)
LEMMA ClosedKeepsLogs ==
  ASSUME LogInv, log' = NoFile, buffer' = <<>>,
         LogShape', \A s \in FileNames : IsPrefix(logs'[s], told'[s]),
         \A s \in FileNames : clean'[s] => logs'[s] = told'[s]
  PROVE  LogInv'
  BY DEF LogInv, LogTellsAll, OpenIsNotClean, Enabled

LEMMA CloseKeepsLogs ==
  ASSUME LogInv, NEW bye \in Seq(Event), Close(bye) PROVE LogInv'
<1> USE DEF Enabled
<1>1. log' = NoFile /\ buffer' = <<>> /\ UNCHANGED <<clock, snaps>>
  BY DEF Close, Exit
<1>2. CASE log = NoFile
  <2>1. UNCHANGED <<logs, told, clean>>
    BY <1>2 DEF Close
  <2>2. QED
    BY <1>1, <1>2, <2>1 DEF LogInv, LogShape, LogTellsAll, OpenIsNotClean
<1>3. CASE log # NoFile
  <2>1. log \in FileNames /\ logs[log] \in Seq(Event) /\ told[log] \in Seq(Event)
        /\ buffer \in Seq(Event) /\ logs[log] \o buffer = told[log]
    BY <1>3 DEF LogInv, LogShape, LogTellsAll
  <2> DEFINE all == told[log] \o bye
  <2>3. all \in Seq(Event)
    BY <2>1, ConcatProperties
  <2>4. logs' = [logs EXCEPT ![log] = all] /\ told' = [told EXCEPT ![log] = all]
        /\ clean' = [clean EXCEPT ![log] = TRUE]
    BY <1>3, <2>1 DEF Close
  <2> HIDE DEF all
  <2>5. LogShape'
    BY <1>1, <2>1, <2>3, <2>4 DEF LogInv, LogShape
  <2>6. IsPrefix(all, all)
    BY <2>3, PrefixOfItself
  <2>7. \A s \in FileNames : IsPrefix(logs'[s], told'[s])
    BY <2>4, <2>6 DEF LogInv, LogShape, LogTellsAll
  <2>8. \A s \in FileNames : clean'[s] => logs'[s] = told'[s]
    BY <2>4 DEF LogInv, LogShape, LogTellsAll
  <2>9. QED
    BY <1>1, <2>5, <2>7, <2>8, ClosedKeepsLogs
<1>4. QED
  BY <1>2, <1>3

(* stdio moves a prefix of the buffer to the end of the file.               *)
LEMMA SpillMoves ==
  ASSUME NEW s \in Seq(Event), NEW b \in Seq(Event), NEW n \in 1..Len(b)
  PROVE  /\ SubSeq(b, 1, n) \in Seq(Event) /\ SubSeq(b, n + 1, Len(b)) \in Seq(Event)
         /\ s \o SubSeq(b, 1, n) \in Seq(Event)
         /\ (s \o SubSeq(b, 1, n)) \o SubSeq(b, n + 1, Len(b)) = s \o b
<1>1. Len(b) \in Nat
  OBVIOUS
<1>2. SubSeq(b, 1, n) \in Seq(Event) /\ SubSeq(b, n + 1, Len(b)) \in Seq(Event)
  BY <1>1
<1>3. SubSeq(b, 1, n) \o SubSeq(b, n + 1, Len(b)) = b
  <2>1. 1 \in 1..Len(b) + 1 /\ n \in 1 - 1..Len(b) /\ Len(b) \in n..Len(b)
    BY <1>1
  <2>2. SubSeq(b, 1, n) \o SubSeq(b, n + 1, Len(b)) = SubSeq(b, 1, Len(b))
    BY <2>1, ConcatAdjacentSubSeq
  <2>3. QED
    BY <2>2, SubSeqFull
<1>4. s \o SubSeq(b, 1, n) \in Seq(Event)
  BY <1>2
<1>5. (s \o SubSeq(b, 1, n)) \o SubSeq(b, n + 1, Len(b))
        = s \o (SubSeq(b, 1, n) \o SubSeq(b, n + 1, Len(b)))
  BY <1>2, Regrouped
<1>6. QED
  BY <1>2, <1>3, <1>4, <1>5

LEMMA SpillKeepsLogs == ASSUME LogInv, Spill PROVE LogInv'
<1> USE DEF Enabled
<1>1. log # NoFile /\ UNCHANGED <<clock, log, told, clean, snaps>>
  BY DEF Spill, naming
<1>2. PICK n \in 1..Len(buffer) :
        /\ logs' = [logs EXCEPT ![log] = @ \o SubSeq(buffer, 1, n)]
        /\ buffer' = SubSeq(buffer, n + 1, Len(buffer))
  BY DEF Spill
<1>3. log \in FileNames /\ logs[log] \in Seq(Event)
      /\ buffer \in Seq(Event) /\ logs[log] \o buffer = told[log] /\ ~clean[log]
  BY <1>1 DEF LogInv, LogShape, LogTellsAll, OpenIsNotClean
<1> DEFINE more == logs[log] \o SubSeq(buffer, 1, n)
<1>4. more \in Seq(Event) /\ buffer' \in Seq(Event) /\ more \o buffer' = told[log]
  BY <1>2, <1>3, SpillMoves
<1>5. logs' = [logs EXCEPT ![log] = more]
  BY <1>2
<1> HIDE DEF more
<1>6. LogShape'
  BY <1>1, <1>3, <1>4, <1>5 DEF LogInv, LogShape
<1>7. logs'[log] = more /\ \A s \in FileNames \ {log} : logs'[s] = logs[s]
  BY <1>3, <1>5 DEF LogInv, LogShape
<1>8. IsPrefix(more, told[log])
  BY <1>4, PrefixOfConcat
<1>9. LogTellsAll'
  BY <1>1, <1>3, <1>4, <1>7, <1>8 DEF LogInv, LogTellsAll
<1>10. QED
  BY <1>1, <1>3, <1>6, <1>9 DEF LogInv, OpenIsNotClean

(* The name in the making is one.                                          *)
LEMMA NameTyped == ASSUME Making, stamp # NoFile PROVE FileName \in FileNames
<1>1. stamp \in 0..MaxClock
  BY DEF Making, Second
<1>2. QED
  BY <1>1, NamesTyped DEF FileName

LEMMA OpenLogKeepsLogs == ASSUME IInv, OpenLog PROVE LogInv'
<1> USE DEF Enabled, IInv
<1>1. UNCHANGED <<clock, snaps>> /\ stamp # NoFile
  BY DEF OpenLog, Making
<1>2. CASE UNCHANGED logging
  BY <1>1, <1>2 DEF LogInv, LogShape, LogTellsAll, OpenIsNotClean, logging
<1>3. CASE /\ log' = FileName /\ buffer' = <<"started">>
           /\ logs' = [logs EXCEPT ![FileName] = <<>>]
           /\ told' = [told EXCEPT ![FileName] = <<"started">>]
           /\ clean' = [clean EXCEPT ![FileName] = FALSE]
  <2> DEFINE f == FileName
             head == <<"started">>
  <2>1. f \in FileNames /\ f # NoFile /\ head \in Seq(Event) /\ <<>> \in Seq(Event)
    BY <1>1, NameTyped, NamesTyped DEF Event
  <2>2. IsPrefix(<<>>, head) /\ <<>> \o head = head
    <3>1. <<>> \o head = head
      BY <2>1, ConcatEmptySeq
    <3>2. IsPrefix(<<>>, <<>> \o head)
      <4> HIDE DEF head
      <4>1. QED
        BY <2>1, PrefixOfConcat
    <3>3. QED
      BY <3>1, <3>2
  <2>3. /\ log' = f /\ buffer' = head
        /\ logs' = [logs EXCEPT ![f] = <<>>] /\ told' = [told EXCEPT ![f] = head]
        /\ clean' = [clean EXCEPT ![f] = FALSE]
    BY <1>3
  <2> HIDE DEF f, head
  <2>4. /\ logs \in [FileNames -> Seq(Event)] /\ told \in [FileNames -> Seq(Event)]
        /\ clean \in [FileNames -> BOOLEAN]
    BY DEF LogInv, LogShape
  <2>5. LogShape'
    BY <1>1, <2>1, <2>3, <2>4 DEF LogInv, LogShape
  <2>6. logs'[f] = <<>> /\ told'[f] = head /\ ~clean'[f]
        /\ \A s \in FileNames \ {f} :
             logs'[s] = logs[s] /\ told'[s] = told[s] /\ clean'[s] = clean[s]
    BY <2>1, <2>3, <2>4
  <2>7. LogTellsAll'
    BY <2>2, <2>3, <2>6 DEF LogInv, LogTellsAll
  <2>8. QED
    BY <2>3, <2>5, <2>6, <2>7 DEF LogInv, OpenIsNotClean
<1>4. QED
  BY <1>2, <1>3 DEF OpenLog

(* fflush(): all of the buffer is in the file.                              *)
LEMMA FlushKeepsLogs == ASSUME IInv, FlushHeading PROVE LogInv'
<1> USE DEF Enabled, IInv
<1>1. log # NoFile /\ UNCHANGED <<clock, log, told, clean, snaps>>
  BY DEF FlushHeading, Making, naming
<1>2. /\ log \in FileNames /\ logs \in [FileNames -> Seq(Event)]
      /\ logs[log] \in Seq(Event) /\ told[log] \in Seq(Event) /\ buffer \in Seq(Event)
      /\ logs[log] \o buffer = told[log]
  BY <1>1 DEF LogInv, LogShape, LogTellsAll
<1>3. logs' = [logs EXCEPT ![log] = told[log]] /\ buffer' = <<>>
  BY <1>2 DEF FlushHeading
<1>4. LogShape'
  BY <1>1, <1>2, <1>3 DEF LogInv, LogShape
<1>5. /\ logs'[log] = told[log] /\ \A s \in FileNames \ {log} : logs'[s] = logs[s]
      /\ told[log] \o <<>> = told[log] /\ IsPrefix(told[log], told[log])
  <2>1. told[log] \o <<>> = told[log] /\ IsPrefix(told[log], told[log])
    BY <1>2, PrefixOfItself, ConcatEmptySeq
  <2>2. QED
    BY <1>2, <1>3, <2>1
<1>6. LogTellsAll'
  BY <1>1, <1>3, <1>5 DEF LogInv, LogTellsAll
<1>7. QED
  BY <1>1, <1>4, <1>6 DEF LogInv, OpenIsNotClean

(* The file of the snapshot.                                               *)
LEMMA SnapshotTyped ==
  ASSUME IInv, OpenSnapshot \/ WriteSnapshot PROVE snaps' \in Snapshots
<1>1. FileName \in FileNames
  BY NameTyped DEF IInv, Making, OpenSnapshot, WriteSnapshot
<1>2. QED
  BY <1>1 DEF OpenSnapshot, WriteSnapshot, IInv, LogInv, LogShape, Snapshots
-----------------------------------------------------------------------------
LEMMA LastWords == <<"ended">> \in Seq(Event) /\ Goodbye \in Seq(Event)
  BY DEF Goodbye, Event

(* Most steps leave the logs alone.                                        *)
LEMMA LoggingUntouched ==
  ASSUME LogInv, clock' \in Second, UNCHANGED <<logging, snaps>> PROVE LogInv'
  BY DEF LogInv, LogShape, LogTellsAll, OpenIsNotClean, Enabled, logging

LEMMA StepLogs == ASSUME IInv, [Next]_vars PROVE LogInv'
<1>1. clock \in Second /\ LogInv
  BY DEF IInv, LogInv, LogShape
<1>2. ASSUME NEW args \in CommandLines, Start(args) PROVE LogInv'
  BY <1>1, <1>2, LoggingUntouched DEF Start, naming
<1>3. CASE config_load \/ CreateFile \/ FillFile
  BY <1>1, <1>3, LoggingUntouched DEF config_load, CreateFile, FillFile, naming
<1>4. CASE logger_init \/ save_snapshot
  BY <1>1, <1>4, LoggingUntouched DEF logger_init, save_snapshot
<1>5. CASE OpenLog
  BY <1>5, OpenLogKeepsLogs
<1>6. CASE FlushHeading
  BY <1>6, FlushKeepsLogs
<1>7. ASSUME NEW l \in Lines, ReceiveLine(l) PROVE LogInv'
  <2>1. l \in Event
    BY DEF Event
  <2>2. QED
    BY <1>1, <1>7, <2>1, TellKeepsLogs DEF ReceiveLine, naming, LogInv, LogShape
<1>8. CASE Note
  <2>1. "note" \in Event
    BY DEF Event
  <2>2. QED
    BY <1>1, <1>8, <2>1, TellKeepsLogs DEF Note, naming, LogInv, LogShape
<1>9. CASE OpenSnapshot
  <2>1. snaps' \in Snapshots /\ UNCHANGED <<clock, logging>>
    BY <1>9, SnapshotTyped DEF OpenSnapshot
  <2>2. QED
    BY <1>1, <2>1 DEF LogInv, LogShape, LogTellsAll, OpenIsNotClean, Enabled, logging
<1>10. CASE WriteSnapshot
  <2>1. "note" \in Event /\ snaps' \in Snapshots
    BY <1>10, SnapshotTyped DEF Event
  <2>2. QED
    BY <1>1, <1>10, <2>1, TellKeepsLogs DEF WriteSnapshot
<1>11. CASE Spill
  BY <1>1, <1>11, SpillKeepsLogs
<1>12. CASE Quit
  BY <1>1, <1>12, LastWords, CloseKeepsLogs DEF Quit
<1>13. CASE Crash
  <2>1. log' = NoFile /\ buffer' = <<>> /\ UNCHANGED <<clock, logs, told, clean, snaps>>
    BY <1>13 DEF Crash, Exit
  <2>2. LogShape'
    BY <1>1, <2>1 DEF LogInv, LogShape
  <2>3. QED
    BY <1>1, <2>1, <2>2, ClosedKeepsLogs DEF LogInv, LogTellsAll
<1>14. CASE Tick
  <2>1. clock' \in Second
    BY <1>1, <1>14, SessionBounds DEF Tick, Second
  <2>2. QED
    BY <1>1, <1>14, <2>1, LoggingUntouched DEF Tick, naming
<1>15. CASE UserEdits
  BY <1>1, <1>15, LoggingUntouched DEF UserEdits, naming
<1>16. CASE UNCHANGED vars
  BY <1>1, <1>16, LoggingUntouched DEF vars, naming
<1>17. CASE ui_init
  <2>1. CASE Close(<<"ended">>)
    BY <1>1, <2>1, LastWords, CloseKeepsLogs
  <2>2. CASE UNCHANGED <<clock, logging, naming>>
    BY <1>1, <2>2, LoggingUntouched DEF naming
  <2>3. QED
    BY <1>17, <2>1, <2>2 DEF ui_init
<1>18. QED
  BY <1>2, <1>3, <1>4, <1>5, <1>6, <1>7, <1>8, <1>9, <1>10, <1>11, <1>12, <1>13, <1>14,
     <1>15, <1>16, <1>17 DEF Next, Program

(* Steps outside the making of a file.                                     *)
LEMMA NothingMade ==
  ASSUME Making, UNCHANGED clock, stamp' = NoFile,
         pc' \notin {"open", "head", "snap", "save"}
  PROVE  Making'
  BY DEF Making

LEMMA StepMaking == ASSUME Making, [Next]_vars PROVE Making'
<1> USE DEF naming
<1>1. clock \in Second /\ clock \in Nat /\ clock # NoFile
  BY NamesTyped DEF Making, Second
<1>2. ASSUME NEW args \in CommandLines, Start(args) PROVE Making'
  BY <1>2, NothingMade DEF Start, Making
<1>3. CASE config_load \/ CreateFile \/ FillFile
  BY <1>3, NothingMade DEF config_load, CreateFile, FillFile, Making
<1>4. CASE logger_init \/ save_snapshot
  <2>1. CASE stamp' = clock /\ pc' \in {"open", "snap"} /\ UNCHANGED clock
    BY <1>1, <2>1 DEF Making
  <2>2. CASE pc = "log" /\ pc' = "ui" /\ UNCHANGED <<clock, stamp>>
    BY <2>2, NothingMade DEF Making
  <2>3. QED
    BY <1>4, <2>1, <2>2 DEF logger_init, save_snapshot
<1>5. CASE OpenLog
  <2>1. FileName # NoFile
    BY <1>5, NameTyped, NamesTyped DEF OpenLog, Making
  <2>2. CASE pc' = "head" /\ log' = FileName
    BY <1>5, <2>1, <2>2 DEF OpenLog, Making, Enabled
  <2>3. CASE pc' = "ui"
    BY <1>5, <2>3, NothingMade DEF OpenLog
  <2>4. QED
    BY <1>5, <2>2, <2>3 DEF OpenLog
<1>6. CASE FlushHeading
  BY <1>6, NothingMade DEF FlushHeading, Making
<1>7. CASE Spill \/ Note \/ \E l \in Lines : ReceiveLine(l)
  BY <1>7 DEF Spill, Note, ReceiveLine, MayTell, Making
<1>8. CASE OpenSnapshot \/ WriteSnapshot
  BY <1>8 DEF OpenSnapshot, WriteSnapshot, Making
<1>9. ASSUME Exit, UNCHANGED clock PROVE Making'
  BY <1>9, NothingMade DEF Exit
<1>10. CASE Quit \/ Crash
  BY <1>9, <1>10 DEF Quit, Close, Crash
<1>11. CASE ui_init
  <2>1. CASE pc = "ui" /\ pc' = "run" /\ UNCHANGED <<clock, stamp>>
    BY <2>1, NothingMade DEF Making
  <2>2. QED
    BY <1>9, <1>11, <2>1 DEF ui_init, Close
<1>12. CASE Tick
  <2>1. clock' \in Second /\ clock <= clock' /\ UNCHANGED <<pc, stamp, log>>
    BY <1>1, <1>12, SessionBounds DEF Tick, Second, logging
  <2>2. stamp \in Second => stamp \in Nat
    BY DEF Second
  <2>3. clock' \in Nat
    BY <1>1, <2>1 DEF Second
  <2>4. stamp \in Second /\ stamp <= clock => stamp <= clock'
    BY <1>1, <2>1, <2>2, <2>3
  <2>5. QED
    BY <2>1, <2>4 DEF Making, Enabled
<1>13. CASE UserEdits \/ UNCHANGED vars
  BY <1>13 DEF UserEdits, vars, logging, Making, Enabled
<1>14. QED
  BY <1>2, <1>3, <1>4, <1>5, <1>6, <1>7, <1>8, <1>10, <1>11, <1>12, <1>13
     DEF Next, Program

THEOREM Inductive == IInv /\ [Next]_vars => IInv'
  BY StepLogs, StepMaking DEF IInv

(* The inductive invariant of the log files.                               *)
THEOREM Invariance == Spec => []IInv
  BY Initially, Inductive, PTL DEF Spec

(* A log tells, in order and from the start, what its run had to say: all  *)
(* of it after an orderly end, and up to the buffer of stdio at any time.  *)
THEOREM LogsTellAll == Spec => []LogTellsAll
<1>1. IInv => LogTellsAll
  BY DEF IInv, LogInv
<1>2. QED
  BY <1>1, Invariance, PTL
-----------------------------------------------------------------------------
(* What a step may do to the files of one name.                            *)
FilesKept(s) ==
  /\ snaps'[s] = snaps[s]
  /\ IsPrefix(logs[s], logs'[s])
  /\ logs'[s] # logs[s] => s = log

LEMMA Untouched ==
  ASSUME LogInv, NEW s \in FileNames, logs'[s] = logs[s], snaps'[s] = snaps[s]
  PROVE  FilesKept(s)
<1>1. logs[s] \in Seq(Event)
  BY DEF LogInv, LogShape
<1>2. QED
  BY <1>1, PrefixOfItself DEF FilesKept

(* Appending to the open log is all that happens to it.                    *)
LEMMA Appended ==
  ASSUME LogInv, log # NoFile, NEW more \in Seq(Event),
         logs' = [logs EXCEPT ![log] = @ \o more], UNCHANGED snaps,
         NEW s \in FileNames
  PROVE  FilesKept(s)
<1>1. log \in FileNames /\ logs \in [FileNames -> Seq(Event)]
  BY DEF LogInv, LogShape
<1>2. CASE s = log
  <2>1. logs'[s] = logs[s] \o more
    BY <1>1, <1>2
  <2>2. IsPrefix(logs[s], logs[s] \o more)
    BY <1>1, PrefixOfConcat
  <2>3. QED
    BY <1>2, <2>1, <2>2 DEF FilesKept
<1>3. CASE s # log
  BY <1>1, <1>3, Untouched
<1>4. QED
  BY <1>2, <1>3

(* The name of a file that is opened or written is in the making.          *)
LEMMA NameInTheMaking == ASSUME Making, stamp # NoFile PROVE FileName \in InTheMaking
<1>1. stamp \in stamp..clock
  BY DEF Making, Second
<1>2. QED
  BY <1>1 DEF FileName, InTheMaking

LEMMA StepKeepsFiles ==
  ASSUME IInv, Next, NEW s \in FileNames \ InTheMaking PROVE FilesKept(s)
<1> USE DEF IInv, naming
<1>1. CASE UNCHANGED <<logs, snaps>>
  BY <1>1, Untouched
<1>2. CASE OpenLog
  <2>1. logs \in [FileNames -> Seq(Event)] /\ FileName # s
    BY <1>2, NameInTheMaking DEF LogInv, LogShape, OpenLog, Making
  <2>2. logs'[s] = logs[s] /\ snaps'[s] = snaps[s]
    BY <1>2, <2>1 DEF OpenLog, logging
  <2>3. QED
    BY <2>2, Untouched
<1>3. CASE OpenSnapshot \/ WriteSnapshot
  <2>1. snaps \in Snapshots /\ FileName # s
    BY <1>3, NameInTheMaking DEF LogInv, LogShape, OpenSnapshot, WriteSnapshot, Making
  <2>2. logs'[s] = logs[s] /\ snaps'[s] = snaps[s]
    BY <1>3, <2>1 DEF OpenSnapshot, WriteSnapshot, logging, Snapshots
  <2>3. QED
    BY <2>2, Untouched
<1>4. CASE Spill
  <2>1. PICK n \in 1..Len(buffer) : logs' = [logs EXCEPT ![log] = @ \o SubSeq(buffer, 1, n)]
    BY <1>4 DEF Spill
  <2>2. log # NoFile /\ UNCHANGED snaps
    BY <1>4 DEF Spill, Enabled
  <2>3. SubSeq(buffer, 1, n) \in Seq(Event)
    BY SpillMoves DEF LogInv, LogShape
  <2>4. QED
    BY <2>1, <2>2, <2>3, Appended
<1>5. ASSUME NEW bye \in Seq(Event), Close(bye) PROVE FilesKept(s)
  <2>1. CASE log = NoFile
    BY <1>1, <1>5, <2>1 DEF Close, Enabled
  <2>2. CASE log # NoFile
    <3>1. log \in FileNames /\ logs \in [FileNames -> Seq(Event)] /\ buffer \in Seq(Event)
      BY <2>2 DEF LogInv, LogShape
    <3>2. buffer \o bye \in Seq(Event)
      BY <3>1, ConcatProperties
    <3>3. (logs[log] \o buffer) \o bye = logs[log] \o (buffer \o bye)
      BY <3>1, Regrouped
    <3>4. logs' = [logs EXCEPT ![log] = @ \o (buffer \o bye)] /\ UNCHANGED snaps
      BY <1>5, <2>2, <3>3 DEF Close, Enabled
    <3>5. QED
      BY <2>2, <3>2, <3>4, Appended
  <2>3. QED
    BY <2>1, <2>2
<1>6. CASE FlushHeading
  <2>1. log # NoFile /\ buffer \in Seq(Event) /\ UNCHANGED snaps
    BY <1>6 DEF FlushHeading, Making, Enabled, LogInv, LogShape
  <2>2. logs' = [logs EXCEPT ![log] = @ \o buffer]
    BY <1>6 DEF FlushHeading
  <2>3. QED
    BY <2>1, <2>2, Appended
<1>7. QED
  <2>1. CASE Crash
    BY <1>1, <2>1 DEF Crash
  <2>2. CASE Tick \/ UserEdits
    BY <1>1, <2>2 DEF Tick, UserEdits, logging
  <2>3. ASSUME NEW args \in CommandLines, Start(args) PROVE FilesKept(s)
    BY <1>1, <2>3 DEF Start, logging
  <2>4. CASE config_load \/ CreateFile \/ FillFile \/ logger_init \/ save_snapshot
    BY <1>1, <2>4 DEF config_load, CreateFile, FillFile, logger_init, save_snapshot, logging
  <2>5. ASSUME NEW l \in Lines, ReceiveLine(l) PROVE FilesKept(s)
    BY <1>1, <2>5 DEF ReceiveLine
  <2>6. CASE Note
    BY <1>1, <2>6 DEF Note
  <2>7. CASE Quit
    BY <1>5, <2>7, LastWords DEF Quit
  <2>8. CASE ui_init
    BY <1>1, <1>5, <2>8, LastWords DEF ui_init, logging
  <2>9. QED
    BY <1>2, <1>3, <1>4, <1>6, <2>1, <2>2, <2>3, <2>4, <2>5, <2>6, <2>7, <2>8
       DEF Next, Program

(* A file keeps what it holds, and of the logs only the open one changes,  *)
(* and it grows, unless its name is the local time of a second since the   *)
(* program took the time for a file that it has not finished: whatever     *)
(* localtime() makes of the seconds, names that come twice included.       *)
THEOREM PastFilesKept == Spec => OldFilesKept
<1>1. IInv /\ [Next]_vars => [\A f \in FileNames \ InTheMaking : FilesKept(f)]_vars
  BY StepKeepsFiles
<1>2. (\A f \in FileNames \ InTheMaking : FilesKept(f)) <=>
      (\A f \in FileNames \ InTheMaking :
         /\ snaps'[f] = snaps[f]
         /\ IsPrefix(logs[f], logs'[f])
         /\ logs'[f] # logs[f] => f = log)
  BY DEF FilesKept
<1>3. QED
  BY <1>1, <1>2, Invariance, PTL DEF Spec, OldFilesKept
-----------------------------------------------------------------------------
(* The settings: what command line and file make of the defaults.          *)

Value    == {Default[o] : o \in Option} \union {Read(o, t) : o \in Option, t \in Texts}
Configs  == [value: [Option -> Value], cli: SUBSET Option]
Given    == [key: Option, text: Texts]

(* now is what the first k of sets leave of the value before.              *)
Latest(sets, k, o, before, now) ==
  \/ \E i \in 1..k : /\ sets[i].key = o /\ now = Read(o, sets[i].text)
                     /\ \A j \in 1..k : j > i => sets[j].key # o
  \/ (\A i \in 1..k : sets[i].key # o) /\ now = before

InForce(sets, o, before) ==
  IF LastOf(sets, o) # 0 THEN Read(o, sets[LastOf(sets, o)].text) ELSE before

LEMMA LatestStep ==
  ASSUME NEW sets, NEW k \in Nat, NEW o, NEW before, NEW now,
         Latest(sets, k, o, before, now)
  PROVE  Latest(sets, k + 1, o, before,
                IF sets[k + 1].key = o THEN Read(o, sets[k + 1].text) ELSE now)
<1>1. 1..(k + 1) = 1..k \union {k + 1} /\ k + 1 \in 1..(k + 1)
      /\ \A j \in 1..(k + 1) : ~(j > k + 1)
  OBVIOUS
<1>2. CASE sets[k + 1].key = o
  BY <1>1, <1>2 DEF Latest
<1>3. CASE sets[k + 1].key # o
  BY <1>1, <1>3 DEF Latest
<1>. QED BY <1>2, <1>3

(* LastOf finds the setting that Latest speaks of.                         *)
LEMMA LatestIsLast ==
  ASSUME NEW S, NEW sets \in Seq(S), NEW o, NEW before, NEW now,
         Latest(sets, Len(sets), o, before, now)
  PROVE  /\ LastOf(sets, o) # 0 <=> \E i \in DOMAIN sets : sets[i].key = o
         /\ now = InForce(sets, o, before)
<1>1. Len(sets) \in Nat /\ DOMAIN sets = 1..Len(sets)
  OBVIOUS
<1>2. CASE \A i \in 1..Len(sets) : sets[i].key # o
  <2>1. LastOf(sets, o) = 0
    BY <1>1, <1>2 DEF LastOf
  <2>. QED BY <1>1, <1>2, <2>1 DEF Latest, InForce
<1>3. CASE ~(\A i \in 1..Len(sets) : sets[i].key # o)
  <2>. DEFINE IsLast(i) == sets[i].key = o /\ \A j \in DOMAIN sets : j > i => sets[j].key # o
  <2>1. PICK i \in DOMAIN sets : IsLast(i) /\ now = Read(o, sets[i].text)
    BY <1>1, <1>3 DEF Latest
  <2>2. LastOf(sets, o) = CHOOSE j \in DOMAIN sets : IsLast(j)
    BY <1>1, <1>3 DEF LastOf
  <2>3. \A j \in DOMAIN sets : IsLast(j) => j = i
    BY <1>1, <2>1
  <2>. HIDE DEF IsLast
  <2>4. LastOf(sets, o) = i
    BY <2>1, <2>2, <2>3
  <2>5. i # 0
    BY <1>1
  <2>. QED BY <1>1, <1>3, <2>1, <2>4, <2>5 DEF InForce
<1>. QED BY <1>2, <1>3

(* What one setting does.                                                  *)
LEMMA SetFacts ==
  ASSUME NEW c \in Configs, NEW s \in Setting, s.key \in Option
  PROVE  /\ Set(c, s) = [value |-> [c.value EXCEPT ![s.key] = Read(s.key, s.text)],
                         cli |-> c.cli]
         /\ Set(c, s) \in Configs
<1>1. c = [value |-> c.value, cli |-> c.cli] /\ c.value \in [Option -> Value]
      /\ c.cli \in SUBSET Option
  BY DEF Configs
<1>2. Read(s.key, s.text) \in Value
  BY DEF Value, Setting
<1>3. [c.value EXCEPT ![s.key] = Read(s.key, s.text)] \in [Option -> Value]
  <2>. HIDE DEF Read, Value, Option
  <2>. QED BY <1>1, <1>2
<1>4. Set(c, s) = [value |-> [c.value EXCEPT ![s.key] = Read(s.key, s.text)],
                   cli |-> c.cli]
  BY <1>1 DEF Set
<1>. QED BY <1>1, <1>3, <1>4 DEF Configs

(* A line of the file, option by option.                                   *)
LEMMA LineFacts ==
  ASSUME NEW c \in Configs, NEW s \in Setting
  PROVE  LET new == parse_config_line(c, s)
         IN  /\ new \in Configs /\ new.cli = c.cli
             /\ \A o \in Option :
                  new.value[o] = IF o \notin c.cli /\ s.key = o THEN Read(o, s.text)
                                 ELSE c.value[o]
<1>. DEFINE new == parse_config_line(c, s)
<1>1. CASE s.key \in Option \ c.cli
  <2>1. new = Set(c, s)
    BY <1>1 DEF parse_config_line
  <2>2. s.key \in Option
    BY <1>1
  <2>3. /\ new = [value |-> [c.value EXCEPT ![s.key] = Read(s.key, s.text)],
                  cli |-> c.cli]
        /\ new \in Configs /\ DOMAIN c.value = Option
    BY <2>1, <2>2, SetFacts DEF Configs
  <2>. HIDE DEF new
  <2>4. new.value = [c.value EXCEPT ![s.key] = Read(s.key, s.text)] /\ new.cli = c.cli
    BY <2>3
  <2>. QED BY <1>1, <2>3, <2>4 DEF new
<1>2. CASE s.key \notin Option \ c.cli
  <2>1. new = c
    BY <1>2 DEF parse_config_line
  <2>. QED BY <1>2, <2>1
<1>. QED BY <1>1, <1>2

(* config_load() of a file: what the command line has set stays, of every  *)
(* other option the last setting of the file counts.                       *)
LEMMA LinesLoaded ==
  ASSUME NEW c \in Configs, NEW lines \in Seq(Setting)
  PROVE  LET new == LoadLines(c, lines)
         IN  /\ new \in Configs /\ new.cli = c.cli
             /\ \A o \in Option :
                  new.value[o] = IF o \in c.cli THEN c.value[o]
                                 ELSE InForce(lines, o, c.value[o])
<1>. DEFINE n == Len(lines)
            step == [i \in 1..n |-> [d \in Configs |-> parse_config_line(d, lines[i])]]
            after[i \in 0..n] ==
              IF i = 0 THEN c ELSE parse_config_line(after[i - 1], lines[i])
<1>1. n \in Nat /\ \A i \in 1..n : lines[i] \in Setting
  <2>1. n \in Nat /\ DOMAIN lines = 1..n
    OBVIOUS
  <2>. QED BY <2>1, ElementOfSeq
<1>2. step \in [1..n -> [Configs -> Configs]]
  BY <1>1, LineFacts
<1>3. Loop(n, Configs, c, step)
  BY <1>1, <1>2 DEF Loop
<1>4. PICK g : Runs(g, n, Configs, c, step)
  <2>. HIDE DEF step
  <2>. QED BY <1>3, LoopExists
<1>5. /\ g \in [0..n -> Configs] /\ g[0] = c
      /\ \A k \in 1..n : g[k - 1] \in Configs /\ g[k] = parse_config_line(g[k - 1], lines[k])
  <2>1. g \in [0..n -> Configs] /\ g[0] = c
    BY <1>4 DEF Runs
  <2>2. ASSUME NEW k \in 1..n
        PROVE  g[k - 1] \in Configs /\ g[k] = parse_config_line(g[k - 1], lines[k])
    <3>1. k - 1 \in 0..n
      BY <1>1
    <3>2. g[k - 1] \in Configs
      BY <2>1, <3>1
    <3>3. g[k] = step[k][g[k - 1]]
      BY <1>4 DEF Runs
    <3>. QED BY <3>2, <3>3
  <2>. QED BY <2>1, <2>2
<1>6. g = [i \in 0..n |-> IF i = 0 THEN c ELSE parse_config_line(g[i - 1], lines[i])]
  <2>1. ASSUME NEW i \in 0..n
        PROVE  g[i] = IF i = 0 THEN c ELSE parse_config_line(g[i - 1], lines[i])
    <3>1. i = 0 \/ i \in 1..n
      BY <1>1
    <3>. QED BY <1>5, <3>1
  <2>. QED BY <1>5, <2>1
<1>7. after = [i \in 0..n |-> IF i = 0 THEN c ELSE parse_config_line(after[i - 1], lines[i])]
  BY <1>6
<1>8. LoadLines(c, lines) = after[n]
  BY DEF LoadLines
<1>. DEFINE Good(k) ==
              /\ after[k] \in Configs /\ after[k].cli = c.cli
              /\ \A o \in Option :
                   IF o \in c.cli THEN after[k].value[o] = c.value[o]
                   ELSE Latest(lines, k, o, c.value[o], after[k].value[o])
            Done == {k \in 0..n : Good(k)}
<1>. HIDE DEF after
<1>9. /\ after[0] = c
      /\ \A k \in 0..(n - 1) : after[k + 1] = parse_config_line(after[k], lines[k + 1])
  <2>1. after[0] = c
    BY <1>1, <1>7
  <2>2. ASSUME NEW k \in 0..(n - 1)
        PROVE  after[k + 1] = parse_config_line(after[k], lines[k + 1])
    <3>1. k + 1 \in 0..n /\ k + 1 # 0 /\ (k + 1) - 1 = k
      BY <1>1
    <3>. QED BY <1>7, <3>1
  <2>. QED BY <2>1, <2>2
<1>10. 0 \in Done
  <2>1. \A o \in Option : Latest(lines, 0, o, c.value[o], c.value[o])
    BY DEF Latest
  <2>. QED BY <1>1, <1>9, <2>1
<1>11. ASSUME NEW k \in 0..(n - 1), k \in Done PROVE k + 1 \in Done
  <2>1. /\ k + 1 \in 0..n /\ k \in Nat /\ k + 1 \in 1..n /\ Good(k)
        /\ lines[k + 1] \in Setting
    BY <1>1, <1>11
  <2>. DEFINE d == after[k]
              s == lines[k + 1]
              new == after[k + 1]
  <2>2. /\ new \in Configs /\ new.cli = c.cli
        /\ \A o \in Option :
             new.value[o] = IF o \notin c.cli /\ s.key = o THEN Read(o, s.text)
                            ELSE d.value[o]
    <3>1. d \in Configs /\ new = parse_config_line(d, s) /\ d.cli = c.cli
      BY <1>9, <2>1
    <3>. HIDE DEF new, d, s
    <3>. QED BY <2>1, <3>1, LineFacts DEF s
  <2>. HIDE DEF new
  <2>3. ASSUME NEW o \in Option
        PROVE  IF o \in c.cli THEN new.value[o] = c.value[o]
               ELSE Latest(lines, k + 1, o, c.value[o], new.value[o])
    <3>1. CASE o \in c.cli
      BY <2>1, <2>2, <3>1
    <3>2. CASE o \notin c.cli
      <4>1. Latest(lines, k, o, c.value[o], d.value[o])
        BY <2>1, <3>2
      <4>2. new.value[o] = IF lines[k + 1].key = o THEN Read(o, lines[k + 1].text)
                           ELSE d.value[o]
        BY <2>2, <3>2
      <4>. QED BY <2>1, <3>2, <4>1, <4>2, LatestStep
    <3>. QED BY <3>1, <3>2
  <2>. QED BY <2>1, <2>2, <2>3 DEF new
<1>12. Good(n)
  <2>. HIDE DEF Done
  <2>1. \A k \in 0..n : k \in Done
    BY <1>1, <1>10, <1>11, UpTo
  <2>. QED BY <1>1, <2>1 DEF Done
<1>13. ASSUME NEW o \in Option
       PROVE  after[n].value[o] = IF o \in c.cli THEN c.value[o]
                                  ELSE InForce(lines, o, c.value[o])
  BY <1>12, LatestIsLast
<1>. QED BY <1>8, <1>12, <1>13

(* config_parse_args(): of every option that is given the last counts, and *)
(* it is marked.                                                           *)
LEMMA ArgumentFacts ==
  ASSUME NEW c \in Configs, NEW s \in Given
  PROVE  LET new == Argument(c, s)
         IN  /\ new \in Configs /\ new.cli = c.cli \union {s.key}
             /\ \A o \in Option :
                  new.value[o] = IF s.key = o THEN Read(o, s.text) ELSE c.value[o]
<1>. DEFINE new == Argument(c, s)
            value == [c.value EXCEPT ![s.key] = Read(s.key, s.text)]
<1>1. s \in Setting /\ s.key \in Option /\ DOMAIN c.value = Option
      /\ c.cli \union {s.key} \in SUBSET Option
  <2>1. s.key \in Option /\ s \in Setting
    <3>. HIDE DEF Option
    <3>. QED BY DEF Given, Setting
  <2>. QED BY <2>1 DEF Configs
<1>2. Set(c, s) = [value |-> value, cli |-> c.cli] /\ Set(c, s) \in Configs
  BY <1>1, SetFacts
<1>3. \A o \in Option : value[o] = IF s.key = o THEN Read(o, s.text) ELSE c.value[o]
  BY <1>1
<1>. HIDE DEF value
<1>4. new = [value |-> value, cli |-> c.cli \union {s.key}]
  BY <1>2 DEF Argument
<1>5. value \in [Option -> Value]
  BY <1>2 DEF Configs
<1>6. new.value = value /\ new.cli = c.cli \union {s.key} /\ new \in Configs
  BY <1>1, <1>4, <1>5 DEF Configs
<1>. QED BY <1>3, <1>6

LEMMA InitialConfig ==
  /\ config_init \in Configs /\ config_init.value = Default /\ config_init.cli = {}
<1>1. \A o \in Option : Default[o] \in Value
  BY DEF Value
<1>2. Default \in [Option -> Value]
  <2>1. Default = [o \in Option |-> Default[o]]
    BY DefaultsAreWritten
  <2>. HIDE DEF Value, Option
  <2>. QED BY <1>1, <2>1
<1>. QED BY <1>2 DEF config_init, Configs

LEMMA ArgsParsed ==
  ASSUME NEW args \in Seq(Given)
  PROVE  LET new == config_parse_args(config_init, args)
         IN  /\ new \in Configs
             /\ \A o \in Option :
                  /\ o \in new.cli <=> LastOf(args, o) # 0
                  /\ new.value[o] = InForce(args, o, Default[o])
<1>. DEFINE n == Len(args)
            c == config_init
            step == [i \in 1..n |-> [d \in Configs |-> Argument(d, args[i])]]
            after[i \in 0..n] == IF i = 0 THEN c ELSE Argument(after[i - 1], args[i])
<1>1. n \in Nat /\ DOMAIN args = 1..n /\ \A i \in 1..n : args[i] \in Given
  <2>1. n \in Nat /\ DOMAIN args = 1..n
    OBVIOUS
  <2>. QED BY <2>1, ElementOfSeq
<1>2. step \in [1..n -> [Configs -> Configs]]
  BY <1>1, ArgumentFacts
<1>3. Loop(n, Configs, c, step)
  BY <1>1, <1>2, InitialConfig DEF Loop
<1>4. PICK g : Runs(g, n, Configs, c, step)
  <2>. HIDE DEF step, c
  <2>. QED BY <1>3, LoopExists
<1>5. /\ g \in [0..n -> Configs] /\ g[0] = c
      /\ \A k \in 1..n : g[k - 1] \in Configs /\ g[k] = Argument(g[k - 1], args[k])
  <2>1. g \in [0..n -> Configs] /\ g[0] = c
    BY <1>4 DEF Runs
  <2>2. ASSUME NEW k \in 1..n
        PROVE  g[k - 1] \in Configs /\ g[k] = Argument(g[k - 1], args[k])
    <3>1. k - 1 \in 0..n
      BY <1>1
    <3>2. g[k - 1] \in Configs
      BY <2>1, <3>1
    <3>3. g[k] = step[k][g[k - 1]]
      BY <1>4 DEF Runs
    <3>. QED BY <3>2, <3>3
  <2>. QED BY <2>1, <2>2
<1>6. g = [i \in 0..n |-> IF i = 0 THEN c ELSE Argument(g[i - 1], args[i])]
  <2>1. ASSUME NEW i \in 0..n
        PROVE  g[i] = IF i = 0 THEN c ELSE Argument(g[i - 1], args[i])
    <3>1. i = 0 \/ i \in 1..n
      BY <1>1
    <3>. QED BY <1>5, <3>1
  <2>. QED BY <1>5, <2>1
<1>7. after = [i \in 0..n |-> IF i = 0 THEN c ELSE Argument(after[i - 1], args[i])]
  BY <1>6
<1>8. config_parse_args(c, args) = after[n]
  BY DEF config_parse_args
<1>. DEFINE Good(k) ==
              /\ after[k] \in Configs
              /\ \A o \in Option :
                   /\ o \in after[k].cli <=> \E i \in 1..k : args[i].key = o
                   /\ Latest(args, k, o, Default[o], after[k].value[o])
            Done == {k \in 0..n : Good(k)}
<1>. HIDE DEF after
<1>9. /\ after[0] = c
      /\ \A k \in 0..(n - 1) : after[k + 1] = Argument(after[k], args[k + 1])
  <2>1. after[0] = c
    BY <1>1, <1>7
  <2>2. ASSUME NEW k \in 0..(n - 1)
        PROVE  after[k + 1] = Argument(after[k], args[k + 1])
    <3>1. k + 1 \in 0..n /\ k + 1 # 0 /\ (k + 1) - 1 = k
      BY <1>1
    <3>. QED BY <1>7, <3>1
  <2>. QED BY <2>1, <2>2
<1>10. 0 \in Done
  <2>1. \A o \in Option : Latest(args, 0, o, Default[o], c.value[o])
    BY InitialConfig DEF Latest
  <2>2. \A o \in Option : o \in c.cli <=> \E i \in 1..0 : args[i].key = o
    BY InitialConfig
  <2>3. after[0] \in Configs
    BY <1>9, InitialConfig
  <2>. QED BY <1>1, <1>9, <2>1, <2>2, <2>3
<1>11. ASSUME NEW k \in 0..(n - 1), k \in Done PROVE k + 1 \in Done
  <2>1. /\ k + 1 \in 0..n /\ k \in Nat /\ k + 1 \in 1..n /\ Good(k)
        /\ args[k + 1] \in Given /\ 1..(k + 1) = 1..k \union {k + 1}
    BY <1>1, <1>11
  <2>. DEFINE d == after[k]
              s == args[k + 1]
              new == after[k + 1]
  <2>2. /\ new \in Configs /\ new.cli = d.cli \union {s.key}
        /\ \A o \in Option :
             new.value[o] = IF s.key = o THEN Read(o, s.text) ELSE d.value[o]
    <3>1. d \in Configs /\ new = Argument(d, s)
      BY <1>9, <2>1
    <3>. HIDE DEF new, d, s
    <3>. QED BY <2>1, <3>1, ArgumentFacts DEF s
  <2>. HIDE DEF new
  <2>3. ASSUME NEW o \in Option
        PROVE  /\ o \in new.cli <=> \E i \in 1..(k + 1) : args[i].key = o
               /\ Latest(args, k + 1, o, Default[o], new.value[o])
    <3>1. /\ o \in d.cli <=> \E i \in 1..k : args[i].key = o
          /\ Latest(args, k, o, Default[o], d.value[o])
      BY <2>1
    <3>2. o \in new.cli <=> \E i \in 1..(k + 1) : args[i].key = o
      BY <2>1, <2>2, <3>1
    <3>3. new.value[o] = IF args[k + 1].key = o THEN Read(o, args[k + 1].text)
                         ELSE d.value[o]
      BY <2>2
    <3>. QED BY <2>1, <3>1, <3>2, <3>3, LatestStep
  <2>. QED BY <2>1, <2>2, <2>3 DEF new
<1>12. Good(n)
  <2>. HIDE DEF Done
  <2>1. \A k \in 0..n : k \in Done
    BY <1>1, <1>10, <1>11, UpTo
  <2>. QED BY <1>1, <2>1 DEF Done
<1>13. ASSUME NEW o \in Option
       PROVE  /\ o \in after[n].cli <=> LastOf(args, o) # 0
              /\ after[n].value[o] = InForce(args, o, Default[o])
  BY <1>1, <1>12, LatestIsLast
<1>. QED BY <1>8, <1>12, <1>13
-----------------------------------------------------------------------------
Configured == {"log", "open", "head", "ui", "run", "snap", "save"}

(* The start of a run, as far as the settings go: what main() has read up  *)
(* to each point, and what it knows of the files.                          *)

Files == [lines: Seq(Setting), readable: BOOLEAN] \union {NoFile}
Pcs   == {"off", "load", "create", "fill"} \union Configured

SettingsShape ==
  /\ pc \in Pcs /\ config \in Configs
  /\ local \in Files /\ home \in Files
  /\ given = [args |-> given.args, local |-> given.local, home |-> given.home]
  /\ given.args \in Seq(Given) /\ given.local \in Files /\ given.home \in Files

StartUp ==
  /\ pc \in {"load", "create", "fill"} =>
       config = config_parse_args(config_init, given.args)
  /\ pc = "load" => local = given.local /\ home = given.home
  /\ pc \in {"create", "fill"} => FileInForce = <<>>
  /\ pc = "fill" => home = File(<<>>)

SettingsInv == SettingsShape /\ StartUp /\ SettingsInForce

LEMMA NoSettings == <<>> \in Seq(Given) /\ <<>> \in Seq(Setting)
  OBVIOUS

LEMMA InitSettings == Init => SettingsInv
<1>. SUFFICES ASSUME Init PROVE SettingsInv
  OBVIOUS
<1>1. /\ pc = "off" /\ config = config_init /\ local = NoFile /\ home = NoFile
      /\ given = [args |-> <<>>, local |-> NoFile, home |-> NoFile]
  BY DEF Init, NotGiven
<1>2. SettingsShape
  BY <1>1, NoSettings, InitialConfig DEF SettingsShape, Pcs, Configured, Files
<1>3. StartUp
  BY <1>1 DEF StartUp
<1>4. SettingsInForce
  BY <1>1 DEF SettingsInForce
<1>. QED BY <1>2, <1>3, <1>4 DEF SettingsInv

(* A command line that is not refused sets options only.                   *)
LEMMA StartSettings ==
  ASSUME SettingsInv, NEW args \in CommandLines, Start(args)
  PROVE  SettingsInv'
<1>1. /\ config' = config_parse_args(config_init, args) /\ pc' = "load"
      /\ given' = [args |-> args, local |-> local, home |-> home]
      /\ local' = local /\ home' = home /\ ~Refused(args)
  BY DEF Start
<1>2. args \in Seq(Given)
  <2>1. args \in Seq(Setting)
    BY <1>1, SettingsTyped
  <2>2. \A i \in DOMAIN args : args[i] \in Setting /\ args[i].key \in Option
    <3>. TAKE i \in DOMAIN args
    <3>1. args[i] \in Setting
      <4>. HIDE DEF Setting
      <4>. QED BY <2>1, ElementOfSeq
    <3>. QED BY <1>1, <3>1 DEF Refused
  <2>3. \A s \in Setting : s.key \in Option => s \in Given
    <3>. HIDE DEF Option
    <3>. QED BY DEF Setting, Given
  <2>4. DOMAIN args = 1..Len(args) /\ Len(args) \in Nat
        /\ args = [i \in 1..Len(args) |-> args[i]]
    BY <2>1
  <2>5. \A i \in 1..Len(args) : args[i] \in Given
    BY <2>2, <2>3, <2>4
  <2>. HIDE DEF Given
  <2>6. [i \in 1..Len(args) |-> args[i]] \in Seq(Given)
    BY <2>4, <2>5, IsASeq
  <2>. QED BY <2>4, <2>6
<1>3. config' \in Configs
  BY <1>1, <1>2, ArgsParsed
<1>4. SettingsShape'
  BY <1>1, <1>2, <1>3 DEF SettingsInv, SettingsShape, Pcs, Configured
<1>5. StartUp'
  BY <1>1 DEF StartUp
<1>6. SettingsInForce'
  BY <1>1 DEF SettingsInForce
<1>. QED BY <1>4, <1>5, <1>6 DEF SettingsInv

(* The values that command line and file in force give.                    *)
InForceAll ==
  \A o \in Option :
    config.value[o] = InForce(given.args, o, InForce(FileInForce, o, Default[o]))

LEMMA NothingInForce == ASSUME NEW o, NEW before PROVE InForce(<<>>, o, before) = before
<1>1. LastOf(<<>>, o) = 0
  BY DEF LastOf
<1>. QED BY <1>1 DEF InForce

LEMMA ArgsThenLines ==
  ASSUME NEW args \in Seq(Given), NEW lines \in Seq(Setting)
  PROVE  LET c == config_parse_args(config_init, args)
             new == LoadLines(c, lines)
         IN  /\ new \in Configs
             /\ \A o \in Option :
                  new.value[o] = InForce(args, o, InForce(lines, o, Default[o]))
<1>. DEFINE c == config_parse_args(config_init, args)
            new == LoadLines(c, lines)
<1>1. /\ c \in Configs
      /\ \A o \in Option : /\ o \in c.cli <=> LastOf(args, o) # 0
                           /\ c.value[o] = InForce(args, o, Default[o])
  BY ArgsParsed
<1>. HIDE DEF c
<1>2. /\ new \in Configs
      /\ \A o \in Option : new.value[o] = IF o \in c.cli THEN c.value[o]
                                          ELSE InForce(lines, o, c.value[o])
  BY <1>1, LinesLoaded
<1>3. ASSUME NEW o \in Option
      PROVE  new.value[o] = InForce(args, o, InForce(lines, o, Default[o]))
  BY <1>1, <1>2 DEF InForce
<1>. QED BY <1>2, <1>3 DEF c

LEMMA LoadSettings ==
  ASSUME SettingsInv, config_load
  PROVE  SettingsInv'
<1>1. /\ pc = "load" /\ given' = given /\ local' = local /\ home' = home
      /\ local = given.local /\ home = given.home
      /\ config = config_parse_args(config_init, given.args)
      /\ given.args \in Seq(Given) /\ local \in Files /\ home \in Files
  BY DEF config_load, SettingsInv, StartUp, SettingsShape
<1>2. FileInForce' = FileInForce
  BY <1>1 DEF FileInForce, Opens
<1>3. ASSUME NEW lines \in Seq(Setting), lines = FileInForce,
             config' = LoadLines(config, lines), pc' = "log"
      PROVE  SettingsInv'
  <2>1. /\ config' \in Configs
        /\ \A o \in Option :
             config'.value[o] = InForce(given.args, o, InForce(lines, o, Default[o]))
    BY <1>1, <1>3, ArgsThenLines
  <2>2. InForceAll'
    BY <1>1, <1>2, <1>3, <2>1 DEF InForceAll
  <2>3. SettingsShape'
    BY <1>1, <1>3, <2>1 DEF SettingsInv, SettingsShape, Pcs, Configured
  <2>4. StartUp'
    BY <1>3 DEF StartUp
  <2>5. SettingsInForce'
    BY <2>2 DEF InForceAll, SettingsInForce, InForce
  <2>. QED BY <2>3, <2>4, <2>5 DEF SettingsInv
<1>4. ASSUME NEW f \in Files, Opens(f) PROVE f.lines \in Seq(Setting)
  BY <1>4 DEF Files, Opens
<1>5. CASE Opens(local) /\ config' = LoadLines(config, local.lines) /\ pc' = "log"
  BY <1>1, <1>3, <1>4, <1>5 DEF FileInForce
<1>6. CASE /\ ~Opens(local) /\ HasHome /\ Opens(home)
           /\ config' = LoadLines(config, home.lines) /\ pc' = "log"
  BY <1>1, <1>3, <1>4, <1>6 DEF FileInForce
<1>7. CASE /\ ~Opens(local) /\ ~(HasHome /\ Opens(home))
           /\ pc' = "create" /\ UNCHANGED config
  <2>1. FileInForce = <<>>
    BY <1>1, <1>7 DEF FileInForce
  <2>2. SettingsShape'
    BY <1>1, <1>7 DEF SettingsInv, SettingsShape, Pcs, Configured
  <2>3. StartUp'
    BY <1>1, <1>2, <1>7, <2>1 DEF StartUp
  <2>4. SettingsInForce'
    BY <1>7 DEF SettingsInForce
  <2>. QED BY <2>2, <2>3, <2>4 DEF SettingsInv
<1>. QED BY <1>5, <1>6, <1>7 DEF config_load

(* With no file to read, the defaults are in force.                        *)
LEMMA NoFileInForce ==
  ASSUME SettingsInv, pc \in {"create", "fill"}
  PROVE  InForceAll
<1>1. /\ config = config_parse_args(config_init, given.args) /\ FileInForce = <<>>
      /\ given.args \in Seq(Given)
  BY DEF SettingsInv, SettingsShape, StartUp
<1>2. \A o \in Option : config.value[o] = InForce(given.args, o, Default[o])
  BY <1>1, ArgsParsed
<1>. QED BY <1>1, <1>2, NothingInForce DEF InForceAll

LEMMA DefaultFile == default_file \in Seq(Setting)
<1>1. /\ DefaultText["debug_address"] \in Texts /\ DefaultText["debug_port"] \in Texts
      /\ DefaultText["log_all"] \in Texts
  BY DefaultsAreWritten DEF Option
<1>. QED BY <1>1 DEF default_file, Setting, Option

(* The default file is made where there is none, then filled.              *)
LEMMA CreateSettings ==
  ASSUME SettingsInv, CreateFile \/ FillFile
  PROVE  SettingsInv'
<1>1. /\ config' = config /\ given' = given /\ local' = local /\ pc \in {"create", "fill"}
  BY DEF CreateFile, FillFile
<1>2. FileInForce' = FileInForce /\ FileInForce = <<>>
  BY <1>1 DEF FileInForce, Opens, SettingsInv, StartUp
<1>3. InForceAll'
  <2>1. InForceAll
    BY <1>1, NoFileInForce
  <2>. QED BY <1>1, <1>2, <2>1 DEF InForceAll
<1>4. SettingsInForce'
  BY <1>3 DEF InForceAll, SettingsInForce, InForce
<1>5. /\ pc' \in {"fill", "log"} /\ home' \in Files
      /\ pc' = "fill" => home' = File(<<>>)
  <2>1. File(<<>>) \in Files /\ File(default_file) \in Files /\ home \in Files
    BY NoSettings, DefaultFile DEF File, Files, SettingsInv, SettingsShape
  <2>. QED BY <2>1 DEF CreateFile, FillFile
<1>6. SettingsShape'
  BY <1>1, <1>5 DEF SettingsInv, SettingsShape, Pcs, Configured
<1>7. StartUp'
  BY <1>1, <1>2, <1>5 DEF SettingsInv, StartUp
<1>. QED BY <1>4, <1>6, <1>7 DEF SettingsInv

(* From then on nothing of it changes,                                     *)
LEMMA SettingsStay ==
  ASSUME SettingsInv, UNCHANGED settings,
         pc' = pc \/ (pc \in Configured /\ pc' \in Configured)
  PROVE  SettingsInv'
<1>1. config' = config /\ local' = local /\ home' = home /\ given' = given
  BY DEF settings
<1>2. FileInForce' = FileInForce
  BY <1>1 DEF FileInForce, Opens
<1>3. SettingsShape'
  BY <1>1 DEF SettingsInv, SettingsShape, Pcs, Configured
<1>4. StartUp'
  BY <1>1, <1>2 DEF SettingsInv, StartUp, Configured
<1>5. SettingsInForce'
  BY <1>1, <1>2 DEF SettingsInv, SettingsInForce, Configured
<1>. QED BY <1>3, <1>4, <1>5 DEF SettingsInv

(* until the process ends.                                                 *)
LEMMA SettingsGone ==
  ASSUME SettingsInv, Exit, UNCHANGED <<local, home>>
  PROVE  SettingsInv'
<1>1. /\ pc' = "off" /\ config' = config_init /\ local' = local /\ home' = home
      /\ given' = [args |-> <<>>, local |-> NoFile, home |-> NoFile]
  BY DEF Exit, NotGiven
<1>2. SettingsShape'
  BY <1>1, NoSettings, InitialConfig DEF SettingsInv, SettingsShape, Pcs, Configured, Files
<1>3. StartUp' /\ SettingsInForce'
  BY <1>1 DEF StartUp, SettingsInForce
<1>. QED BY <1>2, <1>3 DEF SettingsInv

LEMMA EditSettings == ASSUME SettingsInv, UserEdits PROVE SettingsInv'
<1>1. /\ pc = "off" /\ pc' = pc /\ config' = config /\ given' = given
      /\ local' \in Files /\ home' \in Files
  BY SettingsTyped DEF UserEdits, SettingsInv, SettingsShape, Files
<1>2. SettingsShape'
  BY <1>1 DEF SettingsInv, SettingsShape
<1>3. StartUp' /\ SettingsInForce'
  BY <1>1 DEF StartUp, SettingsInForce
<1>. QED BY <1>2, <1>3 DEF SettingsInv

LEMMA StepSettings == ASSUME SettingsInv, [Next]_vars PROVE SettingsInv'
<1>1. ASSUME NEW args \in CommandLines, Start(args) PROVE SettingsInv'
  BY <1>1, StartSettings
<1>2. CASE config_load
  BY <1>2, LoadSettings
<1>3. CASE CreateFile \/ FillFile
  BY <1>3, CreateSettings
<1>4. CASE logger_init \/ OpenLog \/ FlushHeading
  BY <1>4, SettingsStay DEF logger_init, OpenLog, FlushHeading, Configured
<1>5. ASSUME NEW words, Close(words) PROVE SettingsInv'
  BY <1>5, SettingsGone DEF Close
<1>6. CASE ui_init
  BY <1>5, <1>6, SettingsStay DEF ui_init, Configured
<1>7. ASSUME NEW l \in Lines, ReceiveLine(l) PROVE SettingsInv'
  BY <1>7, SettingsStay DEF ReceiveLine
<1>8. CASE \/ save_snapshot \/ OpenSnapshot \/ WriteSnapshot
          \/ Note \/ Spill \/ Tick \/ UNCHANGED vars
  BY <1>8, SettingsStay
     DEF save_snapshot, OpenSnapshot, WriteSnapshot, MayTell, Note, Spill, Tick, vars,
         Configured
<1>9. CASE Quit
  BY <1>5, <1>9 DEF Quit
<1>10. CASE Crash
  BY <1>10, SettingsGone DEF Crash
<1>11. CASE UserEdits
  BY <1>11, EditSettings
<1>. QED BY <1>1, <1>2, <1>3, <1>4, <1>6, <1>7, <1>8, <1>9, <1>10, <1>11
     DEF Next, Program

(* The inductive invariant of the settings.                                *)
THEOREM SettingsInvariance == Spec => []SettingsInv
  BY InitSettings, StepSettings, PTL DEF Spec

(* Whatever command lines and files there are, the last setting of the     *)
(* command line counts, then the last of the first file that opens, then   *)
(* the default, option by option.                                          *)
THEOREM SettingsAreInForce == Spec => []SettingsInForce
<1>1. SettingsInv => SettingsInForce
  BY DEF SettingsInv
<1>. QED BY <1>1, SettingsInvariance, PTL
-----------------------------------------------------------------------------
(* What the program makes of a configuration file.                         *)

LEMMA SameConfig ==
  ASSUME NEW c \in Configs, NEW d \in Configs, c.cli = d.cli,
         \A o \in Option : c.value[o] = d.value[o]
  PROVE  c = d
<1>1. c.value \in [Option -> Value] /\ d.value \in [Option -> Value]
      /\ c = [value |-> c.value, cli |-> c.cli] /\ d = [value |-> d.value, cli |-> d.cli]
  BY DEF Configs
<1>2. c.value = d.value
  <2>. HIDE DEF Option, Value
  <2>. QED BY <1>1
<1>. QED BY <1>1, <1>2

(* The default file gives every option its default.                        *)
LEMMA DefaultFileInForce ==
  ASSUME NEW o \in Option, NEW before
  PROVE  InForce(default_file, o, before) = Default[o]
<1>1. /\ Len(default_file) = 3
      /\ default_file[1].key = "debug_address"
      /\ default_file[1].text = DefaultText["debug_address"]
      /\ default_file[2].key = "debug_port"
      /\ default_file[2].text = DefaultText["debug_port"]
      /\ default_file[3].key = "log_all"
      /\ default_file[3].text = DefaultText["log_all"]
  BY DEF default_file
<1>2. /\ \A i \in 1..3 : i = 1 \/ i = 2 \/ i = 3
      /\ 1 \in 1..3 /\ 2 \in 1..3 /\ 3 \in 1..3
  OBVIOUS
<1>3. PICK i \in 1..3 : /\ default_file[i].key = o
                       /\ default_file[i].text = DefaultText[o]
                       /\ \A j \in 1..3 : j > i => default_file[j].key # o
  <2>1. o = "debug_address" \/ o = "debug_port" \/ o = "log_all"
    BY DEF Option
  <2>2. CASE o = "debug_address"
    <3>1. \A j \in 1..3 : j > 1 => default_file[j].key # o
      BY <1>1, <1>2, <2>2
    <3>. QED BY <1>1, <1>2, <2>2, <3>1
  <2>3. CASE o = "debug_port"
    <3>1. \A j \in 1..3 : j > 2 => default_file[j].key # o
      BY <1>1, <1>2, <2>3
    <3>. QED BY <1>1, <1>2, <2>3, <3>1
  <2>4. CASE o = "log_all"
    <3>1. \A j \in 1..3 : j > 3 => default_file[j].key # o
      BY <1>2
    <3>. QED BY <1>1, <1>2, <2>4, <3>1
  <2>. QED BY <2>1, <2>2, <2>3, <2>4
<1>4. Read(o, DefaultText[o]) = Default[o]
  BY DefaultsAreWritten
<1>5. Latest(default_file, Len(default_file), o, before, Default[o])
  BY <1>1, <1>3, <1>4 DEF Latest
<1>. QED BY <1>5, DefaultFile, LatestIsLast

LEMMA EmptyFileChangesNothing ==
  ASSUME NEW c \in Configs PROVE LoadLines(c, <<>>) = c
<1>1. /\ LoadLines(c, <<>>) \in Configs /\ LoadLines(c, <<>>).cli = c.cli
      /\ \A o \in Option :
           LoadLines(c, <<>>).value[o] = IF o \in c.cli THEN c.value[o]
                                         ELSE InForce(<<>>, o, c.value[o])
  BY NoSettings, LinesLoaded
<1>2. \A o \in Option : LoadLines(c, <<>>).value[o] = c.value[o]
  BY <1>1, NothingInForce
<1>. QED BY <1>1, <1>2, SameConfig

(* The file that is made leaves every setting as it is.                    *)
LEMMA DefaultFileChangesNothing ==
  ASSUME NEW args \in Seq(Given)
  PROVE  LET c == config_parse_args(config_init, args)
         IN  LoadLines(c, default_file) = c
<1>. DEFINE c == config_parse_args(config_init, args)
            new == LoadLines(c, default_file)
<1>1. /\ c \in Configs
      /\ \A o \in Option : /\ o \in c.cli <=> LastOf(args, o) # 0
                           /\ c.value[o] = InForce(args, o, Default[o])
  BY ArgsParsed
<1>2. \A o \in Option : o \notin c.cli => c.value[o] = Default[o]
  BY <1>1 DEF InForce
<1>. HIDE DEF c
<1>3. /\ new \in Configs /\ new.cli = c.cli
      /\ \A o \in Option : new.value[o] = IF o \in c.cli THEN c.value[o]
                                          ELSE InForce(default_file, o, c.value[o])
  BY <1>1, DefaultFile, LinesLoaded
<1>4. \A o \in Option : new.value[o] = c.value[o]
  BY <1>2, <1>3, DefaultFileInForce
<1>. HIDE DEF new
<1>5. new = c
  BY <1>1, <1>3, <1>4, SameConfig
<1>. QED BY <1>5 DEF c, new

(* What a step of the program may do to the configuration files.           *)
ConfigsKept ==
  pc # "off" =>
    /\ UNCHANGED local
    /\ home' # home =>
         /\ home \in {NoFile, File(<<>>)}
         /\ LoadLines(config, home'.lines) = config

LEMMA StepKeepsConfigs == ASSUME SettingsInv, Next PROVE ConfigsKept
<1>. SUFFICES ASSUME pc # "off" PROVE ConfigsKept
  BY DEF ConfigsKept
<1>1. CASE CreateFile
  <2>1. local' = local /\ (home' = home \/ (home = NoFile /\ home' = File(<<>>)))
    BY <1>1 DEF CreateFile, CanCreate
  <2>2. LoadLines(config, <<>>) = config
    BY EmptyFileChangesNothing DEF SettingsInv, SettingsShape
  <2>. QED BY <2>1, <2>2 DEF ConfigsKept, File
<1>2. CASE FillFile
  <2>1. /\ local' = local /\ home = File(<<>>) /\ home' = File(default_file)
        /\ given.args \in Seq(Given)
        /\ config = config_parse_args(config_init, given.args)
    BY <1>2 DEF FillFile, SettingsInv, SettingsShape, StartUp
  <2>2. LoadLines(config, default_file) = config
    BY <2>1, DefaultFileChangesNothing
  <2>. QED BY <2>1, <2>2 DEF ConfigsKept, File
<1>3. CASE UNCHANGED <<local, home>>
  BY <1>3 DEF ConfigsKept
<1>. QED
  <2>1. ASSUME NEW words, Close(words) PROVE UNCHANGED <<local, home>>
    BY <2>1 DEF Close
  <2>2. CASE ui_init \/ Quit
    BY <1>3, <2>1, <2>2 DEF ui_init, Quit, settings
  <2>3. ASSUME NEW l \in Lines, ReceiveLine(l) PROVE UNCHANGED <<local, home>>
    BY <2>3 DEF ReceiveLine, settings
  <2>4. CASE \/ config_load \/ logger_init \/ OpenLog \/ FlushHeading
             \/ save_snapshot \/ OpenSnapshot \/ WriteSnapshot
             \/ Note \/ Spill \/ Crash \/ Tick
    BY <1>3, <2>4 DEF config_load, logger_init, OpenLog, FlushHeading, save_snapshot,
       OpenSnapshot, WriteSnapshot, Note, Spill, Crash, Tick, settings
  <2>5. ~UserEdits /\ ~\E args \in CommandLines : Start(args)
    BY DEF UserEdits, Start
  <2>. QED BY <1>1, <1>2, <1>3, <2>2, <2>3, <2>4, <2>5 DEF Next, Program

(* The program never changes a configuration file of the user's, and one   *)
(* that it makes changes no setting, neither empty nor filled.             *)
THEOREM ConfigFilesStay == Spec => ConfigFilesKept
<1>1. SettingsInv /\ [Next]_vars => [ConfigsKept]_vars
  BY StepKeepsConfigs
<1>. QED BY <1>1, SettingsInvariance, PTL DEF Spec, ConfigFilesKept, ConfigsKept
-----------------------------------------------------------------------------
(* The beginning of a log, and the types.                                  *)

Begun ==
  /\ \A s \in FileNames : told[s] # <<>> => told[s][1] = "started"
  /\ Enabled => told[log] # <<>>
  /\ ~Enabled => buffer = <<>>

LEMMA Told ==
  ASSUME LogInv, Begun, NEW e \in Event, Happens(e), logger_write(e), log' = log
  PROVE  Begun'
<1>. USE DEF Enabled
<1>1. CASE log = NoFile
  BY <1>1 DEF Begun, Happens, logger_write
<1>2. CASE log # NoFile
  <2>1. /\ log \in FileNames /\ told \in [FileNames -> Seq(Event)]
        /\ told[log] \in Seq(Event) /\ told[log] # <<>>
        /\ told' = [told EXCEPT ![log] = Append(@, e)]
    BY <1>2 DEF LogInv, LogShape, Begun, Happens
  <2>2. Append(told[log], e) # <<>> /\ Append(told[log], e)[1] = told[log][1]
    <3>1. Len(told[log]) \in Nat /\ Len(told[log]) # 0
      BY <2>1
    <3>2. 1 \in 1..Len(told[log])
      BY <3>1
    <3>. QED BY <2>1, <3>2
  <2>3. /\ told'[log] = Append(told[log], e)
        /\ \A s \in FileNames \ {log} : told'[s] = told[s]
    BY <2>1
  <2>. QED BY <1>2, <2>1, <2>2, <2>3 DEF Begun
<1>. QED BY <1>1, <1>2

LEMMA Finished ==
  ASSUME LogInv, Begun, NEW bye \in Seq(Event), Close(bye) PROVE Begun'
<1>. USE DEF Enabled
<1>1. log' = NoFile /\ buffer' = <<>>
  BY DEF Close, Exit
<1>2. CASE log = NoFile
  BY <1>1, <1>2 DEF Close, Begun
<1>3. CASE log # NoFile
  <2>1. /\ log \in FileNames /\ told \in [FileNames -> Seq(Event)]
        /\ told[log] \in Seq(Event) /\ told[log] # <<>>
        /\ told' = [told EXCEPT ![log] = @ \o bye]
    BY <1>3 DEF LogInv, LogShape, Begun, Close
  <2>2. (told[log] \o bye)[1] = told[log][1]
    <3>1. Len(told[log]) \in Nat /\ Len(told[log]) # 0
      BY <2>1
    <3>2. 1 \in 1..Len(told[log])
      BY <3>1
    <3>. QED BY <2>1, <3>2, ConcatProperties
  <2>3. /\ told'[log] = told[log] \o bye
        /\ \A s \in FileNames \ {log} : told'[s] = told[s]
    BY <2>1
  <2>. QED BY <1>1, <2>1, <2>2, <2>3 DEF Begun
<1>. QED BY <1>2, <1>3

LEMMA StepBegun == ASSUME IInv, Begun, [Next]_vars PROVE Begun'
<1>. USE DEF Enabled, IInv, naming
<1>1. CASE UNCHANGED <<log, buffer, told>>
  BY <1>1 DEF Begun
<1>2. CASE OpenLog
  <2>1. FileName \in FileNames /\ FileName # NoFile /\ told \in [FileNames -> Seq(Event)]
    BY <1>2, NameTyped, NamesTyped DEF OpenLog, Making, LogInv, LogShape
  <2>2. CASE UNCHANGED logging
    BY <1>1, <2>2 DEF logging
  <2>3. CASE log' = FileName /\ told' = [told EXCEPT ![FileName] = <<"started">>]
    <3>1. /\ told'[FileName] = <<"started">>
          /\ \A s \in FileNames \ {FileName} : told'[s] = told[s]
      BY <2>1, <2>3
    <3>2. <<"started">> # <<>> /\ <<"started">>[1] = "started"
      OBVIOUS
    <3>. QED BY <2>1, <2>3, <3>1, <3>2 DEF Begun
  <2>. QED BY <1>2, <2>2, <2>3 DEF OpenLog
<1>3. ASSUME NEW l \in Lines, ReceiveLine(l) PROVE Begun'
  BY <1>3, Told DEF ReceiveLine, Event
<1>4. CASE Note \/ WriteSnapshot
  BY <1>4, Told DEF Note, WriteSnapshot, Event
<1>5. CASE Spill \/ FlushHeading
  BY <1>5 DEF Spill, FlushHeading, Making, Begun
<1>6. CASE Quit
  BY <1>6, LastWords, Finished DEF Quit
<1>7. CASE ui_init
  BY <1>1, <1>7, LastWords, Finished DEF ui_init, logging
<1>8. CASE Crash
  BY <1>8 DEF Crash, Exit, Begun
<1>9. ASSUME NEW args \in CommandLines, Start(args) PROVE Begun'
  BY <1>1, <1>9 DEF Start, logging
<1>10. CASE \/ config_load \/ CreateFile \/ FillFile \/ logger_init \/ save_snapshot
           \/ OpenSnapshot \/ Tick \/ UserEdits \/ UNCHANGED vars
  BY <1>1, <1>10 DEF config_load, CreateFile, FillFile, logger_init, save_snapshot,
     OpenSnapshot, Tick, UserEdits, vars, logging
<1>. QED BY <1>2, <1>3, <1>4, <1>5, <1>6, <1>7, <1>8, <1>9, <1>10 DEF Next, Program

LEMMA PrefixBegins ==
  ASSUME NEW S, NEW s \in Seq(S), NEW t \in Seq(S), IsPrefix(s, t), s # <<>>
  PROVE  t # <<>> /\ s[1] = t[1]
<1>1. /\ Len(s) \in Nat /\ Len(t) \in Nat /\ Len(s) # 0 /\ Len(s) <= Len(t)
      /\ SubSeq(s, 1, Len(s)) = SubSeq(t, 1, Len(s))
  BY DEF IsPrefix
<1>2. 1 \in 1..Len(s)
  BY <1>1
<1>3. SubSeq(s, 1, Len(s))[1] = s[1] /\ SubSeq(t, 1, Len(s))[1] = t[1]
  BY <1>1, <1>2
<1>. QED BY <1>1, <1>3

(* Every variable keeps its type, and every log begins with its heading.   *)
THEOREM SessionTypes == Spec => []SessionTypeOK
<1>1. Init => Begun
  BY DEF Init, Begun, Enabled
<1>2. ASSUME IInv, SettingsInv, Begun PROVE SessionTypeOK
  <2>1. /\ clock \in Second /\ log \in FileNames \union {NoFile}
        /\ pc \in Pcs
        /\ config.cli \subseteq Option /\ DOMAIN config.value = Option
    BY <1>2 DEF IInv, LogInv, LogShape, SettingsInv, SettingsShape, Configs
  <2>4. pc \in {"off", "load", "create", "fill", "log", "open", "head", "ui", "run", "snap",
                "save"}
    BY <2>1 DEF Pcs, Configured
  <2>5. /\ stamp \in 0..clock \union {NoFile}
        /\ stamp # NoFile <=> pc \in {"open", "snap", "save"}
    BY <1>2 DEF IInv, Making, Second
  <2>2. ASSUME NEW s \in FileNames, logs[s] # <<>> PROVE logs[s][1] = "started"
    <3>1. logs[s] \in Seq(Event) /\ told[s] \in Seq(Event) /\ IsPrefix(logs[s], told[s])
      BY <1>2 DEF IInv, LogInv, LogShape, LogTellsAll
    <3>. QED BY <1>2, <2>2, <3>1, PrefixBegins DEF Begun
  <2>3. log = NoFile => buffer = <<>>
    BY <1>2 DEF Begun, Enabled
  <2>. QED BY <2>1, <2>2, <2>3, <2>4, <2>5 DEF SessionTypeOK
<1>. QED BY <1>1, <1>2, StepBegun, Invariance, SettingsInvariance, PTL DEF Spec
=============================================================================
