------------------------------ MODULE DataStore ------------------------------
(***************************************************************************)
(* The data store (data_store.c): a line that the parser accepts becomes a *)
(* message, datastore_process() routes it to the tables of the tabs, and   *)
(* datastore_clear() empties them all.  The lines are those of Parser, the *)
(* IO table and the memory the ones of IoTable and MemoryMap; the other    *)
(* tables are here, each with the function that updates it.                *)
(*                                                                         *)
(* A message is a record with the fields of ParsedData that the store      *)
(* reads.  bytes is what parse_hex_data() or parse_hex_data_spaced() reads *)
(* in val; bytes[1] of a read or a write is parse_hex() of it.  Tables are *)
(* indexed as in C, from 0, except entries kept in a sequence.             *)
(***************************************************************************)
EXTENDS Parser, IoTable, MemoryMap

CONSTANTS
  JsonLines,      (* bound: the lines the emulator sends                   *)
  MaxTotal,       (* bound: lines received between two clears              *)
  CpuMaxEntries,  (* CPU_MAX_ENTRIES, 64 in the code                       *)
  PageSize,       (* ZP_SIZE and STACK_PAGE_SIZE, 256 in the code          *)
  PageChunk,      (* bytes of a page a message can bring, 32 in the code   *)
  MaxFlags,       (* MEM_FLAG_MAX, 16 in the code                          *)
  TextRows,       (* TEXT_ROWS, 24 in the code                             *)
  AnnCount,       (* ANN_COUNT, 4 in the code                              *)
  DisasmMaxLines, (* DISASM_MAX_LINES, 64 in the code                      *)
  StackMaxEntries,(* CPU_STACK_MAX_ENTRIES, 32 in the code                 *)
  Cut,            (* Cut[n][v]: what safe_strcpy() keeps of the string v   *)
                  (* in a field of n bytes                                 *)
  Atoi,           (* atoi(): the number a string begins with, or 0         *)
  NoVal           (* an empty string: nothing received                     *)

VARIABLES
  info,        (* InfoData; connected_time is whether it has been set      *)
  cpu,         (* CPUData: entries, and quick, the idx_* fields (0: unset) *)
  zeropage,    (* ZeroPageData                                             *)
  stackpage,   (* StackPageData                                            *)
  memflags,    (* MemFlagsData                                             *)
  textscreen,  (* TextScreenData                                           *)
  annunciator, (* AnnunciatorData                                          *)
  disasm,      (* DisasmData                                               *)
  cpustack,    (* CPUStackData                                             *)
  counts,      (* the message counters other than io_messages              *)
  cpu_sent,    (* history: the last value sent for every register, as much *)
               (* of it as an entry keeps                                  *)
  flag_sent    (* history: and for every flag                              *)

registers == <<cpu, cpu_sent>>
flags  == <<memflags, flag_sent>>
pages  == <<memVars, zeropage, stackpage, flags, textscreen>>
tables == <<registers, cpustack, ioVars, annunciator, disasm>>
vars   == <<info, counts, pages, tables>>

(* What the emulator's lines are to the store.                             *)
Message(l) == parser_parse_line(l, NoLoc)
Messages == {Message(l) : l \in {j \in JsonLines : Accepted(j)}}

HasAddr(d) == d.addr # NoLoc
HasIdx(d)  == d.idx # NoLoc
HasVer(d)  == d.ver # NoLoc

ASSUME StoreSizes ==
  /\ {CpuMaxEntries, MaxFlags, DisasmMaxLines, StackMaxEntries, TextRows,
      AnnCount, MaxTotal} \subseteq Nat
  /\ CpuMaxEntries # 0
  /\ PageSize \in Nat \ {0} /\ PageChunk \in Nat /\ NoLoc \notin Nat

(* The sizes of the fields for values (data_store.h); a cut string is cut   *)
(* no more by a longer field.                                              *)
FieldSizes == {8, 32, 41, 64, 128, 256}
ASSUME StringsTyped ==
  /\ \A n \in FieldSizes : Cut[n] \in [Vals -> Vals]
  /\ \A n, m \in FieldSizes : n <= m => \A v \in Vals : Cut[n][Cut[m][v]] = Cut[n][v]
  /\ Atoi \in [Vals -> Int]

(* The lines the emulators write: what the store finds in a message of a   *)
(* category that looks at it.  parse_hex() of a byte always gives one; the *)
(* parser keeps no more bytes than MaxDump.                                *)
ASSUME MessagesTyped ==
  \A d \in Messages :
    /\ d.val \in Vals
    /\ d.cat = "io" => <<d.sec, d.fld>> \in Secs /\ d.addr \in Loc /\ d.idx \in Loc
    /\ HasAddr(d) => d.addr \in Nat
    /\ HasIdx(d) => d.idx \in Int
    /\ d.cat = "mem" /\ d.sec \in {"dump", "read", "write"} /\ HasAddr(d) =>
         /\ d.addr \in Starts
         /\ d.bytes \in Seq(Bytes) /\ Len(d.bytes) <= MaxDump
         /\ d.sec \in {"read", "write"} /\ d.fld = "byte" => d.bytes # <<>>
------------------------------------------------------------------------------
(* Empty tables: what datastore_init() and datastore_clear() leave.        *)

InfoField ==
  {<<"info", "id">>, <<"info", "name">>, <<"info", "type">>,
   <<"status", "mode">>, <<"status", "powered">>,
   <<"video", "mode">>, <<"video", "page">>, <<"video", "mixed">>,
   <<"state", "type">>, <<"state", "cycles">>}

EmptyInfo ==
  [emu_type |-> NoVal, emu_version |-> NoVal, protocol_ver |-> NoVal,
   is_connected |-> FALSE, connected_time |-> FALSE, has_data |-> FALSE,
   shown |-> [f \in InfoField |-> NoVal]]
EmptyCpu ==
  [entries |-> <<>>, quick |-> [r \in {"pc", "sp", "a", "x", "y"} |-> 0]]
EmptyPage == [data |-> [a \in 0..(PageSize - 1) |-> NoByte], has_data |-> FALSE]
EmptyRow == [val |-> NoVal, addr |-> NoLoc]
EmptyText ==
  [rows |-> [r \in 0..(TextRows - 1) |-> EmptyRow], current_page |-> 0,
   has_data |-> FALSE]
EmptyAnn == [state |-> [i \in 0..(AnnCount - 1) |-> 0], has_data |-> FALSE]
EmptyDisasm ==
  [lines |-> [i \in 0..(DisasmMaxLines - 1) |-> EmptyRow], count |-> 0]
EmptyStack ==
  [sp |-> NoVal, depth |-> NoVal, has_data |-> FALSE, entry_count |-> 0,
   entries |-> [i \in 0..(StackMaxEntries - 1) |-> EmptyRow]]
NoCounts == [total |-> 0, errors |-> 0, cpu |-> 0, mem |-> 0, text |-> 0]

Init ==
  /\ IoInit /\ MemInit
  /\ info = EmptyInfo /\ cpu = EmptyCpu /\ counts = NoCounts
  /\ zeropage = EmptyPage /\ stackpage = EmptyPage /\ memflags = <<>>
  /\ textscreen = EmptyText /\ annunciator = EmptyAnn
  /\ disasm = EmptyDisasm /\ cpustack = EmptyStack
  /\ cpu_sent = <<>> /\ flag_sent = <<>>
------------------------------------------------------------------------------
(* The handlers, as functions of the table and the message.                *)

process_info_sys(i, d) ==
  IF d.sec = "conn" /\ d.fld = "hello"
  THEN [i EXCEPT !.emu_version = Cut[64][d.val], !.connected_time = TRUE,
                 !.protocol_ver = IF HasVer(d) THEN d.ver ELSE @,
                 !.is_connected = TRUE, !.has_data = TRUE]
  ELSE IF d.sec = "conn" /\ d.fld = "goodbye"
  THEN [i EXCEPT !.is_connected = FALSE] ELSE i

FieldSize(f) ==
  CASE f = <<"info", "id">> -> 64
    [] f = <<"info", "name">> -> 128
    [] f \in {<<"status", "powered">>, <<"video", "page">>, <<"video", "mixed">>} -> 8
    [] OTHER -> 32

(* A field of the Info tab: an unknown one still sets has_data.            *)
ShowField(i, d, secs) ==
  IF d.sec \notin secs THEN i
  ELSE [i EXCEPT !.has_data = TRUE,
                 !.shown = [f \in InfoField |->
                              IF f = <<d.sec, d.fld>> THEN Cut[FieldSize(f)][d.val]
                              ELSE @[f]]]
process_info_mach(i, d)      == ShowField(i, d, {"info", "status", "video"})
process_info_cpu_state(i, d) == ShowField(i, d, {"state"})

(* The entry of a key: its index in the sequence, or 0.                    *)
IndexOf(entries, key) ==
  IF \E i \in DOMAIN entries : entries[i].key = key
  THEN CHOOSE i \in DOMAIN entries :
         /\ entries[i].key = key
         /\ \A j \in 1..(i - 1) : entries[j].key # key
  ELSE 0

(* Mutant of PutEntry: a full table gives its first place away.             *)
PutOverFirst(entries, key, val, max) ==
  LET i == IndexOf(entries, key)
      e == [key |-> key, val |-> val]
  IN  IF i # 0 THEN [entries EXCEPT ![i].val = val]
      ELSE IF Len(entries) < max THEN Append(entries, e)
      ELSE [entries EXCEPT ![1] = e]

(* Update the entry of a key, or add one while there is room.              *)
PutEntry(entries, key, val, max) ==
  LET i == IndexOf(entries, key)
  IN  IF i # 0 THEN [entries EXCEPT ![i].val = val]
      ELSE IF Len(entries) < max
      THEN Append(entries, [key |-> key, val |-> val]) ELSE entries

(* The register that a field name stands for, on a 6502 or a Z80.          *)
QuickOf ==
  [pc |-> "pc", sp |-> "sp", a |-> "a", af |-> "a", x |-> "x", bc |-> "x",
   y |-> "y", de |-> "y"]
update_cpu_quick_access(quick, i, fld) ==
  IF i # 0 /\ fld \in DOMAIN QuickOf
  THEN [quick EXCEPT ![QuickOf[fld]] = i] ELSE quick

process_cpu(c, d) ==
  LET key == <<d.sec, d.fld>>
      new == PutEntry(c.entries, key, Cut[64][d.val], CpuMaxEntries)
  IN  [entries |-> new,
       quick |-> update_cpu_quick_access(c.quick, IndexOf(new, key), d.fld)]

process_memflags(f, d) == PutEntry(f, d.fld, Cut[8][d.val], MaxFlags)

(* Bytes from offset at on; what passes the local buffer of the handler or *)
(* the end of the page is dropped.                                         *)
PutPage(p, at, bytes) ==
  [data |-> [a \in 0..(PageSize - 1) |->
               IF a - at + 1 \in DOMAIN bytes \intersect 1..PageChunk
               THEN bytes[a - at + 1] ELSE p.data[a]],
   has_data |-> TRUE]

process_zeropage(p, d) ==
  IF d.fld = "data" /\ HasAddr(d) /\ d.addr < PageSize
  THEN PutPage(p, d.addr, d.bytes) ELSE p

(* The stack page is the second one; its offsets alone are accepted too.   *)
process_stackpage(p, d) ==
  IF d.fld = "data" /\ HasAddr(d) /\ d.addr < 2 * PageSize
  THEN PutPage(p, d.addr % PageSize, d.bytes) ELSE p

(* A row of a table keeps the address it has when the message brings none. *)
PutRow(row, d, size) ==
  [val |-> Cut[size][d.val], addr |-> IF HasAddr(d) THEN d.addr ELSE row.addr]

process_textscreen(t, d) ==
  IF d.fld = "page" THEN [t EXCEPT !.current_page = Atoi[d.val], !.has_data = TRUE]
  ELSE IF d.fld = "row" /\ HasIdx(d) /\ d.idx \in 0..(TextRows - 1)
  THEN [t EXCEPT !.rows[d.idx] = PutRow(@, d, 41), !.has_data = TRUE] ELSE t

(* Mutant of process_annunciator: the last annunciator is left out.         *)
AnnunciatorsButLast(a, d) ==
  IF d.fld = "state" /\ HasIdx(d) /\ d.idx \in 0..(AnnCount - 2)
  THEN [state |-> [a.state EXCEPT ![d.idx] = Atoi[d.val] % 256], has_data |-> TRUE] ELSE a

(* The number in the value, as a uint8_t.                                  *)
process_annunciator(a, d) ==
  IF d.fld = "state" /\ HasIdx(d) /\ d.idx \in 0..(AnnCount - 1)
  THEN [state |-> [a.state EXCEPT ![d.idx] = Atoi[d.val] % 256], has_data |-> TRUE] ELSE a

(* Mutant of process_disasm: idx <= DISASM_MAX_LINES.                       *)
DisasmOnePast(l, d) ==
  IF d.fld = "line" /\ HasIdx(d) /\ d.idx \in 0..DisasmMaxLines
  THEN [lines |-> [i \in DOMAIN l.lines |-> IF i = d.idx THEN PutRow(l.lines[i], d, 64)
                                            ELSE l.lines[i]],
        count |-> IF d.idx >= l.count THEN d.idx + 1 ELSE l.count]
  ELSE l

process_disasm(l, d) ==
  IF d.fld = "line" /\ HasIdx(d) /\ d.idx \in 0..(DisasmMaxLines - 1)
  THEN [lines |-> [l.lines EXCEPT ![d.idx] = PutRow(@, d, 64)],
        count |-> IF d.idx >= l.count THEN d.idx + 1 ELSE l.count]
  ELSE l

(* Mutant of process_cpustack: idx > entry_count instead of >=.             *)
StackCountsLate(s, d) ==
  IF d.fld = "sp" THEN [s EXCEPT !.sp = Cut[8][d.val], !.has_data = TRUE]
  ELSE IF d.fld = "val" /\ HasIdx(d) /\ d.idx \in 0..(StackMaxEntries - 1)
  THEN [s EXCEPT !.entries[d.idx] = PutRow(@, d, 8), !.has_data = TRUE,
                 !.entry_count = IF d.idx > @ THEN d.idx + 1 ELSE @]
  ELSE s

process_cpustack(s, d) ==
  IF d.fld = "sp" THEN [s EXCEPT !.sp = Cut[8][d.val], !.has_data = TRUE]
  ELSE IF d.fld = "depth" THEN [s EXCEPT !.depth = Cut[8][d.val], !.has_data = TRUE]
  ELSE IF d.fld = "val" /\ HasIdx(d) /\ d.idx \in 0..(StackMaxEntries - 1)
  THEN [s EXCEPT !.entries[d.idx] = PutRow(@, d, 8), !.has_data = TRUE,
                 !.entry_count = IF d.idx >= @ THEN d.idx + 1 ELSE @]
  ELSE s
------------------------------------------------------------------------------
(* datastore_process(), one action per route.                              *)

(* Every message is counted and names the emulator in the Info tab.        *)
Count(c) == [c EXCEPT !.total = @ + 1]
Named(d) == [info EXCEPT !.emu_type = d.emu]

(* A history with the value of one more message.                           *)
Updated(sent, key, val) ==
  [k \in DOMAIN sent \union {key} |-> IF k = key THEN val ELSE sent[k]]

SysMessage(d) ==
  /\ d.cat = "sys"
  /\ info' = process_info_sys(Named(d), d) /\ counts' = Count(counts)
  /\ UNCHANGED <<pages, tables>>

MachMessage(d) ==
  /\ d.cat = "mach"
  /\ info' = process_info_mach(Named(d), d) /\ counts' = Count(counts)
  /\ UNCHANGED <<pages, tables>>

CpuMessage(d) ==
  /\ d.cat = "cpu"
  /\ info' = process_info_cpu_state(Named(d), d)
  /\ cpu' = process_cpu(cpu, d)
  /\ cpu_sent' = Updated(cpu_sent, <<d.sec, d.fld>>, Cut[64][d.val])
  /\ cpustack' = IF d.sec = "stack" THEN process_cpustack(cpustack, d) ELSE cpustack
  /\ counts' = [Count(counts) EXCEPT !.cpu = @ + 1]
  /\ UNCHANGED <<pages, ioVars, annunciator, disasm>>

IoTabMessage(d) ==
  /\ d.cat = "io"
  /\ process_io([sec |-> <<d.sec, d.fld>>, addr |-> d.addr, idx |-> d.idx,
                 val |-> Cut[256][d.val]])
  /\ annunciator' = IF d.sec = "ann" THEN process_annunciator(annunciator, d)
                    ELSE annunciator
  /\ info' = Named(d) /\ counts' = Count(counts)
  /\ UNCHANGED <<pages, registers, cpustack, disasm>>

(* The memory sections that have a table of their own.                     *)
PageMessage(d) ==
  /\ d.cat = "mem" /\ d.sec \in {"zp", "stackpage", "flag"}
  /\ zeropage' = IF d.sec = "zp" THEN process_zeropage(zeropage, d) ELSE zeropage
  /\ stackpage' = IF d.sec = "stackpage" THEN process_stackpage(stackpage, d)
                  ELSE stackpage
  /\ memflags' = IF d.sec = "flag" THEN process_memflags(memflags, d) ELSE memflags
  /\ flag_sent' = IF d.sec = "flag" THEN Updated(flag_sent, d.fld, Cut[8][d.val])
                ELSE flag_sent
  /\ info' = Named(d) /\ counts' = [Count(counts) EXCEPT !.mem = @ + 1]
  /\ UNCHANGED <<memVars, textscreen, tables>>

TextMessage(d) ==
  /\ d.cat = "mem" /\ d.sec = "text"
  /\ textscreen' = process_textscreen(textscreen, d)
  /\ info' = Named(d) /\ counts' = [Count(counts) EXCEPT !.text = @ + 1]
  /\ UNCHANGED <<memVars, zeropage, stackpage, flags, tables>>

(* Dumps, reads and writes go to the memory; a message without an address  *)
(* or without bytes, or for another section, is counted and ignored.       *)
MemoryMessage(d) ==
  /\ d.cat = "mem" /\ d.sec \notin {"zp", "stackpage", "flag", "text"}
  /\ CASE d.sec = "dump" /\ HasAddr(d) /\ d.bytes # <<>> ->
            \E fails \in Failures(Len(d.bytes)) :
              process_memory_dump(d.addr, d.bytes, fails)
       [] d.sec \in {"read", "write"} /\ d.fld = "byte" /\ HasAddr(d) ->
            \E fails \in Failures(1) :
              process_memory_byte(d.addr, d.bytes[1], fails)
       [] OTHER -> UNCHANGED memVars
  /\ info' = Named(d) /\ counts' = [Count(counts) EXCEPT !.mem = @ + 1]
  /\ UNCHANGED <<zeropage, stackpage, flags, textscreen, tables>>

DbgMessage(d) ==
  /\ d.cat = "dbg"
  /\ disasm' = IF d.sec = "disasm" THEN process_disasm(disasm, d) ELSE disasm
  /\ info' = Named(d) /\ counts' = Count(counts)
  /\ UNCHANGED <<pages, registers, cpustack, ioVars, annunciator>>

OtherMessage(d) ==
  /\ d.cat \notin {"sys", "mach", "cpu", "io", "mem", "dbg"}
  /\ info' = Named(d) /\ counts' = Count(counts)
  /\ UNCHANGED <<pages, tables>>

datastore_process(d) ==
  /\ counts.total + counts.errors < MaxTotal
  /\ \/ SysMessage(d) \/ MachMessage(d) \/ CpuMessage(d) \/ IoTabMessage(d)
     \/ PageMessage(d) \/ TextMessage(d) \/ MemoryMessage(d)
     \/ DbgMessage(d) \/ OtherMessage(d)

(* A line that is not a message: only counted.                             *)
ParseError ==
  /\ counts.total + counts.errors < MaxTotal
  /\ counts' = [counts EXCEPT !.errors = @ + 1]
  /\ UNCHANGED <<info, pages, tables>>

(* What process_network_data() does with a line (main.c).                  *)
ReceiveLine(l) == IF Accepted(l) THEN datastore_process(Message(l)) ELSE ParseError

(* Mutant of datastore_clear: the disassembly is forgotten.                 *)
ClearKeepsDisasm ==
  /\ ClearIo /\ datastore_memory_clear
  /\ info' = EmptyInfo /\ cpu' = EmptyCpu /\ counts' = NoCounts
  /\ zeropage' = EmptyPage /\ stackpage' = EmptyPage /\ memflags' = <<>>
  /\ textscreen' = EmptyText /\ annunciator' = EmptyAnn
  /\ cpustack' = EmptyStack /\ UNCHANGED disasm
  /\ cpu_sent' = <<>> /\ flag_sent' = <<>>

datastore_clear ==
  /\ ClearIo /\ datastore_memory_clear
  /\ info' = EmptyInfo /\ cpu' = EmptyCpu /\ counts' = NoCounts
  /\ zeropage' = EmptyPage /\ stackpage' = EmptyPage /\ memflags' = <<>>
  /\ textscreen' = EmptyText /\ annunciator' = EmptyAnn
  /\ disasm' = EmptyDisasm /\ cpustack' = EmptyStack
  /\ cpu_sent' = <<>> /\ flag_sent' = <<>>

Next ==
  \/ \E l \in JsonLines : ReceiveLine(l)
  \/ datastore_clear

Spec == Init /\ [][Next]_vars
------------------------------------------------------------------------------
(* Every table stays inside its array.                                     *)
DsTypeOK ==
  /\ Len(cpu.entries) <= CpuMaxEntries
  /\ \A r \in DOMAIN cpu.quick : cpu.quick[r] \in 0..Len(cpu.entries)
  /\ Len(memflags) <= MaxFlags
  /\ DOMAIN zeropage.data = 0..(PageSize - 1)
  /\ DOMAIN stackpage.data = 0..(PageSize - 1)
  /\ DOMAIN textscreen.rows = 0..(TextRows - 1)
  /\ DOMAIN annunciator.state = 0..(AnnCount - 1)
  /\ disasm.count \in 0..DisasmMaxLines
  /\ DOMAIN disasm.lines = 0..(DisasmMaxLines - 1)
  /\ cpustack.entry_count \in 0..StackMaxEntries
  /\ DOMAIN cpustack.entries = 0..(StackMaxEntries - 1)

(* After a reset no tab shows anything of the emulator that was lost       *)
(* (main.c:375-381): with no message counted every table is empty.         *)
NothingLeftOver ==
  counts.total = 0 =>
    /\ info = EmptyInfo /\ cpu = EmptyCpu /\ cpustack = EmptyStack
    /\ io = EmptyIo /\ annunciator = EmptyAnn /\ disasm = EmptyDisasm
    /\ memory.lines = <<>> /\ memflags = <<>> /\ textscreen = EmptyText
    /\ zeropage = EmptyPage /\ stackpage = EmptyPage

Some(f, none) == \E x \in DOMAIN f : f[x] # none

(* What a table holds passes the tests that the tabs make before they draw *)
(* it: has_data or a count (ui_tabs.c:511, 546, 608, 648, 853) and, on the *)
(* CPU tab, first of all that there is a register (ui_tabs.c:376).  The    *)
(* disassembly is announced by its own count but not by a register: until  *)
(* the first message of category cpu it is received and not shown.         *)
NothingHidden ==
  /\ Some(zeropage.data, NoByte) => zeropage.has_data
  /\ Some(stackpage.data, NoByte) => stackpage.has_data
  /\ Some(textscreen.rows, EmptyRow) => textscreen.has_data
  /\ Some(annunciator.state, 0) => annunciator.has_data
  /\ Some(cpustack.entries, EmptyRow) => cpustack.has_data
  /\ cpustack.has_data => cpu.entries # <<>>
  /\ \A i \in DOMAIN cpustack.entries :
       cpustack.entries[i] # EmptyRow => i < cpustack.entry_count
  /\ \A i \in DOMAIN disasm.lines : disasm.lines[i] # EmptyRow => i < disasm.count

ValueOf(entries, key) ==
  IF IndexOf(entries, key) = 0 THEN NoVal ELSE entries[IndexOf(entries, key)].val

(* A datum that is kept twice is the same in both places, as far as each    *)
(* keeps it: the stack pointer, cut at 7 characters, and the CPU's type and *)
(* cycles, cut at 31, are those of the register table (if it has room for   *)
(* them), and an annunciator is the number, cut to 8 bits, in the text of   *)
(* the IO table (until that is evicted).                                   *)
CopiesAgree ==
  /\ LET sp == ValueOf(cpu.entries, <<"stack", "sp">>)
     IN  sp # NoVal => cpustack.sp = Cut[8][sp]
  /\ \A f \in {"type", "cycles"} :
       LET v == ValueOf(cpu.entries, <<"state", f>>)
       IN  v # NoVal => info.shown[<<"state", f>>] = Cut[32][v]
  /\ \A i \in DOMAIN annunciator.state :
       LET v == ValueOf(io.entries, <<<<"ann", "state">>, i>>)
       IN  v # NoVal => annunciator.state[i] = Atoi[v] % 256

(* The register table and the flag table hold the last value of each key   *)
(* and never give a key's place to another ("only the value is updated",   *)
(* README.md:179); a key that comes when the table is full is ignored.     *)
AsDict(entries) ==
  [k \in {entries[i].key : i \in DOMAIN entries} |-> ValueOf(entries, k)]
Registers == INSTANCE Dictionary WITH
  Key <- {<<d.sec, d.fld>> : d \in Messages}, Val <- Vals, Room <- CpuMaxEntries,
  dict <- AsDict(cpu.entries), sent <- cpu_sent
Flags == INSTANCE Dictionary WITH
  Key <- {d.fld : d \in Messages}, Val <- Vals, Room <- MaxFlags,
  dict <- AsDict(memflags), sent <- flag_sent
TablesReplaced == Registers!Spec /\ Flags!Spec
==============================================================================
