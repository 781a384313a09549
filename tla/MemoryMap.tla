------------------------------ MODULE MemoryMap ------------------------------
(***************************************************************************)
(* The memory behind the Memory tab (data_store.c, process_memory_dump,    *)
(* process_memory_byte and what they call): a sorted array of lines that   *)
(* grows by doubling, found by binary search, each line with its known     *)
(* bytes.  A growth may fail: realloc() returns NULL and the byte is       *)
(* skipped.  Scrolling over the lines is in module Ui.                     *)
(***************************************************************************)
EXTENDS Integers, Sequences, SequencesExt, FiniteSetsExt

CONSTANTS
  AddrSpace,        (* 2^32 in the code: addresses are uint32_t            *)
  BytesPerLine,     (* MEM_BYTES_PER_LINE, 16 in the code                  *)
  InitialCapacity,  (* MEM_INITIAL_CAPACITY, 256 in the code               *)
  Bytes, NoByte,    (* byte values; NoByte: the byte is not valid          *)
  Starts,           (* bound: the addresses the emulator sends             *)
  MaxDump,          (* bound: bytes in a dump (the parser keeps 255)       *)
  AllocMayFail      (* whether realloc() may return NULL                   *)

ASSUME MemorySizes ==
  /\ BytesPerLine \in Nat \ {0} /\ InitialCapacity \in Nat \ {0}
  /\ AddrSpace \in Nat \ {0} /\ AddrSpace % BytesPerLine = 0
  /\ Starts \subseteq 0..(AddrSpace - 1)
  /\ MaxDump \in 1..AddrSpace /\ NoByte \notin Bytes /\ AllocMayFail \in BOOLEAN

VARIABLES
  memory,    (* MemoryData: lines (count is their number), capacity,       *)
             (* min_addr, max_addr                                         *)
  mem_sent   (* history: the last byte sent for every address              *)

memVars == <<memory, mem_sent>>

(* datastore_init() zeroes the struct and does not clear the memory.       *)
MemInit ==
  /\ memory = [lines |-> <<>>, capacity |-> 0, min_addr |-> 0, max_addr |-> 0]
  /\ mem_sent = <<>>

line_addr(a) == (a \div BytesPerLine) * BytesPerLine

EmptyLine(la) ==
  [address |-> la, data |-> [o \in 0..(BytesPerLine - 1) |-> NoByte],
   valid_count |-> 0]

(* Mutant of Search: a new line is put at the end.                          *)
SearchAppends(lines, la) ==
  LET held == {i \in DOMAIN lines : lines[i].address = la}
  IN  [found |-> held # {}, at |-> IF held # {} THEN Min(held) ELSE Len(lines) + 1]

(* A pass of the loop of the binary search over lines low..high; none once *)
(* the line is found or there is nothing left to search.                   *)
Probe(lines, la, w) ==
  LET mid == (w.low + w.high) \div 2
  IN  IF w.found \/ w.low > w.high THEN w
      ELSE IF lines[mid].address = la THEN [w EXCEPT !.low = mid, !.found = TRUE]
      ELSE IF lines[mid].address < la THEN [w EXCEPT !.low = mid + 1]
      ELSE [w EXCEPT !.high = mid - 1]

(* The line of address la, or where to insert it.  Every pass shortens the *)
(* range: there are no more passes than lines.                             *)
Search(lines, la) ==
  LET pass[k \in 0..Len(lines)] ==
        IF k = 0 THEN [low |-> 1, high |-> Len(lines), found |-> FALSE]
        ELSE Probe(lines, la, pass[k - 1])
      end == pass[Len(lines)]
  IN  [found |-> end.found, at |-> end.low]

(* Mutant of Grown: the array grows one line too late.                      *)
GrownLate(capacity, needed) ==
  IF needed <= capacity + 1 THEN capacity ELSE capacity * 2

(* The capacity after realloc(): doubled until it is enough.               *)
Grown(capacity, needed) ==
  LET first == IF capacity = 0 THEN InitialCapacity ELSE capacity * 2
  IN  IF needed <= capacity THEN capacity
      ELSE Min({c \in {first * 2^k : k \in 0..needed} : c >= needed})

(* Mutants of StoreByte: looks whether the byte was known after storing it; *)
(* keeps the first byte received.                                          *)
StoreThenTest(line, o, b) == [line EXCEPT !.data[o] = b]
StoreFirst(line, o, b) ==
  IF line.data[o] # NoByte THEN line
  ELSE [line EXCEPT !.data[o] = b, !.valid_count = @ + 1]

StoreByte(line, o, b) ==
  [line EXCEPT !.data[o] = b,
               !.valid_count = IF line.data[o] = NoByte THEN @ + 1 ELSE @]

(* One byte of a message: find or create its line, store it.               *)
PutByte(mem, a, b, alloc) ==
  LET slot   == Search(mem.lines, line_addr(a))
      needed == Len(mem.lines) + 1
      held   == IF slot.found THEN mem
                ELSE [mem EXCEPT
                        !.lines = InsertAt(@, slot.at, EmptyLine(line_addr(a))),
                        !.capacity = Grown(@, needed)]
  IN  IF ~slot.found /\ needed > mem.capacity /\ ~alloc THEN mem
      ELSE [held EXCEPT !.lines[slot.at] = StoreByte(@, a % BytesPerLine, b)]

(* Mutant of Widen: the length of the dump is forgotten.                    *)
WidenToFirst(mem, addr, n) ==
  [mem EXCEPT !.min_addr = IF addr < @ THEN addr ELSE @,
              !.max_addr = IF addr > @ THEN addr ELSE @]

(* The range is widened first, whatever happens to the bytes.              *)
Widen(mem, addr, n) ==
  LET last == (addr + n - 1) % AddrSpace
  IN  [mem EXCEPT !.min_addr = IF addr < @ THEN addr ELSE @,
                  !.max_addr = IF last > @ THEN last ELSE @]

(* The address of byte i of a message; uint32_t arithmetic.                *)
ByteAddr(addr, i) == (addr + i - 1) % AddrSpace

Sent(addr, bytes) ==
  LET span == {ByteAddr(addr, i) : i \in DOMAIN bytes}
  IN  mem_sent' = [a \in DOMAIN mem_sent \union span |->
                     IF a \in span
                     THEN bytes[CHOOSE i \in DOMAIN bytes : ByteAddr(addr, i) = a]
                     ELSE mem_sent[a]]

(* A dump: its bytes are stored one by one; fails is the set of those for  *)
(* which a growth, if one is needed, fails.                                *)
process_memory_dump(addr, bytes, fails) ==
  /\ bytes # <<>>
  /\ LET after[i \in 0..Len(bytes)] ==
           IF i = 0 THEN Widen(memory, addr, Len(bytes))
           ELSE PutByte(after[i - 1], ByteAddr(addr, i), bytes[i], i \notin fails)
     IN  memory' = after[Len(bytes)]
  /\ Sent(addr, bytes)

(* A read or a write of one byte.                                          *)
process_memory_byte(addr, b, fails) ==
  /\ memory' = PutByte(Widen(memory, addr, 1), addr, b, fails = {})
  /\ Sent(addr, <<b>>)

datastore_memory_clear ==
  /\ memory' = [lines |-> <<>>, capacity |-> 0,
                min_addr |-> AddrSpace - 1, max_addr |-> 0]
  /\ mem_sent' = <<>>

Failures(n) == IF AllocMayFail THEN SUBSET (1..n) ELSE {{}}

MemNext ==
  \/ datastore_memory_clear
  \/ \E addr \in Starts, n \in 0..MaxDump :
       \E bytes \in [1..n -> Bytes], fails \in Failures(n) :
         process_memory_dump(addr, bytes, fails)
  \/ \E addr \in Starts, b \in Bytes, fails \in Failures(1) :
       process_memory_byte(addr, b, fails)

MemSpec == MemInit /\ [][MemNext]_memVars
------------------------------------------------------------------------------
Offsets == 0..(BytesPerLine - 1)
Address == 0..(AddrSpace - 1)

(* The known bytes.                                                        *)
KnownAddrs ==
  UNION {{memory.lines[i].address + o :
            o \in {p \in Offsets : memory.lines[i].data[p] # NoByte}} :
         i \in DOMAIN memory.lines}

(* The lines fit the block that was allocated for them, and a line never   *)
(* counts more bytes than it has.                                          *)
MemTypeOK ==
  /\ memory.lines \in Seq([address: Address, data: [Offsets -> Bytes \union {NoByte}],
                           valid_count: 0..BytesPerLine])
  /\ memory.capacity \in Nat /\ Len(memory.lines) <= memory.capacity
  /\ memory.min_addr \in Address /\ memory.max_addr \in Address

(* The lines are sorted by address, without repetition, after any order of *)
(* arrival and any failed growth: the binary search relies on it.          *)
LinesSorted ==
  /\ \A i \in DOMAIN memory.lines : memory.lines[i].address % BytesPerLine = 0
  /\ \A i, j \in DOMAIN memory.lines :
       i < j => memory.lines[i].address < memory.lines[j].address

(* valid_count is the number of known bytes, and no line is empty: a line  *)
(* created for a byte always gets it.                                      *)
ValidCounted ==
  \A i \in DOMAIN memory.lines :
    LET l == memory.lines[i]
    IN  /\ l.valid_count = Cardinality({o \in Offsets : l.data[o] # NoByte})
        /\ l.valid_count > 0

(* No known byte is outside the range in the header of the tab.            *)
RangeCovers ==
  \A a \in KnownAddrs : memory.min_addr <= a /\ a <= memory.max_addr

(* The array of lines holds, for every address, the last byte received.    *)
M == INSTANCE ByteMap WITH
       Byte <- Bytes, sent <- mem_sent,
       known <- [a \in KnownAddrs |->
                   (CHOOSE l \in ToSet(memory.lines) :
                      l.address = line_addr(a)).data[a % BytesPerLine]]
HoldsLastBytes == M!Spec
==============================================================================
