--------------------------- MODULE DataStoreProofs ---------------------------
(***************************************************************************)
(* Theorems about the data store: it is an IO table and a memory, and what *)
(* its other tables keep, for every size of the tables, every set of lines *)
(* and every value of the other constants.                                 *)
(***************************************************************************)
EXTENDS Tabs, MemoryMapProofs, IoTableProofs

(* The routes of a message.                                                *)
Routed(d) ==
  \/ SysMessage(d) \/ MachMessage(d) \/ CpuMessage(d) \/ IoTabMessage(d)
  \/ PageMessage(d) \/ TextMessage(d) \/ MemoryMessage(d)
  \/ DbgMessage(d) \/ OtherMessage(d)

LEMMA NextCases ==
  ASSUME Next
  PROVE  datastore_clear \/ ParseError \/ \E d \in Messages : Routed(d)
<1>1. ASSUME NEW l \in JsonLines, ReceiveLine(l)
      PROVE  ParseError \/ \E d \in Messages : Routed(d)
  <2>1. CASE Accepted(l)
    <3>1. Message(l) \in Messages
      BY <2>1 DEF Messages
    <3>2. Routed(Message(l))
      BY <1>1, <2>1 DEF ReceiveLine, datastore_process, Routed
    <3>. QED BY <3>1, <3>2
  <2>2. CASE ~Accepted(l)
    BY <1>1, <2>2 DEF ReceiveLine
  <2>. QED BY <2>1, <2>2
<1>. QED BY <1>1 DEF Next

(* A field keeps a value, and cutting twice cuts no more than the shorter  *)
(* field does.                                                             *)
LEMMA CutTyped == \A n \in FieldSizes, v \in Vals : Cut[n][v] \in Vals
  BY StringsTyped

LEMMA CutTwice ==
  \A v \in Vals : Cut[8][Cut[64][v]] = Cut[8][v] /\ Cut[32][Cut[64][v]] = Cut[32][v]
<1>1. {8, 32, 64} \subseteq FieldSizes
  BY DEF FieldSizes
<1>. QED BY <1>1, StringsTyped

LEMMA CutMessage ==
  ASSUME NEW d \in Messages
  PROVE  d.val \in Vals /\ \A n \in {8, 64, 256} : Cut[n][d.val] \in Vals
<1>1. {8, 64, 256} \subseteq FieldSizes
  BY DEF FieldSizes
<1>2. d.val \in Vals
  BY MessagesTyped
<1>3. ASSUME NEW n \in {8, 64, 256} PROVE Cut[n][d.val] \in Vals
  BY <1>1, <1>2, CutTyped
<1>. QED BY <1>2, <1>3

(***************************************************************************)
(* The store behaves as the IO table and as the memory that it contains.   *)
(***************************************************************************)

LEMMA IoRoute ==
  ASSUME NEW d \in Messages, IoTabMessage(d)
  PROVE  LET m == [sec |-> <<d.sec, d.fld>>, addr |-> d.addr, idx |-> d.idx,
                   val |-> Cut[256][d.val]]
         IN  m \in IoMessage /\ process_io(m)
  BY MessagesTyped, CutMessage DEF IoTabMessage, IoMessage

LEMMA IoStep == ASSUME [Next]_vars PROVE [IoNext]_ioVars
<1>1. CASE datastore_clear
  BY <1>1 DEF datastore_clear, IoNext
<1>2. CASE ParseError
  BY <1>2 DEF ParseError, tables
<1>3. ASSUME NEW d \in Messages, Routed(d) PROVE [IoNext]_ioVars
  <2>1. CASE IoTabMessage(d)
    BY <2>1, IoRoute DEF IoNext
  <2>2. CASE CpuMessage(d)
    BY <2>2 DEF CpuMessage
  <2>3. CASE DbgMessage(d)
    BY <2>3 DEF DbgMessage
  <2>4. CASE UNCHANGED tables
    BY <2>4 DEF tables
  <2>. QED BY <1>3, <2>1, <2>2, <2>3, <2>4
       DEF Routed, SysMessage, MachMessage, PageMessage, TextMessage, MemoryMessage,
           OtherMessage
<1>4. CASE UNCHANGED vars
  BY <1>4 DEF vars, tables
<1>. QED BY <1>1, <1>2, <1>3, <1>4, NextCases

(* The IO table of the store is an IO table: what holds of one holds of    *)
(* the other, whatever else the store receives.                            *)
THEOREM ContainsIoTable == Spec => IoSpec
<1>1. Init => IoInit
  BY DEF Init
<1>. QED BY <1>1, IoStep, PTL DEF Spec, IoSpec

LEMMA MemStep == ASSUME [Next]_vars PROVE [MemNext]_memVars
<1>1. CASE datastore_clear
  BY <1>1 DEF datastore_clear, MemNext
<1>2. CASE ParseError
  BY <1>2 DEF ParseError, pages
<1>3. ASSUME NEW d \in Messages, Routed(d) PROVE [MemNext]_memVars
  <2>1. CASE MemoryMessage(d)
    <3>1. CASE d.sec = "dump" /\ HasAddr(d) /\ d.bytes # <<>>
      <4>1. d.addr \in Starts /\ d.bytes \in Seq(Bytes) /\ Len(d.bytes) <= MaxDump
        BY <2>1, <3>1, MessagesTyped DEF MemoryMessage
      <4>2. Len(d.bytes) \in 0..MaxDump /\ d.bytes \in [1..Len(d.bytes) -> Bytes]
        BY <4>1, MemorySizes
      <4>3. \E fails \in Failures(Len(d.bytes)) :
              process_memory_dump(d.addr, d.bytes, fails)
        BY <2>1, <3>1 DEF MemoryMessage
      <4>. QED BY <4>1, <4>2, <4>3 DEF MemNext
    <3>2. CASE d.sec \in {"read", "write"} /\ d.fld = "byte" /\ HasAddr(d)
      <4>1. d.addr \in Starts /\ d.bytes \in Seq(Bytes) /\ d.bytes # <<>>
        BY <2>1, <3>2, MessagesTyped DEF MemoryMessage
      <4>2. d.bytes[1] \in Bytes
        <5>1. 1 \in 1..Len(d.bytes)
          BY <4>1
        <5>. QED BY <4>1, <5>1, ElementOfSeq
      <4>3. \E fails \in Failures(1) : process_memory_byte(d.addr, d.bytes[1], fails)
        BY <2>1, <3>2 DEF MemoryMessage
      <4>. QED BY <4>1, <4>2, <4>3 DEF MemNext
    <3>3. CASE /\ ~(d.sec = "dump" /\ HasAddr(d) /\ d.bytes # <<>>)
               /\ ~(d.sec \in {"read", "write"} /\ d.fld = "byte" /\ HasAddr(d))
      BY <2>1, <3>3 DEF MemoryMessage
    <3>. QED BY <3>1, <3>2, <3>3
  <2>2. CASE PageMessage(d) \/ TextMessage(d)
    BY <2>2 DEF PageMessage, TextMessage
  <2>3. CASE UNCHANGED pages
    BY <2>3 DEF pages
  <2>. QED BY <1>3, <2>1, <2>2, <2>3
       DEF Routed, SysMessage, MachMessage, CpuMessage, IoTabMessage, DbgMessage,
           OtherMessage
<1>4. CASE UNCHANGED vars
  BY <1>4 DEF vars, pages
<1>. QED BY <1>1, <1>2, <1>3, <1>4, NextCases

(* The memory of the store is a memory in the same way.                    *)
THEOREM ContainsMemory == Spec => MemSpec
<1>1. Init => MemInit
  BY DEF Init
<1>. QED BY <1>1, MemStep, PTL DEF Spec, MemSpec

(***************************************************************************)
(* The tables of keys and values: registers and flags.                     *)
(***************************************************************************)

Entries(K) == Seq([key: K, val: Vals])
HeldKey(entries, key) == \E i \in DOMAIN entries : entries[i].key = key

(* The place of a key is the only one that has it.                         *)
LEMMA IndexOfFinds ==
  ASSUME NEW S, NEW entries \in Seq(S), UniqueIn(entries), NEW key
  PROVE  /\ ~HeldKey(entries, key) => IndexOf(entries, key) = 0
         /\ HeldKey(entries, key) =>
              /\ IndexOf(entries, key) \in DOMAIN entries
              /\ entries[IndexOf(entries, key)].key = key
         /\ \A i \in DOMAIN entries :
              entries[i].key = key => IndexOf(entries, key) = i
<1>1. CASE ~HeldKey(entries, key)
  BY <1>1 DEF HeldKey, IndexOf
<1>2. CASE HeldKey(entries, key)
  <2>. DEFINE First(i) == /\ entries[i].key = key
                          /\ \A j \in 1..(i - 1) : entries[j].key # key
  <2>1. PICK i \in DOMAIN entries : entries[i].key = key
    BY <1>2 DEF HeldKey
  <2>. DEFINE Has == {j \in DOMAIN entries : entries[j].key = key}
  <2>2. \E j \in DOMAIN entries : First(j)
    <3>1. Has \subseteq Nat /\ i \in Has /\ DOMAIN entries = 1..Len(entries)
          /\ Len(entries) \in Nat
      BY <2>1
    <3>2. PICK j \in Has : \A k \in Has : j <= k
      <4>. HIDE DEF Has
      <4>. QED BY <3>1, LeastNat
    <3>3. ASSUME NEW k \in 1..(j - 1) PROVE entries[k].key # key
      <4>1. k \in DOMAIN entries /\ ~(j <= k)
        BY <3>1, <3>2
      <4>. QED BY <3>2, <4>1
    <3>. QED BY <3>2, <3>3
  <2>3. IndexOf(entries, key) = CHOOSE j \in DOMAIN entries : First(j)
    BY <1>2 DEF IndexOf, HeldKey
  <2>4. IndexOf(entries, key) \in DOMAIN entries /\ First(IndexOf(entries, key))
    <3>. HIDE DEF First
    <3>. QED BY <2>2, <2>3
  <2>. QED BY <1>2, <2>4 DEF UniqueIn
<1>. QED BY <1>1, <1>2

LEMMA ValueFinds ==
  ASSUME NEW S, NEW entries \in Seq(S), UniqueIn(entries), NEW key
  PROVE  /\ ~HeldKey(entries, key) => ValueOf(entries, key) = NoVal
         /\ \A i \in DOMAIN entries :
              entries[i].key = key => ValueOf(entries, key) = entries[i].val
<1>1. ~HeldKey(entries, key) => ValueOf(entries, key) = NoVal
  BY IndexOfFinds DEF ValueOf
<1>2. ASSUME NEW i \in DOMAIN entries, entries[i].key = key
      PROVE  ValueOf(entries, key) = entries[i].val
  <2>1. IndexOf(entries, key) = i
    BY <1>2, IndexOfFinds
  <2>2. i # 0
    OBVIOUS
  <2>. QED BY <2>1, <2>2 DEF ValueOf
<1>. QED BY <1>1, <1>2

(* What PutEntry does to the table and to the values of its keys.          *)
LEMMA PutEntryKeeps ==
  ASSUME NEW K, NEW entries \in Entries(K), UniqueIn(entries),
         NEW key \in K, NEW val \in Vals, NEW max \in Nat, Len(entries) <= max
  PROVE  LET new == PutEntry(entries, key, val, max)
             fits == HeldKey(entries, key) \/ Len(entries) < max
         IN  /\ new \in Entries(K) /\ UniqueIn(new)
             /\ Len(entries) <= Len(new) /\ Len(new) <= max
             /\ \A k : HeldKey(new, k) <=> HeldKey(entries, k) \/ (k = key /\ fits)
             /\ \A k : ValueOf(new, k) = IF k = key /\ fits THEN val
                                        ELSE ValueOf(entries, k)
<1>. DEFINE new == PutEntry(entries, key, val, max)
            n == Len(entries)
            e == [key |-> key, val |-> val]
            at == IndexOf(entries, key)
            E == [key: K, val: Vals]
<1>1. /\ n \in Nat /\ DOMAIN entries = 1..n /\ entries \in Seq(E) /\ e \in E
      /\ \A i \in 1..n : /\ entries[i] \in E
                        /\ entries[i] = [key |-> entries[i].key, val |-> entries[i].val]
  <2>1. entries \in Seq(E) /\ e \in E /\ n \in Nat /\ DOMAIN entries = 1..n
    BY DEF Entries
  <2>2. \A i \in 1..n : entries[i] \in E
    <3>. HIDE DEF E
    <3>. QED BY <2>1, ElementOfSeq
  <2>3. \A x \in E : x = [key |-> x.key, val |-> x.val]
    OBVIOUS
  <2>. HIDE DEF E
  <2>. QED BY <2>1, <2>2, <2>3
<1>2. /\ ~HeldKey(entries, key) => at = 0
      /\ HeldKey(entries, key) => at \in 1..n /\ entries[at].key = key
  BY <1>1, IndexOfFinds
<1>3. CASE HeldKey(entries, key)
  <2>1. at \in 1..n /\ entries[at].key = key /\ at # 0
    BY <1>1, <1>2, <1>3
  <2>2. new = [entries EXCEPT ![at].val = val]
    BY <2>1 DEF PutEntry
  <2>. HIDE DEF at, new
  <2>3. new = [entries EXCEPT ![at] = e]
    <3>1. [entries[at] EXCEPT !.val = val] = e
      BY <1>1, <2>1
    <3>2. new = [entries EXCEPT ![at] = [entries[at] EXCEPT !.val = val]]
      BY <2>2
    <3>. HIDE DEF e
    <3>. QED BY <3>1, <3>2
  <2>4. /\ new \in Seq(E) /\ Len(new) = n /\ DOMAIN new = 1..n /\ new[at] = e
        /\ \A i \in 1..n : i # at => new[i] = entries[i]
    <3>. HIDE DEF E, e
    <3>. QED BY <1>1, <2>1, <2>3
  <2>5. \A i \in 1..n : new[i].key = entries[i].key
    BY <2>1, <2>4
  <2>6. UniqueIn(new)
    BY <1>1, <2>4, <2>5 DEF UniqueIn
  <2>7. \A k : HeldKey(new, k) <=> HeldKey(entries, k)
    BY <1>1, <2>4, <2>5 DEF HeldKey
  <2>8. ASSUME NEW k
        PROVE  ValueOf(new, k) = IF k = key THEN val ELSE ValueOf(entries, k)
    <3>1. CASE k = key
      BY <2>1, <2>4, <2>5, <2>6, <3>1, ValueFinds
    <3>2. CASE k # key /\ HeldKey(entries, k)
      <4>1. PICK i \in 1..n : entries[i].key = k
        BY <1>1, <3>2 DEF HeldKey
      <4>2. i # at
        BY <2>1, <3>2, <4>1
      <4>3. new[i] = entries[i]
        BY <2>4, <4>2
      <4>4. ValueOf(new, k) = new[i].val
        BY <2>4, <2>6, <4>1, <4>3, ValueFinds
      <4>5. ValueOf(entries, k) = entries[i].val
        BY <1>1, <4>1, ValueFinds
      <4>. QED BY <3>2, <4>3, <4>4, <4>5
    <3>3. CASE k # key /\ ~HeldKey(entries, k)
      BY <1>1, <2>4, <2>6, <2>7, <3>3, ValueFinds
    <3>. QED BY <3>1, <3>2, <3>3
  <2>9. \A k : k = key => HeldKey(entries, k)
    BY <1>3
  <2>10. new \in Entries(K) /\ n <= Len(new) /\ Len(new) <= max
    BY <1>1, <2>4 DEF Entries
  <2>11. /\ \A k : HeldKey(new, k) <=> HeldKey(entries, k) \/ k = key
         /\ \A k : ValueOf(new, k) = IF k = key THEN val ELSE ValueOf(entries, k)
    BY <2>7, <2>8, <2>9
  <2>. HIDE DEF E, e
  <2>. QED BY <1>3, <2>6, <2>10, <2>11 DEF new
<1>4. CASE ~HeldKey(entries, key) /\ n < max
  <2>1. new = Append(entries, e)
    BY <1>2, <1>4 DEF PutEntry
  <2>. HIDE DEF new, at
  <2>2. /\ new \in Seq(E) /\ Len(new) = n + 1 /\ DOMAIN new = 1..(n + 1)
        /\ new[n + 1] = e /\ \A i \in 1..n : new[i] = entries[i]
    <3>. HIDE DEF E, e
    <3>. QED BY <1>1, <2>1
  <2>3. e.key = key /\ e.val = val
    OBVIOUS
  <2>. HIDE DEF E, e
  <2>4. /\ 1..(n + 1) = 1..n \union {n + 1} /\ n + 1 \notin 1..n
        /\ n <= n + 1 /\ n + 1 <= max
    BY <1>1, <1>4
  <2>5. \A i \in 1..n : new[i].key # key
    BY <1>1, <1>4, <2>2 DEF HeldKey
  <2>6. UniqueIn(new)
    BY <1>1, <2>2, <2>3, <2>4, <2>5 DEF UniqueIn
  <2>7. \A k : HeldKey(new, k) <=> HeldKey(entries, k) \/ k = key
    BY <1>1, <2>2, <2>3, <2>4 DEF HeldKey
  <2>8. ASSUME NEW k
        PROVE  ValueOf(new, k) = IF k = key THEN val ELSE ValueOf(entries, k)
    <3>1. CASE k = key
      BY <2>2, <2>3, <2>4, <2>6, <3>1, ValueFinds
    <3>2. CASE k # key /\ HeldKey(entries, k)
      <4>1. PICK i \in 1..n : entries[i].key = k
        BY <1>1, <3>2 DEF HeldKey
      <4>2. ValueOf(new, k) = new[i].val
        BY <2>2, <2>4, <2>6, <4>1, ValueFinds
      <4>3. ValueOf(entries, k) = entries[i].val
        BY <1>1, <4>1, ValueFinds
      <4>. QED BY <2>2, <3>2, <4>1, <4>2, <4>3
    <3>3. CASE k # key /\ ~HeldKey(entries, k)
      BY <1>1, <2>2, <2>6, <2>7, <3>3, ValueFinds
    <3>. QED BY <3>1, <3>2, <3>3
  <2>9. new \in Entries(K)
    BY <2>2 DEF Entries, E
  <2>. QED BY <1>4, <2>2, <2>4, <2>6, <2>7, <2>8, <2>9 DEF new
<1>5. CASE ~HeldKey(entries, key) /\ ~(n < max)
  <2>1. new = entries
    BY <1>2, <1>5 DEF PutEntry
  <2>. HIDE DEF new
  <2>2. n <= n
    BY <1>1
  <2>. QED BY <1>5, <2>1, <2>2 DEF new
<1>. QED BY <1>3, <1>4, <1>5

(***************************************************************************)
(* What each table keeps whatever message is put into it.                  *)
(***************************************************************************)

RegKey  == {<<d.sec, d.fld>> : d \in Messages}
FlagKey == {d.fld : d \in Messages}

CpuOK(c) ==
  /\ c.entries \in Entries(RegKey) /\ UniqueIn(c.entries)
  /\ Len(c.entries) <= CpuMaxEntries
  /\ \A r \in DOMAIN c.quick : c.quick[r] \in 0..Len(c.entries)

FlagsOK(f) == f \in Entries(FlagKey) /\ UniqueIn(f) /\ Len(f) <= MaxFlags

PageOK(p) ==
  DOMAIN p.data = 0..(PageSize - 1) /\ (Some(p.data, NoByte) => p.has_data)

TextOK(t) ==
  /\ t = [rows |-> t.rows, current_page |-> t.current_page, has_data |-> t.has_data]
  /\ DOMAIN t.rows = 0..(TextRows - 1) /\ (Some(t.rows, EmptyRow) => t.has_data)

AnnOK(a) ==
  DOMAIN a.state = 0..(AnnCount - 1) /\ (Some(a.state, 0) => a.has_data)

DisasmOK(l) ==
  /\ DOMAIN l.lines = 0..(DisasmMaxLines - 1) /\ l.count \in 0..DisasmMaxLines
  /\ \A i \in DOMAIN l.lines : l.lines[i] # EmptyRow => i < l.count

StackOK(s) ==
  /\ s = [sp |-> s.sp, depth |-> s.depth, has_data |-> s.has_data,
          entry_count |-> s.entry_count, entries |-> s.entries]
  /\ DOMAIN s.entries = 0..(StackMaxEntries - 1)
  /\ s.entry_count \in 0..StackMaxEntries
  /\ Some(s.entries, EmptyRow) => s.has_data
  /\ \A i \in DOMAIN s.entries : s.entries[i] # EmptyRow => i < s.entry_count

InfoOK(i) ==
  /\ i = [emu_type |-> i.emu_type, emu_version |-> i.emu_version,
          protocol_ver |-> i.protocol_ver, is_connected |-> i.is_connected,
          connected_time |-> i.connected_time, has_data |-> i.has_data,
          shown |-> i.shown]
  /\ DOMAIN i.shown = InfoField

LEMMA EmptyTables ==
  /\ CpuOK(EmptyCpu) /\ FlagsOK(<<>>) /\ PageOK(EmptyPage) /\ TextOK(EmptyText)
  /\ AnnOK(EmptyAnn) /\ DisasmOK(EmptyDisasm) /\ StackOK(EmptyStack)
  /\ InfoOK(EmptyInfo)
<1>1. CpuOK(EmptyCpu)
  <2>1. EmptyCpu.entries = <<>> /\ Len(<<>>) = 0 /\ DOMAIN <<>> = {}
        /\ <<>> \in Entries(RegKey) /\ 0 <= CpuMaxEntries
    BY StoreSizes DEF EmptyCpu, Entries
  <2>2. EmptyCpu.quick = [r \in {"pc", "sp", "a", "x", "y"} |-> 0]
    BY DEF EmptyCpu
  <2>. QED BY <2>1, <2>2 DEF CpuOK, UniqueIn
<1>2. FlagsOK(<<>>)
  BY StoreSizes DEF FlagsOK, Entries, UniqueIn
<1>3. PageOK(EmptyPage)
  BY DEF PageOK, EmptyPage, Some
<1>4. TextOK(EmptyText)
  BY DEF TextOK, EmptyText, Some
<1>5. AnnOK(EmptyAnn)
  BY DEF AnnOK, EmptyAnn, Some
<1>6. DisasmOK(EmptyDisasm)
  BY StoreSizes DEF DisasmOK, EmptyDisasm
<1>7. StackOK(EmptyStack)
  BY StoreSizes DEF StackOK, EmptyStack, Some
<1>8. InfoOK(EmptyInfo)
  BY DEF InfoOK, EmptyInfo
<1>. QED BY <1>1, <1>2, <1>3, <1>4, <1>5, <1>6, <1>7, <1>8

LEMMA CpuKept ==
  ASSUME NEW c, CpuOK(c), NEW d \in Messages
  PROVE  CpuOK(process_cpu(c, d))
<1>. DEFINE key == <<d.sec, d.fld>>
            val == Cut[64][d.val]
            new == PutEntry(c.entries, key, val, CpuMaxEntries)
            i == IndexOf(new, key)
            quick == update_cpu_quick_access(c.quick, i, d.fld)
<1>1. key \in RegKey /\ val \in Vals /\ CpuMaxEntries \in Nat
  BY CutMessage, StoreSizes DEF RegKey
<1>2. /\ new \in Entries(RegKey) /\ UniqueIn(new)
      /\ Len(c.entries) <= Len(new) /\ Len(new) <= CpuMaxEntries
  BY <1>1, PutEntryKeeps DEF CpuOK
<1>3. i \in 0..Len(new) /\ Len(new) \in Nat /\ Len(c.entries) \in Nat
  <2>1. new \in Seq([key: RegKey, val: Vals])
    BY <1>2 DEF Entries
  <2>2. c.entries \in Seq([key: RegKey, val: Vals])
    BY DEF CpuOK, Entries
  <2>3. IndexOf(new, key) = 0 \/ IndexOf(new, key) \in DOMAIN new
    BY <1>2, <2>1, IndexOfFinds
  <2>. HIDE DEF new
  <2>. QED BY <2>1, <2>2, <2>3
<1>4. process_cpu(c, d) = [entries |-> new, quick |-> quick]
  BY DEF process_cpu
<1>5. ASSUME NEW r \in DOMAIN quick PROVE quick[r] \in 0..Len(new)
  <2>1. DOMAIN quick = DOMAIN c.quick
    BY DEF update_cpu_quick_access
  <2>2. quick[r] = c.quick[r] \/ quick[r] = i
    BY <2>1 DEF update_cpu_quick_access
  <2>3. c.quick[r] \in 0..Len(c.entries)
    BY <2>1 DEF CpuOK
  <2>. HIDE DEF quick, new, i
  <2>. QED BY <1>2, <1>3, <2>2, <2>3
<1>. HIDE DEF new, quick
<1>. QED BY <1>2, <1>4, <1>5 DEF CpuOK

LEMMA FlagsKept ==
  ASSUME NEW f, FlagsOK(f), NEW d \in Messages
  PROVE  FlagsOK(process_memflags(f, d))
<1>1. d.fld \in FlagKey /\ Cut[8][d.val] \in Vals /\ MaxFlags \in Nat
  BY CutMessage, StoreSizes DEF FlagKey
<1>. QED BY <1>1, PutEntryKeeps DEF FlagsOK, process_memflags

LEMMA PutPageOK == ASSUME NEW p, NEW at, NEW bytes PROVE PageOK(PutPage(p, at, bytes))
<1>. DEFINE new == PutPage(p, at, bytes)
<1>1. DOMAIN new.data = 0..(PageSize - 1) /\ new.has_data = TRUE
  BY DEF PutPage
<1>. QED BY <1>1 DEF PageOK

LEMMA PagesKept ==
  ASSUME NEW p, PageOK(p), NEW d
  PROVE  PageOK(process_zeropage(p, d)) /\ PageOK(process_stackpage(p, d))
  BY PutPageOK DEF process_zeropage, process_stackpage

LEMMA TextKept == ASSUME NEW t, TextOK(t), NEW d PROVE TextOK(process_textscreen(t, d))
<1>1. CASE d.fld = "page"
  <2>1. process_textscreen(t, d)
          = [rows |-> t.rows, current_page |-> Atoi[d.val], has_data |-> TRUE]
    BY <1>1 DEF process_textscreen, TextOK
  <2>. QED BY <2>1 DEF TextOK
<1>2. CASE d.fld # "page" /\ d.fld = "row" /\ HasIdx(d) /\ d.idx \in 0..(TextRows - 1)
  <2>. DEFINE rows == [t.rows EXCEPT ![d.idx] = PutRow(@, d, 41)]
  <2>1. process_textscreen(t, d)
          = [rows |-> rows, current_page |-> t.current_page, has_data |-> TRUE]
    BY <1>2 DEF process_textscreen, TextOK
  <2>2. DOMAIN rows = DOMAIN t.rows
    OBVIOUS
  <2>. HIDE DEF rows
  <2>. QED BY <2>1, <2>2 DEF TextOK
<1>3. CASE /\ d.fld # "page"
           /\ ~(d.fld = "row" /\ HasIdx(d) /\ d.idx \in 0..(TextRows - 1))
  <2>1. process_textscreen(t, d) = t
    BY <1>3 DEF process_textscreen
  <2>. QED BY <2>1
<1>. QED BY <1>1, <1>2, <1>3

LEMMA AnnKept == ASSUME NEW a, AnnOK(a), NEW d PROVE AnnOK(process_annunciator(a, d))
  BY DEF AnnOK, process_annunciator

LEMMA DisasmKept ==
  ASSUME NEW l, DisasmOK(l), NEW d PROVE DisasmOK(process_disasm(l, d))
<1>1. CASE d.fld = "line" /\ HasIdx(d) /\ d.idx \in 0..(DisasmMaxLines - 1)
  <2>. DEFINE lines == [l.lines EXCEPT ![d.idx] = PutRow(@, d, 64)]
              count == IF d.idx >= l.count THEN d.idx + 1 ELSE l.count
  <2>1. process_disasm(l, d) = [lines |-> lines, count |-> count]
    BY <1>1 DEF process_disasm
  <2>2. /\ DOMAIN lines = 0..(DisasmMaxLines - 1)
        /\ \A i \in DOMAIN lines : i # d.idx => lines[i] = l.lines[i]
    BY DEF DisasmOK
  <2>. HIDE DEF lines
  <2>3. /\ DisasmMaxLines \in Nat /\ l.count \in 0..DisasmMaxLines
        /\ d.idx \in 0..(DisasmMaxLines - 1)
        /\ \A i \in 0..(DisasmMaxLines - 1) : l.lines[i] # EmptyRow => i < l.count
    BY <1>1, StoreSizes DEF DisasmOK
  <2>4. count \in 0..DisasmMaxLines /\ l.count <= count /\ d.idx < count
    BY <2>3
  <2>. HIDE DEF count
  <2>5. \A i \in DOMAIN lines : lines[i] # EmptyRow => i < count
    BY <2>2, <2>3, <2>4
  <2>. QED BY <2>1, <2>2, <2>4, <2>5 DEF DisasmOK
<1>2. CASE ~(d.fld = "line" /\ HasIdx(d) /\ d.idx \in 0..(DisasmMaxLines - 1))
  <2>1. process_disasm(l, d) = l
    BY <1>2 DEF process_disasm
  <2>. QED BY <2>1
<1>. QED BY <1>1, <1>2

LEMMA StackKept == ASSUME NEW s, StackOK(s), NEW d PROVE StackOK(process_cpustack(s, d))
<1>1. CASE d.fld = "sp"
  <2>1. process_cpustack(s, d)
          = [sp |-> Cut[8][d.val], depth |-> s.depth, has_data |-> TRUE,
             entry_count |-> s.entry_count, entries |-> s.entries]
    BY <1>1 DEF process_cpustack, StackOK
  <2>. DEFINE new == process_cpustack(s, d)
  <2>2. /\ new.sp = Cut[8][d.val] /\ new.depth = s.depth /\ new.has_data = TRUE
        /\ new.entry_count = s.entry_count /\ new.entries = s.entries
        /\ new = [sp |-> new.sp, depth |-> new.depth, has_data |-> new.has_data,
                  entry_count |-> new.entry_count, entries |-> new.entries]
    BY <2>1
  <2>. HIDE DEF new
  <2>3. StackOK(new)
    BY <2>2 DEF StackOK
  <2>. QED BY <2>3 DEF new
<1>2. CASE d.fld # "sp" /\ d.fld = "depth"
  <2>1. process_cpustack(s, d)
          = [sp |-> s.sp, depth |-> Cut[8][d.val], has_data |-> TRUE,
             entry_count |-> s.entry_count, entries |-> s.entries]
    BY <1>2 DEF process_cpustack, StackOK
  <2>. DEFINE new == process_cpustack(s, d)
  <2>2. /\ new.sp = s.sp /\ new.depth = Cut[8][d.val] /\ new.has_data = TRUE
        /\ new.entry_count = s.entry_count /\ new.entries = s.entries
        /\ new = [sp |-> new.sp, depth |-> new.depth, has_data |-> new.has_data,
                  entry_count |-> new.entry_count, entries |-> new.entries]
    BY <2>1
  <2>. HIDE DEF new
  <2>3. StackOK(new)
    BY <2>2 DEF StackOK
  <2>. QED BY <2>3 DEF new
<1>3. CASE /\ d.fld = "val" /\ HasIdx(d) /\ d.idx \in 0..(StackMaxEntries - 1)
  <2>. DEFINE rows == [s.entries EXCEPT ![d.idx] = PutRow(@, d, 8)]
              count == IF d.idx >= s.entry_count THEN d.idx + 1 ELSE s.entry_count
  <2>1. process_cpustack(s, d)
          = [sp |-> s.sp, depth |-> s.depth, has_data |-> TRUE,
             entry_count |-> count, entries |-> rows]
    BY <1>3 DEF process_cpustack, StackOK
  <2>2. /\ DOMAIN rows = 0..(StackMaxEntries - 1)
        /\ \A i \in DOMAIN rows : i # d.idx => rows[i] = s.entries[i]
    BY DEF StackOK
  <2>. HIDE DEF rows
  <2>3. /\ StackMaxEntries \in Nat /\ s.entry_count \in 0..StackMaxEntries
        /\ d.idx \in 0..(StackMaxEntries - 1)
        /\ \A i \in 0..(StackMaxEntries - 1) :
             s.entries[i] # EmptyRow => i < s.entry_count
    BY <1>3, StoreSizes DEF StackOK
  <2>4. count \in 0..StackMaxEntries /\ s.entry_count <= count /\ d.idx < count
    BY <2>3
  <2>. HIDE DEF count
  <2>5. \A i \in DOMAIN rows : rows[i] # EmptyRow => i < count
    BY <2>2, <2>3, <2>4
  <2>. QED BY <2>1, <2>2, <2>4, <2>5 DEF StackOK
<1>4. CASE /\ d.fld # "sp" /\ d.fld # "depth"
           /\ ~(d.fld = "val" /\ HasIdx(d) /\ d.idx \in 0..(StackMaxEntries - 1))
  <2>1. process_cpustack(s, d) = s
    BY <1>4 DEF process_cpustack
  <2>. QED BY <2>1
<1>. QED BY <1>1, <1>2, <1>3, <1>4

LEMMA ShowFieldOK ==
  ASSUME NEW i, InfoOK(i), NEW d, NEW secs
  PROVE  InfoOK(ShowField(i, d, secs))
<1>1. CASE d.sec \in secs
  <2>. DEFINE shown == [f \in InfoField |->
                          IF f = <<d.sec, d.fld>> THEN Cut[FieldSize(f)][d.val]
                          ELSE i.shown[f]]
  <2>1. ShowField(i, d, secs)
          = [emu_type |-> i.emu_type, emu_version |-> i.emu_version,
             protocol_ver |-> i.protocol_ver, is_connected |-> i.is_connected,
             connected_time |-> i.connected_time, has_data |-> TRUE,
             shown |-> shown]
    BY <1>1 DEF ShowField, InfoOK
  <2>2. DOMAIN shown = InfoField
    OBVIOUS
  <2>. HIDE DEF shown
  <2>. QED BY <2>1, <2>2 DEF InfoOK
<1>2. CASE d.sec \notin secs
  BY <1>2 DEF ShowField
<1>. QED BY <1>1, <1>2

LEMMA InfoKept ==
  ASSUME NEW i, InfoOK(i), NEW d
  PROVE  /\ InfoOK([i EXCEPT !.emu_type = d.emu])
         /\ InfoOK(process_info_sys(i, d))
         /\ InfoOK(process_info_mach(i, d)) /\ InfoOK(process_info_cpu_state(i, d))
<1>1. InfoOK([i EXCEPT !.emu_type = d.emu])
  <2>1. [i EXCEPT !.emu_type = d.emu]
          = [emu_type |-> d.emu, emu_version |-> i.emu_version,
             protocol_ver |-> i.protocol_ver, is_connected |-> i.is_connected,
             connected_time |-> i.connected_time, has_data |-> i.has_data,
             shown |-> i.shown]
    BY DEF InfoOK
  <2>. QED BY <2>1 DEF InfoOK
<1>2. InfoOK(process_info_sys(i, d))
  <2>1. CASE d.sec = "conn" /\ d.fld = "hello"
    <3>. DEFINE ver == IF HasVer(d) THEN d.ver ELSE i.protocol_ver
    <3>1. process_info_sys(i, d)
            = [i EXCEPT !.emu_version = Cut[64][d.val], !.connected_time = TRUE,
                        !.protocol_ver = ver, !.is_connected = TRUE, !.has_data = TRUE]
      BY <2>1 DEF process_info_sys
    <3>. HIDE DEF ver
    <3>2. process_info_sys(i, d)
            = [emu_type |-> i.emu_type, emu_version |-> Cut[64][d.val],
               protocol_ver |-> ver, is_connected |-> TRUE,
               connected_time |-> TRUE, has_data |-> TRUE, shown |-> i.shown]
      BY <3>1 DEF InfoOK
    <3>. QED BY <3>2 DEF InfoOK
  <2>2. CASE d.sec = "conn" /\ d.fld = "goodbye"
    <3>1. process_info_sys(i, d)
            = [emu_type |-> i.emu_type, emu_version |-> i.emu_version,
               protocol_ver |-> i.protocol_ver, is_connected |-> FALSE,
               connected_time |-> i.connected_time, has_data |-> i.has_data,
               shown |-> i.shown]
      BY <2>2 DEF process_info_sys, InfoOK
    <3>. QED BY <3>1 DEF InfoOK
  <2>3. CASE ~(d.sec = "conn" /\ d.fld = "hello") /\ ~(d.sec = "conn" /\ d.fld = "goodbye")
    BY <2>3 DEF process_info_sys
  <2>. QED BY <2>1, <2>2, <2>3
<1>. QED BY <1>1, <1>2, ShowFieldOK DEF process_info_mach, process_info_cpu_state

(***************************************************************************)
(* The invariant of the tables.                                            *)
(***************************************************************************)

TablesOK ==
  /\ CpuOK(cpu) /\ FlagsOK(memflags) /\ PageOK(zeropage) /\ PageOK(stackpage)
  /\ TextOK(textscreen) /\ AnnOK(annunciator) /\ DisasmOK(disasm)
  /\ StackOK(cpustack) /\ InfoOK(info)

(* What a message does to the tables: each is left alone or handled by the *)
(* function that updates it.                                               *)
Handled(d) ==
  /\ cpu' = cpu \/ cpu' = process_cpu(cpu, d)
  /\ memflags' = memflags \/ memflags' = process_memflags(memflags, d)
  /\ zeropage' = zeropage \/ zeropage' = process_zeropage(zeropage, d)
  /\ stackpage' = stackpage \/ stackpage' = process_stackpage(stackpage, d)
  /\ textscreen' = textscreen \/ textscreen' = process_textscreen(textscreen, d)
  /\ annunciator' = annunciator \/ annunciator' = process_annunciator(annunciator, d)
  /\ disasm' = disasm \/ disasm' = process_disasm(disasm, d)
  /\ cpustack' = cpustack \/ cpustack' = process_cpustack(cpustack, d)
  /\ \/ info' = Named(d) \/ info' = process_info_sys(Named(d), d)
     \/ info' = process_info_mach(Named(d), d)
     \/ info' = process_info_cpu_state(Named(d), d)

LEMMA RoutesHandle == ASSUME NEW d, Routed(d) PROVE Handled(d)
<1>1. CASE SysMessage(d)
  BY <1>1 DEF SysMessage, pages, tables, registers, flags, Handled
<1>2. CASE MachMessage(d)
  BY <1>2 DEF MachMessage, pages, tables, registers, flags, Handled
<1>3. CASE CpuMessage(d)
  BY <1>3 DEF CpuMessage, pages, flags, Handled
<1>4. CASE IoTabMessage(d)
  BY <1>4 DEF IoTabMessage, pages, registers, flags, Handled
<1>5. CASE PageMessage(d)
  BY <1>5 DEF PageMessage, tables, registers, Handled
<1>6. CASE TextMessage(d)
  BY <1>6 DEF TextMessage, tables, registers, flags, Handled
<1>7. CASE MemoryMessage(d)
  BY <1>7 DEF MemoryMessage, tables, registers, flags, Handled
<1>8. CASE DbgMessage(d)
  BY <1>8 DEF DbgMessage, pages, registers, flags, Handled
<1>9. CASE OtherMessage(d)
  BY <1>9 DEF OtherMessage, pages, tables, registers, flags, Handled
<1>. QED BY <1>1, <1>2, <1>3, <1>4, <1>5, <1>6, <1>7, <1>8, <1>9 DEF Routed

LEMMA InitTablesOK == Init => TablesOK
  BY EmptyTables DEF Init, TablesOK

LEMMA StepTablesOK == ASSUME TablesOK, [Next]_vars PROVE TablesOK'
<1>1. CASE datastore_clear
  BY <1>1, EmptyTables DEF datastore_clear, TablesOK
<1>2. CASE ParseError
  BY <1>2 DEF ParseError, pages, tables, registers, flags, TablesOK
<1>3. ASSUME NEW d \in Messages, Routed(d) PROVE TablesOK'
  <2>1. Handled(d)
    BY <1>3, RoutesHandle
  <2>2. CpuOK(cpu') /\ FlagsOK(memflags')
    BY <2>1, CpuKept, FlagsKept DEF Handled, TablesOK
  <2>3. PageOK(zeropage') /\ PageOK(stackpage')
    BY <2>1, PagesKept DEF Handled, TablesOK
  <2>4. TextOK(textscreen') /\ AnnOK(annunciator') /\ DisasmOK(disasm')
    BY <2>1, TextKept, AnnKept, DisasmKept DEF Handled, TablesOK
  <2>5. StackOK(cpustack')
    BY <2>1, StackKept DEF Handled, TablesOK
  <2>6. InfoOK(info')
    <3>1. InfoOK(Named(d))
      BY InfoKept DEF Named, TablesOK
    <3>. QED BY <2>1, <3>1, InfoKept DEF Handled
  <2>. QED BY <2>2, <2>3, <2>4, <2>5, <2>6 DEF TablesOK
<1>4. CASE UNCHANGED vars
  BY <1>4 DEF vars, pages, tables, registers, flags, TablesOK
<1>. QED BY <1>1, <1>2, <1>3, <1>4, NextCases

THEOREM TablesInvariance == Spec => []TablesOK
  BY InitTablesOK, StepTablesOK, PTL DEF Spec

(* Every table stays inside its array, and the quick access to a register  *)
(* is the place of an entry.                                               *)
THEOREM DsTypeCorrect == Spec => []DsTypeOK
<1>1. TablesOK => DsTypeOK
  BY DEF TablesOK, CpuOK, FlagsOK, PageOK, TextOK, AnnOK, DisasmOK, StackOK, DsTypeOK
<1>. QED BY <1>1, TablesInvariance, PTL

(* What is on the stack was sent by messages of category cpu, and the      *)
(* first of these makes a register.                                        *)
StackHasRegister == cpustack.has_data => cpu.entries # <<>>

LEMMA PutFills ==
  ASSUME NEW K, NEW entries \in Entries(K), NEW key \in K, NEW val \in Vals,
         NEW max \in Nat \ {0}, UniqueIn(entries), Len(entries) <= max
  PROVE  PutEntry(entries, key, val, max) # <<>>
<1>. DEFINE new == PutEntry(entries, key, val, max)
<1>1. entries \in Seq([key: K, val: Vals])
  BY DEF Entries
<1>2. ~HeldKey(<<>>, key)
  BY DEF HeldKey
<1>3. HeldKey(new, key) => new # <<>>
  BY <1>2
<1>4. CASE HeldKey(entries, key) \/ Len(entries) < max
  <2>1. HeldKey(new, key)
    BY <1>4, PutEntryKeeps
  <2>. QED BY <1>3, <2>1
<1>5. CASE ~HeldKey(entries, key) /\ ~(Len(entries) < max)
  <2>1. IndexOf(entries, key) = 0
    BY <1>1, <1>5, IndexOfFinds
  <2>2. new = entries
    BY <1>5, <2>1 DEF PutEntry
  <2>3. entries # <<>>
    BY <1>5
  <2>. QED BY <2>2, <2>3
<1>. QED BY <1>4, <1>5

LEMMA StepStackHasRegister ==
  ASSUME TablesOK, StackHasRegister, [Next]_vars PROVE StackHasRegister'
<1>1. CASE datastore_clear
  BY <1>1 DEF datastore_clear, StackHasRegister, EmptyStack
<1>2. CASE ParseError
  BY <1>2 DEF ParseError, tables, registers, StackHasRegister
<1>3. ASSUME NEW d \in Messages, Routed(d) PROVE StackHasRegister'
  <2>1. CASE CpuMessage(d)
    <3>. DEFINE val == Cut[64][d.val]
    <3>1. <<d.sec, d.fld>> \in RegKey /\ val \in Vals /\ CpuMaxEntries \in Nat \ {0}
      BY CutMessage, StoreSizes DEF RegKey
    <3>2. cpu'.entries = PutEntry(cpu.entries, <<d.sec, d.fld>>, val, CpuMaxEntries)
      BY <2>1 DEF CpuMessage, process_cpu
    <3>. HIDE DEF val
    <3>3. cpu'.entries # <<>>
      BY <3>1, <3>2, PutFills DEF TablesOK, CpuOK
    <3>. QED BY <3>3 DEF StackHasRegister
  <2>2. CASE ~CpuMessage(d)
    <3>1. cpu' = cpu /\ cpustack' = cpustack
      BY <1>3, <2>2 DEF Routed, SysMessage, MachMessage, IoTabMessage, PageMessage,
         TextMessage, MemoryMessage, DbgMessage, OtherMessage, tables, registers
    <3>. QED BY <3>1 DEF StackHasRegister
  <2>. QED BY <2>1, <2>2
<1>4. CASE UNCHANGED vars
  BY <1>4 DEF vars, tables, registers, StackHasRegister
<1>. QED BY <1>1, <1>2, <1>3, <1>4, NextCases

(* What a table holds passes the tests that its tab makes before drawing   *)
(* it: has_data or a count and, for the stack of the CPU tab, a register.  *)
(* The disassembly passes the test of its own count; the one for a         *)
(* register before it is not claimed, since the code does not keep it.     *)
THEOREM NothingIsHidden == Spec => []NothingHidden
<1>1. Init => StackHasRegister
  BY DEF Init, StackHasRegister, EmptyStack
<1>2. TablesOK /\ StackHasRegister => NothingHidden
  BY DEF TablesOK, PageOK, TextOK, AnnOK, DisasmOK, StackOK, StackHasRegister,
     NothingHidden
<1>. QED BY <1>1, <1>2, StepStackHasRegister, TablesInvariance, PTL DEF Spec

(***************************************************************************)
(* After a reset.                                                          *)
(***************************************************************************)

CountsOK ==
  /\ counts = [total |-> counts.total, errors |-> counts.errors, cpu |-> counts.cpu,
               mem |-> counts.mem, text |-> counts.text]
  /\ counts.total \in Nat

LEMMA RoutesCount ==
  ASSUME CountsOK, NEW d, Routed(d)
  PROVE  CountsOK' /\ counts'.total = counts.total + 1
<1>. DEFINE c == counts
            one == [total |-> c.total + 1, errors |-> c.errors, cpu |-> c.cpu,
                    mem |-> c.mem, text |-> c.text]
<1>1. Count(counts) = one
  BY DEF CountsOK, Count
<1>. HIDE DEF one
<1>2. \/ counts' = one \/ counts' = [one EXCEPT !.cpu = @ + 1]
      \/ counts' = [one EXCEPT !.mem = @ + 1] \/ counts' = [one EXCEPT !.text = @ + 1]
  BY <1>1 DEF Routed, SysMessage, MachMessage, CpuMessage, IoTabMessage, PageMessage,
     TextMessage, MemoryMessage, DbgMessage, OtherMessage
<1>3. c.total + 1 \in Nat
  BY DEF CountsOK
<1>. QED BY <1>2, <1>3 DEF CountsOK, one

LeftInv == CountsOK /\ NothingLeftOver

LEMMA StepLeftInv == ASSUME LeftInv, [Next]_vars PROVE LeftInv'
<1>1. CASE datastore_clear
  <2>1. counts' = [total |-> 0, errors |-> 0, cpu |-> 0, mem |-> 0, text |-> 0]
    BY <1>1 DEF datastore_clear, NoCounts
  <2>2. CountsOK'
    BY <2>1 DEF CountsOK
  <2>3. io' = EmptyIo /\ memory'.lines = <<>>
    BY <1>1 DEF datastore_clear, ClearIo, datastore_io_clear, datastore_memory_clear
  <2>4. NothingLeftOver'
    BY <1>1, <2>3 DEF datastore_clear, NothingLeftOver
  <2>. QED BY <2>2, <2>4 DEF LeftInv
<1>2. CASE ParseError
  <2>1. counts' = [total |-> counts.total, errors |-> counts.errors + 1,
                   cpu |-> counts.cpu, mem |-> counts.mem, text |-> counts.text]
    BY <1>2 DEF ParseError, LeftInv, CountsOK
  <2>2. CountsOK' /\ counts'.total = counts.total
    BY <2>1 DEF LeftInv, CountsOK
  <2>3. UNCHANGED <<info, cpu, cpustack, io, annunciator, disasm, memory, memflags,
                    textscreen, zeropage, stackpage>>
    BY <1>2 DEF ParseError, pages, tables, registers, flags, ioVars, memVars
  <2>4. NothingLeftOver'
    BY <2>2, <2>3 DEF LeftInv, NothingLeftOver
  <2>. QED BY <2>2, <2>4 DEF LeftInv
<1>3. ASSUME NEW d \in Messages, Routed(d) PROVE LeftInv'
  <2>1. CountsOK' /\ counts'.total = counts.total + 1 /\ counts.total \in Nat
    BY <1>3, RoutesCount DEF LeftInv, CountsOK
  <2>2. counts'.total # 0
    BY <2>1
  <2>. QED BY <2>1, <2>2 DEF LeftInv, NothingLeftOver
<1>4. CASE UNCHANGED vars
  BY <1>4 DEF vars, pages, tables, registers, flags, ioVars, memVars, LeftInv, CountsOK,
     NothingLeftOver
<1>. QED BY <1>1, <1>2, <1>3, <1>4, NextCases

(* Once no message is counted, after a reset, no tab shows anything of the *)
(* emulator that was lost.                                                 *)
THEOREM NothingIsLeftOver == Spec => []NothingLeftOver
<1>1. Init => LeftInv
  <2>. SUFFICES ASSUME Init PROVE LeftInv
    OBVIOUS
  <2>1. counts = [total |-> 0, errors |-> 0, cpu |-> 0, mem |-> 0, text |-> 0]
    BY DEF Init, NoCounts
  <2>2. io = EmptyIo /\ memory.lines = <<>>
    BY DEF Init, IoInit, MemInit
  <2>3. NothingLeftOver
    BY <2>2 DEF Init, NothingLeftOver
  <2>. QED BY <2>1, <2>3 DEF LeftInv, CountsOK
<1>2. LeftInv => NothingLeftOver
  BY DEF LeftInv
<1>. QED BY <1>1, <1>2, StepLeftInv, PTL DEF Spec

(***************************************************************************)
(* Data that are kept twice.                                               *)
(***************************************************************************)

LEMMA PutValue ==
  ASSUME NEW K, NEW entries \in Entries(K), UniqueIn(entries),
         NEW key \in K, NEW val \in Vals, NEW max \in Nat, Len(entries) <= max
  PROVE  LET new == PutEntry(entries, key, val, max)
         IN  /\ ValueOf(new, key) \in {NoVal, val}
             /\ \A k : k # key => ValueOf(new, k) = ValueOf(entries, k)
<1>. DEFINE new == PutEntry(entries, key, val, max)
            fits == HeldKey(entries, key) \/ Len(entries) < max
<1>1. \A k : ValueOf(new, k) = IF k = key /\ fits THEN val ELSE ValueOf(entries, k)
  BY PutEntryKeeps
<1>2. ~HeldKey(entries, key) => ValueOf(entries, key) = NoVal
  BY ValueFinds DEF Entries
<1>3. ~fits => ValueOf(entries, key) = NoVal
  BY <1>2
<1>. HIDE DEF new, fits
<1>4. ValueOf(new, key) = IF fits THEN val ELSE ValueOf(entries, key)
  BY <1>1
<1>5. ASSUME NEW k, k # key PROVE ValueOf(new, k) = ValueOf(entries, k)
  BY <1>1, <1>5
<1>6. ValueOf(new, key) \in {NoVal, val}
  BY <1>3, <1>4
<1>. QED BY <1>5, <1>6 DEF new

StateFields == {<<"state", "type">>, <<"state", "cycles">>}

(* Registers and the tables that have a copy of one.                       *)
Copies(v, copy, n) == v # NoVal => copy = Cut[n][v]
RegAgrees ==
  /\ Copies(ValueOf(cpu.entries, <<"stack", "sp">>), cpustack.sp, 8)
  /\ \A f \in StateFields : Copies(ValueOf(cpu.entries, f), info.shown[f], 32)

LEMMA StackSp ==
  ASSUME NEW s, StackOK(s), NEW d
  PROVE  process_cpustack(s, d).sp = IF d.fld = "sp" THEN Cut[8][d.val] ELSE s.sp
<1>1. CASE d.fld = "sp"
  BY <1>1 DEF process_cpustack, StackOK
<1>2. CASE d.fld # "sp" /\ d.fld = "depth"
  BY <1>2 DEF process_cpustack, StackOK
<1>3. CASE d.fld # "sp" /\ d.fld # "depth"
  <2>. DEFINE rows == [s.entries EXCEPT ![d.idx] = PutRow(@, d, 8)]
              count == IF d.idx >= s.entry_count THEN d.idx + 1 ELSE s.entry_count
  <2>1. \/ process_cpustack(s, d) = s
        \/ process_cpustack(s, d)
             = [sp |-> s.sp, depth |-> s.depth, has_data |-> TRUE,
                entry_count |-> count, entries |-> rows]
    BY <1>3 DEF process_cpustack, StackOK
  <2>. HIDE DEF rows, count
  <2>. QED BY <1>3, <2>1
<1>. QED BY <1>1, <1>2, <1>3

LEMMA ShownField ==
  ASSUME NEW i, InfoOK(i), NEW d, NEW secs, NEW f \in StateFields
  PROVE  ShowField(i, d, secs).shown[f]
           = IF d.sec \in secs /\ f = <<d.sec, d.fld>> THEN Cut[32][d.val]
             ELSE i.shown[f]
<1>1. f \in InfoField /\ FieldSize(f) = 32
  BY DEF StateFields, InfoField, FieldSize
<1>2. CASE d.sec \in secs
  <2>. DEFINE shown == [g \in InfoField |->
                          IF g = <<d.sec, d.fld>> THEN Cut[FieldSize(g)][d.val]
                          ELSE i.shown[g]]
  <2>1. ShowField(i, d, secs)
          = [emu_type |-> i.emu_type, emu_version |-> i.emu_version,
             protocol_ver |-> i.protocol_ver, is_connected |-> i.is_connected,
             connected_time |-> i.connected_time, has_data |-> TRUE,
             shown |-> shown]
    BY <1>2 DEF ShowField, InfoOK
  <2>2. ShowField(i, d, secs).shown = shown
    <3>. HIDE DEF shown
    <3>. QED BY <2>1
  <2>. QED BY <1>1, <1>2, <2>2
<1>3. CASE d.sec \notin secs
  BY <1>3 DEF ShowField
<1>. QED BY <1>2, <1>3

(* Nothing but the state of the CPU changes the fields that copy it.       *)
LEMMA StateShown ==
  ASSUME InfoOK(info), NEW d, NEW f \in StateFields
  PROVE  /\ Named(d).shown[f] = info.shown[f]
         /\ process_info_sys(Named(d), d).shown[f] = info.shown[f]
         /\ process_info_mach(Named(d), d).shown[f] = info.shown[f]
         /\ process_info_cpu_state(Named(d), d).shown[f]
              = IF f = <<d.sec, d.fld>> THEN Cut[32][d.val] ELSE info.shown[f]
<1>. DEFINE i == Named(d)
<1>1. InfoOK(i) /\ i.shown = info.shown
  <2>1. i = [info EXCEPT !.emu_type = d.emu]
    BY DEF Named
  <2>2. InfoOK(i)
    BY <2>1, InfoKept
  <2>3. i.shown = info.shown
    BY <2>1 DEF InfoOK
  <2>. QED BY <2>2, <2>3
<1>. HIDE DEF i
<1>2. process_info_sys(i, d).shown = i.shown
  <2>1. CASE d.sec = "conn" /\ d.fld = "hello"
    <3>. DEFINE ver == IF HasVer(d) THEN d.ver ELSE i.protocol_ver
    <3>1. process_info_sys(i, d)
            = [i EXCEPT !.emu_version = Cut[64][d.val], !.connected_time = TRUE,
                        !.protocol_ver = ver, !.is_connected = TRUE, !.has_data = TRUE]
      BY <2>1 DEF process_info_sys
    <3>. HIDE DEF ver
    <3>. QED BY <1>1, <3>1 DEF InfoOK
  <2>2. CASE d.sec = "conn" /\ d.fld = "goodbye"
    BY <1>1, <2>2 DEF process_info_sys, InfoOK
  <2>3. CASE ~(d.sec = "conn" /\ d.fld = "hello") /\ ~(d.sec = "conn" /\ d.fld = "goodbye")
    BY <2>3 DEF process_info_sys
  <2>. QED BY <2>1, <2>2, <2>3
<1>3. /\ process_info_mach(i, d).shown[f]
           = IF d.sec \in {"info", "status", "video"} /\ f = <<d.sec, d.fld>>
             THEN Cut[32][d.val] ELSE i.shown[f]
      /\ process_info_cpu_state(i, d).shown[f]
           = IF d.sec \in {"state"} /\ f = <<d.sec, d.fld>> THEN Cut[32][d.val]
             ELSE i.shown[f]
  BY <1>1, ShownField DEF process_info_mach, process_info_cpu_state
<1>4. f = <<d.sec, d.fld>> => d.sec = "state"
  BY DEF StateFields
<1>5. process_info_mach(i, d).shown[f] = info.shown[f]
  BY <1>1, <1>3, <1>4
<1>6. process_info_cpu_state(i, d).shown[f]
        = IF f = <<d.sec, d.fld>> THEN Cut[32][d.val] ELSE info.shown[f]
  BY <1>1, <1>3, <1>4
<1>. QED BY <1>1, <1>2, <1>5, <1>6 DEF i

LEMMA StepRegAgrees ==
  ASSUME TablesOK, RegAgrees, [Next]_vars PROVE RegAgrees'
<1>1. CASE datastore_clear
  <2>1. cpu'.entries = <<>> /\ ~ \E k : HeldKey(<<>>, k)
    BY <1>1 DEF datastore_clear, EmptyCpu, HeldKey
  <2>2. <<>> \in Seq({}) /\ UniqueIn(<<>>)
    BY DEF UniqueIn
  <2>3. \A k : ValueOf(cpu'.entries, k) = NoVal
    BY <2>1, <2>2, ValueFinds
  <2>. QED BY <2>3 DEF RegAgrees, Copies
<1>2. CASE ParseError
  BY <1>2 DEF ParseError, tables, registers, RegAgrees
<1>3. ASSUME NEW d \in Messages, Routed(d) PROVE RegAgrees'
  <2>0. InfoOK(info) /\ StackOK(cpustack) /\ CpuOK(cpu)
    BY DEF TablesOK
  <2>1. CASE CpuMessage(d)
    <3>. DEFINE key == <<d.sec, d.fld>>
                val == Cut[64][d.val]
                old == cpu.entries
                new == PutEntry(old, key, val, CpuMaxEntries)
    <3>1. /\ key \in RegKey /\ val \in Vals /\ CpuMaxEntries \in Nat
          /\ Cut[8][val] = Cut[8][d.val] /\ Cut[32][val] = Cut[32][d.val]
      BY CutMessage, CutTwice, StoreSizes DEF RegKey
    <3>2. /\ ValueOf(new, key) \in {NoVal, val}
          /\ \A k : k # key => ValueOf(new, k) = ValueOf(old, k)
      <4>. HIDE DEF val
      <4>. QED BY <2>0, <3>1, PutValue DEF CpuOK
    <3>3. cpu'.entries = new
      BY <2>1 DEF CpuMessage, process_cpu
    <3>. HIDE DEF new, old, val
    <3>4. Copies(ValueOf(new, <<"stack", "sp">>), cpustack'.sp, 8)
      <4>1. cpustack'.sp = IF d.sec = "stack" /\ d.fld = "sp" THEN Cut[8][d.val]
                           ELSE cpustack.sp
        BY <2>0, <2>1, StackSp DEF CpuMessage
      <4>2. CASE key = <<"stack", "sp">>
        <5>1. cpustack'.sp = Cut[8][val]
          BY <3>1, <4>1, <4>2
        <5>. QED BY <3>2, <4>2, <5>1 DEF Copies
      <4>3. CASE key # <<"stack", "sp">>
        <5>1. cpustack'.sp = cpustack.sp
          BY <4>1, <4>3
        <5>2. ValueOf(new, <<"stack", "sp">>) = ValueOf(old, <<"stack", "sp">>)
          BY <3>2, <4>3
        <5>. QED BY <5>1, <5>2 DEF RegAgrees, old
      <4>. QED BY <4>2, <4>3
    <3>5. ASSUME NEW f \in StateFields PROVE Copies(ValueOf(new, f), info'.shown[f], 32)
      <4>1. info'.shown[f] = IF f = key THEN Cut[32][d.val] ELSE info.shown[f]
        BY <2>0, <2>1, StateShown DEF CpuMessage
      <4>2. Copies(ValueOf(old, f), info.shown[f], 32)
        BY DEF RegAgrees, old
      <4>. HIDE DEF key
      <4>3. CASE f = key
        <5>1. info'.shown[f] = Cut[32][val]
          BY <3>1, <4>1, <4>3
        <5>. QED BY <3>2, <4>3, <5>1 DEF Copies
      <4>4. CASE f # key
        <5>1. ValueOf(new, f) = ValueOf(old, f)
          BY <3>2, <4>4
        <5>. QED BY <4>1, <4>2, <4>4, <5>1
      <4>. QED BY <4>3, <4>4
    <3>. QED BY <3>3, <3>4, <3>5 DEF RegAgrees
  <2>2. CASE ~CpuMessage(d)
    <3>1. cpu' = cpu /\ cpustack' = cpustack
      BY <1>3, <2>2 DEF Routed, SysMessage, MachMessage, IoTabMessage, PageMessage,
         TextMessage, MemoryMessage, DbgMessage, OtherMessage, tables, registers
    <3>2. \/ info' = Named(d) \/ info' = process_info_sys(Named(d), d)
          \/ info' = process_info_mach(Named(d), d)
      BY <1>3, <2>2 DEF Routed, SysMessage, MachMessage, IoTabMessage, PageMessage,
         TextMessage, MemoryMessage, DbgMessage, OtherMessage
    <3>3. \A f \in StateFields : info'.shown[f] = info.shown[f]
      BY <2>0, <3>2, StateShown
    <3>. QED BY <3>1, <3>3 DEF RegAgrees
  <2>. QED BY <2>1, <2>2
<1>4. CASE UNCHANGED vars
  BY <1>4 DEF vars, tables, registers, RegAgrees
<1>. QED BY <1>1, <1>2, <1>3, <1>4, NextCases

(* The emulators name an annunciator by its index, without an address, and *)
(* the number at the beginning of its value is not cut.                    *)
AnnunciatorsByIndex ==
  \A d \in Messages :
    d.cat = "io" /\ d.sec = "ann" /\ d.fld = "state" =>
      ~HasAddr(d) /\ Atoi[Cut[256][d.val]] = Atoi[d.val]

AnnKey(i) == <<<<"ann", "state">>, i>>
SameNumber(v, state) == v # NoVal => state = Atoi[v] % 256
AnnAgrees ==
  \A i \in DOMAIN annunciator.state :
    SameNumber(ValueOf(io.entries, AnnKey(i)), annunciator.state[i])

(* What an io message does to the values of the IO table.                  *)
LEMMA IoValues ==
  ASSUME IInv, IInv', NEW m \in IoMessage, process_io(m)
  PROVE  /\ ValueOf(io'.entries, make_io_key(m)) = m.val
         /\ \A k : k # make_io_key(m) =>
              ValueOf(io'.entries, k) \in {NoVal, ValueOf(io.entries, k)}
<1>1. PICK i \in Nat : Written(m, i) /\ SlotChoice(m, i)
  BY StoreWrites
<1>. DEFINE old == io.entries
            new == io'.entries
<1>2. /\ old \in Seq(IoEntry) /\ new \in Seq(IoEntry) /\ UniqueIn(old) /\ UniqueIn(new)
  BY DEF IInv, IoShape, IoTypeOK, KeysUnique, UniqueIn
<1>3. /\ i \in DOMAIN new /\ new[i].key = make_io_key(m) /\ new[i].val = m.val
      /\ DOMAIN new = DOMAIN old \union {i}
      /\ \A j \in DOMAIN old \ {i} : new[j] = old[j]
  BY <1>1 DEF Written
<1>. HIDE DEF new, old
<1>4. ValueOf(new, make_io_key(m)) = m.val
  BY <1>2, <1>3, ValueFinds
<1>5. ASSUME NEW k, k # make_io_key(m)
      PROVE  ValueOf(new, k) \in {NoVal, ValueOf(old, k)}
  <2>1. CASE HeldKey(new, k)
    <3>1. PICK j \in DOMAIN new : new[j].key = k
      BY <2>1 DEF HeldKey
    <3>2. j \in DOMAIN old \ {i}
      BY <1>3, <1>5, <3>1
    <3>3. new[j] = old[j]
      BY <1>3, <3>2
    <3>4. ValueOf(new, k) = new[j].val
      BY <1>2, <3>1, ValueFinds
    <3>5. ValueOf(old, k) = old[j].val
      BY <1>2, <3>1, <3>2, <3>3, ValueFinds
    <3>. QED BY <3>3, <3>4, <3>5
  <2>2. CASE ~HeldKey(new, k)
    BY <1>2, <2>2, ValueFinds
  <2>. QED BY <2>1, <2>2
<1>. QED BY <1>4, <1>5 DEF new, old

LEMMA StepAnnAgrees ==
  ASSUME AnnunciatorsByIndex, TablesOK, IInv, IInv', AnnAgrees, [Next]_vars
  PROVE  AnnAgrees'
<1>1. CASE datastore_clear
  <2>1. io'.entries = <<>> /\ ~ \E k : HeldKey(<<>>, k)
    BY <1>1 DEF datastore_clear, ClearIo, datastore_io_clear, EmptyIo, HeldKey
  <2>2. <<>> \in Seq({}) /\ UniqueIn(<<>>)
    BY DEF UniqueIn
  <2>3. \A k : ValueOf(io'.entries, k) = NoVal
    BY <2>1, <2>2, ValueFinds
  <2>. QED BY <2>3 DEF AnnAgrees, SameNumber
<1>2. CASE ParseError
  BY <1>2 DEF ParseError, tables, ioVars, AnnAgrees
<1>3. ASSUME NEW d \in Messages, Routed(d) PROVE AnnAgrees'
  <2>1. CASE IoTabMessage(d)
    <3>. DEFINE m == [sec |-> <<d.sec, d.fld>>, addr |-> d.addr, idx |-> d.idx,
                      val |-> Cut[256][d.val]]
                key == make_io_key(m)
                state == annunciator.state
                new == annunciator'.state
    <3>1. m \in IoMessage /\ process_io(m)
      BY <2>1, IoRoute
    <3>2. key = <<<<d.sec, d.fld>>, IF d.addr # NoLoc THEN d.addr ELSE d.idx>>
      BY DEF make_io_key
    <3>3. /\ ValueOf(io'.entries, key) = Cut[256][d.val]
          /\ \A k : k # key => ValueOf(io'.entries, k) \in {NoVal, ValueOf(io.entries, k)}
      BY <3>1, IoValues
    <3>4. CASE /\ d.sec = "ann" /\ d.fld = "state" /\ HasIdx(d)
               /\ d.idx \in 0..(AnnCount - 1)
      <4>1. /\ new = [state EXCEPT ![d.idx] = Atoi[d.val] % 256]
            /\ Atoi[Cut[256][d.val]] = Atoi[d.val]
        BY <2>1, <3>4 DEF IoTabMessage, process_annunciator, AnnunciatorsByIndex
      <4>2. key = AnnKey(d.idx)
        BY <2>1, <3>2, <3>4 DEF IoTabMessage, AnnunciatorsByIndex, HasAddr, AnnKey
      <4>. HIDE DEF key, m, new
      <4>3. ASSUME NEW i \in DOMAIN state
            PROVE  SameNumber(ValueOf(io'.entries, AnnKey(i)), new[i])
        <5>1. CASE i = d.idx
          BY <3>3, <4>1, <4>2, <5>1 DEF SameNumber
        <5>2. CASE i # d.idx
          <6>1. AnnKey(i) # key /\ new[i] = state[i]
            BY <4>1, <4>2, <5>2 DEF AnnKey
          <6>2. SameNumber(ValueOf(io.entries, AnnKey(i)), state[i])
            BY DEF AnnAgrees
          <6>3. ValueOf(io'.entries, AnnKey(i)) \in {NoVal, ValueOf(io.entries, AnnKey(i))}
            BY <3>3, <6>1
          <6>. QED BY <6>1, <6>2, <6>3 DEF SameNumber
        <5>. QED BY <5>1, <5>2
      <4>4. DOMAIN new = DOMAIN state
        BY <4>1
      <4>. QED BY <4>3, <4>4 DEF AnnAgrees, new
    <3>5. CASE ~(/\ d.sec = "ann" /\ d.fld = "state" /\ HasIdx(d)
                 /\ d.idx \in 0..(AnnCount - 1))
      <4>1. annunciator' = annunciator
        BY <2>1, <3>5 DEF IoTabMessage, process_annunciator
      <4>2. ASSUME NEW i \in DOMAIN state PROVE AnnKey(i) # key
        <5>1. i \in 0..(AnnCount - 1) /\ i \in Nat
          BY DEF TablesOK, AnnOK
        <5>2. i # NoLoc
          BY <5>1, StoreSizes
        <5>. SUFFICES ASSUME AnnKey(i) = key PROVE FALSE
          OBVIOUS
        <5>3. d.sec = "ann" /\ d.fld = "state"
              /\ i = IF d.addr # NoLoc THEN d.addr ELSE d.idx
          BY <3>2 DEF AnnKey
        <5>4. d.addr = NoLoc
          BY <2>1, <5>3 DEF IoTabMessage, AnnunciatorsByIndex, HasAddr
        <5>. QED BY <3>5, <5>1, <5>2, <5>3, <5>4 DEF HasIdx
      <4>. HIDE DEF key, m, new
      <4>3. ASSUME NEW i \in DOMAIN state
            PROVE  SameNumber(ValueOf(io'.entries, AnnKey(i)), state[i])
        <5>1. SameNumber(ValueOf(io.entries, AnnKey(i)), state[i])
          BY DEF AnnAgrees
        <5>2. ValueOf(io'.entries, AnnKey(i)) \in {NoVal, ValueOf(io.entries, AnnKey(i))}
          BY <3>3, <4>2
        <5>. QED BY <5>1, <5>2 DEF SameNumber
      <4>. QED BY <4>1, <4>3 DEF AnnAgrees
    <3>. QED BY <3>4, <3>5
  <2>2. CASE ~IoTabMessage(d)
    <3>1. UNCHANGED <<io, annunciator>>
      BY <1>3, <2>2 DEF Routed, SysMessage, MachMessage, CpuMessage, PageMessage,
         TextMessage, MemoryMessage, DbgMessage, OtherMessage, tables, ioVars
    <3>. QED BY <3>1 DEF AnnAgrees
  <2>. QED BY <2>1, <2>2
<1>4. CASE UNCHANGED vars
  BY <1>4 DEF vars, tables, ioVars, AnnAgrees
<1>. QED BY <1>1, <1>2, <1>3, <1>4, NextCases

(* A datum that is kept twice is the same in both places, up to what each  *)
(* field cuts and the conversion of an annunciator to a number, as long as *)
(* the tables hold it and annunciators come by index.                      *)
THEOREM CopiesStayAgreed == AnnunciatorsByIndex => (Spec => []CopiesAgree)
<1>. SUFFICES ASSUME AnnunciatorsByIndex PROVE Spec => []CopiesAgree
  OBVIOUS
<1>1. Init => RegAgrees /\ AnnAgrees
  <2>. SUFFICES ASSUME Init PROVE RegAgrees /\ AnnAgrees
    OBVIOUS
  <2>1. cpu.entries = <<>> /\ io.entries = <<>> /\ ~ \E k : HeldKey(<<>>, k)
    BY DEF Init, IoInit, EmptyIo, EmptyCpu, HeldKey
  <2>2. <<>> \in Seq({}) /\ UniqueIn(<<>>)
    BY DEF UniqueIn
  <2>3. \A k : ValueOf(<<>>, k) = NoVal
    BY <2>1, <2>2, ValueFinds
  <2>. QED BY <2>1, <2>3 DEF RegAgrees, Copies, AnnAgrees, SameNumber
<1>2. /\ TablesOK /\ RegAgrees /\ [Next]_vars => RegAgrees'
      /\ TablesOK /\ IInv /\ IInv' /\ AnnAgrees /\ [Next]_vars => AnnAgrees'
  BY StepRegAgrees, StepAnnAgrees
<1>3. RegAgrees /\ AnnAgrees => CopiesAgree
  BY DEF RegAgrees, Copies, StateFields, AnnAgrees, SameNumber, AnnKey, CopiesAgree
<1>. QED BY <1>1, <1>2, <1>3, TablesInvariance, ContainsIoTable, Invariance, PTL DEF Spec

(***************************************************************************)
(* The register table and the flag table implement Dictionary.             *)
(***************************************************************************)

LEMMA DictCardinality ==
  \A S : Registers!Cardinality(S) = Cardinality(S) /\ Flags!Cardinality(S) = Cardinality(S)
  BY DEF Registers!Cardinality, Flags!Cardinality, Cardinality

(* There are as many keys as entries.                                      *)
LEMMA EntriesCounted ==
  ASSUME NEW S, NEW entries \in Seq(S), UniqueIn(entries)
  PROVE  Cardinality(DOMAIN AsDict(entries)) = Len(entries)
<1>. DEFINE n == Len(entries)
            Keys == {entries[i].key : i \in DOMAIN entries}
            f == [i \in 1..n |-> entries[i].key]
<1>1. n \in Nat /\ DOMAIN entries = 1..n /\ DOMAIN AsDict(entries) = Keys
  BY DEF AsDict
<1>2. f \in Bijection(1..n, Keys)
  <2>1. f \in [1..n -> Keys]
    BY <1>1
  <2>2. IsInjective(f)
    BY <1>1 DEF IsInjective, UniqueIn
  <2>3. \A t \in Keys : \E m \in 1..n : f[m] = t
    BY <1>1
  <2>. QED BY <2>1, <2>2, <2>3 DEF Bijection, Injection, Surjection
<1>3. ExistsBijection(1..n, Keys)
  BY <1>2 DEF ExistsBijection
<1>. QED BY <1>1, <1>3, FS_CountingElements

DictPut(map, key, val, max) ==
  IF key \in DOMAIN map \/ Cardinality(DOMAIN map) < max
  THEN [x \in DOMAIN map \union {key} |-> IF x = key THEN val ELSE map[x]]
  ELSE map

LEMMA DictStep ==
  ASSUME NEW K, NEW entries \in Entries(K), UniqueIn(entries),
         NEW key \in K, NEW val \in Vals, NEW max \in Nat, Len(entries) <= max
  PROVE  AsDict(PutEntry(entries, key, val, max))
           = DictPut(AsDict(entries), key, val, max)
<1>. DEFINE old == AsDict(entries)
            new == PutEntry(entries, key, val, max)
            fits == HeldKey(entries, key) \/ Len(entries) < max
<1>1. \A e, k : k \in DOMAIN AsDict(e) <=> HeldKey(e, k)
  BY DEF AsDict, HeldKey
<1>2. \A e : AsDict(e) = [k \in DOMAIN AsDict(e) |-> ValueOf(e, k)]
  BY DEF AsDict
<1>3. /\ \A k : HeldKey(new, k) <=> HeldKey(entries, k) \/ (k = key /\ fits)
      /\ \A k : ValueOf(new, k) = IF k = key /\ fits THEN val ELSE ValueOf(entries, k)
  BY PutEntryKeeps
<1>4. fits <=> key \in DOMAIN old \/ Cardinality(DOMAIN old) < max
  BY <1>1, EntriesCounted DEF Entries
<1>5. DOMAIN AsDict(new) = IF fits THEN DOMAIN old \union {key} ELSE DOMAIN old
  <2>1. \A k : k \in DOMAIN AsDict(new) <=> k \in DOMAIN old \/ (k = key /\ fits)
    BY <1>1, <1>3
  <2>. HIDE DEF old, new, fits
  <2>. QED BY <2>1
<1>6. AsDict(new) = [k \in DOMAIN AsDict(new) |-> ValueOf(new, k)]
      /\ old = [k \in DOMAIN old |-> ValueOf(entries, k)]
  BY <1>2
<1>. HIDE DEF old, new, fits
<1>7. CASE fits
  <2>1. AsDict(new) = [x \in DOMAIN old \union {key} |->
                         IF x = key THEN val ELSE old[x]]
    BY <1>3, <1>5, <1>6, <1>7
  <2>. QED BY <1>4, <1>7, <2>1 DEF old, new, DictPut
<1>8. CASE ~fits
  <2>1. AsDict(new) = old
    BY <1>3, <1>5, <1>6, <1>8
  <2>. QED BY <1>4, <1>8, <2>1 DEF old, new, DictPut
<1>. QED BY <1>7, <1>8

LEMMA EmptyDict == AsDict(<<>>) = [k \in {} |-> 0]
  BY DEF AsDict

LEMMA RegistersStep ==
  ASSUME TablesOK, [Next]_vars PROVE [Registers!Next]_(Registers!vars)
<1>1. CASE datastore_clear
  <2>1. cpu'.entries = <<>> /\ cpu_sent' = <<>>
    BY <1>1 DEF datastore_clear, EmptyCpu
  <2>2. Registers!Clear
    BY <2>1, EmptyDict DEF Registers!Clear, Registers!Empty
  <2>. QED BY <2>2 DEF Registers!Next
<1>2. ASSUME NEW d \in Messages, CpuMessage(d) PROVE Registers!Next
  <2>. DEFINE key == <<d.sec, d.fld>>
              val == Cut[64][d.val]
              old == AsDict(cpu.entries)
  <2>1. key \in RegKey /\ val \in Vals /\ CpuMaxEntries \in Nat
    BY CutMessage, StoreSizes DEF RegKey
  <2>2. cpu'.entries = PutEntry(cpu.entries, key, val, CpuMaxEntries)
    BY <1>2 DEF CpuMessage, process_cpu
  <2>3. AsDict(cpu'.entries) = DictPut(old, key, val, CpuMaxEntries)
    <3>1. /\ cpu.entries \in Entries(RegKey) /\ UniqueIn(cpu.entries)
          /\ Len(cpu.entries) <= CpuMaxEntries
      BY DEF TablesOK, CpuOK
    <3>. HIDE DEF key, val
    <3>. QED BY <2>1, <2>2, <3>1, DictStep
  <2>4. cpu_sent' = [k \in DOMAIN cpu_sent \union {key} |->
                       IF k = key THEN val ELSE cpu_sent[k]]
    BY <1>2 DEF CpuMessage, Updated
  <2>5. Registers!Put(key, val)
    <3>. HIDE DEF key, val
    <3>. QED BY <2>3, <2>4, DictCardinality
         DEF Registers!Put, Registers!HasRoom, Registers!With, DictPut
  <2>. QED BY <2>1, <2>5 DEF Registers!Next, RegKey
<1>3. CASE UNCHANGED registers
  BY <1>3 DEF registers, Registers!vars
<1>4. CASE ParseError \/ UNCHANGED vars
  BY <1>3, <1>4 DEF ParseError, vars, tables
<1>5. ASSUME NEW d \in Messages, Routed(d), ~CpuMessage(d) PROVE UNCHANGED registers
  BY <1>5 DEF Routed, SysMessage, MachMessage, IoTabMessage, PageMessage, TextMessage,
     MemoryMessage, DbgMessage, OtherMessage, tables
<1>. QED BY <1>1, <1>2, <1>3, <1>4, <1>5, NextCases

LEMMA FlagsStep ==
  ASSUME TablesOK, [Next]_vars PROVE [Flags!Next]_(Flags!vars)
<1>1. CASE datastore_clear
  <2>1. memflags' = <<>> /\ flag_sent' = <<>>
    BY <1>1 DEF datastore_clear
  <2>2. Flags!Clear
    BY <2>1, EmptyDict DEF Flags!Clear, Flags!Empty
  <2>. QED BY <2>2 DEF Flags!Next
<1>2. ASSUME NEW d \in Messages, PageMessage(d), d.sec = "flag" PROVE Flags!Next
  <2>. DEFINE key == d.fld
              val == Cut[8][d.val]
              old == AsDict(memflags)
  <2>1. key \in FlagKey /\ val \in Vals /\ MaxFlags \in Nat
    BY CutMessage, StoreSizes DEF FlagKey
  <2>2. memflags' = PutEntry(memflags, key, val, MaxFlags)
    BY <1>2 DEF PageMessage, process_memflags
  <2>3. AsDict(memflags') = DictPut(old, key, val, MaxFlags)
    BY <2>1, <2>2, DictStep DEF TablesOK, FlagsOK
  <2>4. flag_sent' = [k \in DOMAIN flag_sent \union {key} |->
                        IF k = key THEN val ELSE flag_sent[k]]
    BY <1>2 DEF PageMessage, Updated
  <2>5. Flags!Put(key, val)
    <3>. HIDE DEF key, val
    <3>. QED BY <2>3, <2>4, DictCardinality
         DEF Flags!Put, Flags!HasRoom, Flags!With, DictPut
  <2>. QED BY <2>1, <2>5 DEF Flags!Next, FlagKey
<1>3. CASE UNCHANGED flags
  BY <1>3 DEF flags, Flags!vars
<1>4. CASE ParseError \/ UNCHANGED vars
  BY <1>3, <1>4 DEF ParseError, vars, pages
<1>5. ASSUME NEW d \in Messages, Routed(d), ~(PageMessage(d) /\ d.sec = "flag")
      PROVE  UNCHANGED flags
  BY <1>5 DEF Routed, SysMessage, MachMessage, CpuMessage, IoTabMessage, PageMessage,
     TextMessage, MemoryMessage, DbgMessage, OtherMessage, pages, flags
<1>. QED BY <1>1, <1>2, <1>3, <1>4, <1>5, NextCases

(* The register table and the flag table hold the last value of each of    *)
(* their keys and never give the place of a key to another.                *)
THEOREM TablesReplace == Spec => TablesReplaced
<1>1. Init => Registers!Init /\ Flags!Init
  <2>. SUFFICES ASSUME Init PROVE Registers!Init /\ Flags!Init
    OBVIOUS
  <2>1. cpu.entries = <<>> /\ cpu_sent = <<>> /\ memflags = <<>> /\ flag_sent = <<>>
    BY DEF Init, EmptyCpu
  <2>. QED BY <2>1, EmptyDict
       DEF Registers!Init, Registers!Empty, Flags!Init, Flags!Empty
<1>. QED BY <1>1, RegistersStep, FlagsStep, TablesInvariance, PTL
     DEF Spec, TablesReplaced, Registers!Spec, Flags!Spec

(***************************************************************************)
(* What the tabs show.                                                     *)
(***************************************************************************)

(* Every place of the list is taken: n entries have n different numbers of *)
(* entries above them, all below n.                                        *)
LEMMA PlacesTaken ==
  ASSUME IInv, FewMessages
  PROVE  LET es == io.entries
             above(i) == Cardinality(EntriesAbove(i))
         IN  /\ \A i \in DOMAIN es : above(i) \in 0..(Len(es) - 1)
             /\ \A i, j \in DOMAIN es : es[i].ts < es[j].ts => above(i) < above(j)
             /\ \A k \in DOMAIN es : \E i \in DOMAIN es : above(i) = k - 1
<1>. DEFINE es == io.entries
            n == Len(es)
            above(i) == Cardinality(EntriesAbove(i))
            f == [i \in 1..n |-> above(i)]
<1>1. /\ n \in Nat /\ DOMAIN es = 1..n
      /\ \A i \in 1..n : es[i].ts \in Nat
      /\ \A i, j \in 1..n : es[i].ts = es[j].ts => i = j
  <2>1. es \in Seq(IoEntry)
    BY DEF IInv, IoShape, IoTypeOK
  <2>2. n \in Nat /\ DOMAIN es = 1..n /\ \A i \in 1..n : es[i] \in IoEntry
    BY <2>1
  <2>3. \A i \in 1..n : es[i].ts \in Nat
    BY <2>2 DEF IoEntry
  <2>. QED BY <2>2, <2>3, StampedOrders DEF StampsUnique
<1>2. IsFiniteSet(1..n) /\ Cardinality(1..n) = n
      /\ IsFiniteSet(0..(n - 1)) /\ Cardinality(0..(n - 1)) = n
  <2>1. IsFiniteSet(1..n) /\ Cardinality(1..n) = IF 1 > n THEN 0 ELSE n - 1 + 1
    BY <1>1, FS_Interval
  <2>2. /\ IsFiniteSet(0..(n - 1))
        /\ Cardinality(0..(n - 1)) = IF 0 > n - 1 THEN 0 ELSE n - 1 - 0 + 1
    <3>1. 0 \in Int /\ n - 1 \in Int
      BY <1>1
    <3>. QED BY <3>1, FS_Interval
  <2>. QED BY <1>1, <2>1, <2>2
<1>3. \A i \in 1..n : EntriesAbove(i) = {j \in 1..n : es[j].ts < es[i].ts}
  BY <1>1, AboveIsEarlier DEF EntriesAbove, MostRecentLast
<1>4. \A i \in 1..n : IsFiniteSet(EntriesAbove(i)) /\ above(i) \in Nat
  <2>. TAKE i \in 1..n
  <2>1. EntriesAbove(i) \in SUBSET (1..n)
    BY <1>3
  <2>. QED BY <1>2, <2>1, FS_Subset, FS_CardinalityType
<1>5. ASSUME NEW i \in 1..n, NEW S \in SUBSET (1..n),
             EntriesAbove(i) \subseteq S, i \in S
      PROVE  IsFiniteSet(S) /\ above(i) < Cardinality(S)
  <2>1. IsFiniteSet(S) /\ Cardinality(S) \in Nat
    BY <1>2, FS_Subset, FS_CardinalityType
  <2>2. EntriesAbove(i) \in SUBSET S /\ i \notin EntriesAbove(i)
    BY <1>1, <1>3, <1>5
  <2>3. EntriesAbove(i) # S
    BY <1>5, <2>2
  <2>. QED BY <1>4, <2>1, <2>2, <2>3, FS_Subset
<1>6. \A i \in 1..n : above(i) \in 0..(n - 1)
  <2>. TAKE i \in 1..n
  <2>1. EntriesAbove(i) \subseteq 1..n
    BY <1>3
  <2>2. above(i) < n
    BY <1>2, <1>5, <2>1
  <2>. QED BY <1>1, <1>4, <2>2
<1>7. ASSUME NEW i \in 1..n, NEW j \in 1..n, es[i].ts < es[j].ts
      PROVE  above(i) < above(j)
  <2>1. EntriesAbove(j) \in SUBSET (1..n) /\ i \in EntriesAbove(j)
        /\ EntriesAbove(i) \subseteq EntriesAbove(j)
    <3>1. es[i].ts \in Nat /\ es[j].ts \in Nat
      BY <1>1
    <3>2. \A k \in 1..n : es[k].ts < es[i].ts => es[k].ts < es[j].ts
      BY <1>1, <1>7, <3>1
    <3>. QED BY <1>3, <1>7, <3>2
  <2>. QED BY <1>5, <2>1
<1>8. \A k \in 1..n : \E i \in 1..n : above(i) = k - 1
  <2>1. f \in [1..n -> 0..(n - 1)]
    BY <1>6
  <2>2. IsInjective(f)
    <3>. SUFFICES ASSUME NEW i \in 1..n, NEW j \in 1..n, f[i] = f[j] PROVE i = j
      BY DEF IsInjective
    <3>1. above(i) = above(j) /\ above(i) \in Nat /\ above(j) \in Nat
      BY <1>4
    <3>2. ~(es[i].ts < es[j].ts) /\ ~(es[j].ts < es[i].ts)
      BY <1>7, <3>1
    <3>. QED BY <1>1, <3>2
  <2>. HIDE DEF f
  <2>3. f \in Surjection(1..n, 0..(n - 1))
    BY <1>2, <2>1, <2>2, FS_Injection DEF Injection
  <2>4. ASSUME NEW k \in 1..n PROVE \E i \in 1..n : f[i] = k - 1
    <3>1. k - 1 \in 0..(n - 1)
      BY <1>1
    <3>. QED BY <2>3, <3>1 DEF Surjection
  <2>. QED BY <2>4 DEF f
<1>. QED BY <1>1, <1>6, <1>7, <1>8

(* So the list has every entry, in the order in which they were sent.      *)
LEMMA SortedFacts ==
  ASSUME IInv, FewMessages
  PROVE  LET es == io.entries
         IN  /\ Sorted \in Seq(IoEntry) /\ Len(Sorted) = Len(es)
             /\ \A k, l \in DOMAIN es : k < l => Sorted[k].ts < Sorted[l].ts
             /\ \A i \in DOMAIN es : \E k \in DOMAIN es : Sorted[k] = es[i]
<1>. DEFINE es == io.entries
            n == Len(es)
            above(i) == Cardinality(EntriesAbove(i))
            Place(k) == CHOOSE i \in DOMAIN es : above(i) = k - 1
<1>1. n \in Nat /\ DOMAIN es = 1..n /\ \A i \in 1..n : es[i] \in IoEntry
  <2>1. es \in Seq(IoEntry)
    BY DEF IInv, IoShape, IoTypeOK
  <2>. QED BY <2>1
<1>2. \A i \in 1..n : es[i].ts \in Nat
  BY <1>1 DEF IoEntry
<1>3. /\ \A i \in 1..n : above(i) \in 0..(n - 1)
      /\ \A i, j \in 1..n : es[i].ts < es[j].ts => above(i) < above(j)
      /\ \A k \in 1..n : \E i \in 1..n : above(i) = k - 1
  BY <1>1, PlacesTaken
<1>4. \A k \in 1..n : Place(k) \in 1..n /\ above(Place(k)) = k - 1
  <2>. HIDE DEF above
  <2>. QED BY <1>1, <1>3
<1>5. Sorted = [k \in 1..n |-> es[Place(k)]]
  BY <1>1 DEF Sorted
<1>. HIDE DEF Place
<1>6. Sorted \in [1..n -> IoEntry] /\ \A k \in 1..n : Sorted[k] = es[Place(k)]
  BY <1>1, <1>4, <1>5
<1>7. Sorted \in Seq(IoEntry) /\ Len(Sorted) = n
  BY <1>1, <1>6
<1>8. ASSUME NEW i \in 1..n, NEW j \in 1..n, above(i) <= above(j), i # j
      PROVE  es[i].ts < es[j].ts
  <2>1. above(i) \in Nat /\ above(j) \in Nat /\ es[i].ts \in Nat /\ es[j].ts \in Nat
    BY <1>1, <1>2, <1>3
  <2>. HIDE DEF above
  <2>2. ~(es[j].ts < es[i].ts)
    <3>. SUFFICES ASSUME es[j].ts < es[i].ts PROVE FALSE
      OBVIOUS
    <3>1. above(j) < above(i)
      BY <1>3
    <3>. QED BY <1>8, <2>1, <3>1
  <2>3. es[i].ts # es[j].ts
    BY <1>1, <1>8, StampedOrders DEF StampsUnique
  <2>. QED BY <2>1, <2>2, <2>3
<1>9. ASSUME NEW k \in 1..n, NEW l \in 1..n, k < l
      PROVE  Sorted[k].ts < Sorted[l].ts
  <2>1. above(Place(k)) = k - 1 /\ above(Place(l)) = l - 1
        /\ Place(k) \in 1..n /\ Place(l) \in 1..n
    BY <1>4
  <2>2. k - 1 <= l - 1 /\ k - 1 # l - 1
    BY <1>1, <1>9
  <2>. HIDE DEF above
  <2>3. Place(k) # Place(l) /\ above(Place(k)) <= above(Place(l))
    BY <2>1, <2>2
  <2>. QED BY <1>6, <1>8, <2>1, <2>3
<1>10. ASSUME NEW i \in 1..n PROVE \E k \in 1..n : Sorted[k] = es[i]
  <2>. DEFINE k == above(i) + 1
  <2>1. above(i) \in 0..(n - 1)
    BY <1>3
  <2>2. k \in 1..n /\ k - 1 = above(i)
    <3>. HIDE DEF above
    <3>. QED BY <1>1, <2>1
  <2>3. Place(k) \in 1..n /\ above(Place(k)) = above(i)
    <3>. HIDE DEF k, above
    <3>. QED BY <1>4, <2>2
  <2>4. Place(k) = i
    <3>. SUFFICES ASSUME Place(k) # i PROVE FALSE
      OBVIOUS
    <3>1. es[i].ts < es[Place(k)].ts /\ es[Place(k)].ts < es[i].ts
      <4>1. above(i) <= above(Place(k)) /\ above(Place(k)) <= above(i)
        BY <2>1, <2>3
      <4>. HIDE DEF above, k
      <4>. QED BY <1>8, <2>3, <4>1
    <3>. QED BY <1>2, <2>3, <3>1
  <2>. HIDE DEF k
  <2>. QED BY <1>6, <2>2, <2>4
<1>. QED BY <1>1, <1>7, <1>9, <1>10

(* Without annunciators the list is shown to its end.                      *)
LEMMA ListRows ==
  ASSUME NEW n \in Nat, NEW h \in {k \in Nat : k > 3}, NEW annunciators, ~annunciators
  PROVE  /\ start_idx(n, h) \in 0..n
         /\ end_idx(n, h, annunciators) = n
         /\ n - start_idx(n, h) = Least(n, h - 3)
         /\ n > 0 => start_idx(n, h) < n
  BY DEF start_idx, end_idx, display_lines, IoTop, Least, Positive

LEMMA ShowsLatest == ASSUME IInv, FewMessages PROVE IoShowsLatest
<1>. SUFFICES ASSUME ~annunciator.has_data, NEW h \in TabHeights
              PROVE  LET shown == IoShown(h)
                     IN  /\ \A i \in 1..Len(shown) - 1 : shown[i].ts < shown[i + 1].ts
                         /\ \A e \in ToSet(io.entries) \ ToSet(shown) :
                              shown # <<>> /\ e.ts < shown[1].ts
                         /\ Len(shown) = Least(Len(io.entries), h - 3)
  BY DEF IoShowsLatest, NewestAtBottom
<1>. DEFINE es == io.entries
            n == Len(es)
            first == start_idx(n, h)
            shown == IoShown(h)
<1>1. /\ Sorted \in Seq(IoEntry) /\ Len(Sorted) = n /\ n \in Nat /\ DOMAIN es = 1..n
      /\ \A k, l \in 1..n : k < l => Sorted[k].ts < Sorted[l].ts
      /\ \A i \in 1..n : \E k \in 1..n : Sorted[k] = es[i]
  <2>1. es \in Seq(IoEntry)
    BY DEF IInv, IoShape, IoTypeOK
  <2>2. n \in Nat /\ DOMAIN es = 1..n
    BY <2>1
  <2>. QED BY <2>2, SortedFacts
<1>2. /\ first \in 0..n /\ end_idx(n, h, annunciator.has_data) = n
      /\ n - first = Least(n, h - 3) /\ (n > 0 => first < n)
  BY <1>1, ListRows, TabSizes
<1>3. shown = SubSeq(Sorted, first + 1, n)
  BY <1>2 DEF IoShown
<1>. HIDE DEF first, shown, n, es
<1>4. /\ Len(shown) = n - first
      /\ \A i \in 1..(n - first) : shown[i] = Sorted[first + i]
      /\ DOMAIN shown = 1..(n - first)
  BY <1>1, <1>2, <1>3
<1>5. ASSUME NEW i \in 1..Len(shown) - 1 PROVE shown[i].ts < shown[i + 1].ts
  <2>1. /\ i \in 1..(n - first) /\ i + 1 \in 1..(n - first)
        /\ first + i \in 1..n /\ first + (i + 1) \in 1..n /\ first + i < first + (i + 1)
    BY <1>1, <1>2, <1>4
  <2>. QED BY <1>1, <1>4, <2>1
<1>6. ASSUME NEW e \in ToSet(es) \ ToSet(shown)
      PROVE  shown # <<>> /\ e.ts < shown[1].ts
  <2>1. PICK i \in 1..n : es[i] = e
    BY <1>1 DEF ToSet
  <2>2. PICK k \in 1..n : Sorted[k] = e
    BY <1>1, <2>1
  <2>3. 1 \in 1..(n - first) /\ first + 1 \in 1..n /\ 1 \in DOMAIN shown
    <3>1. n \in Nat /\ first \in Nat /\ first < n
      BY <1>1, <1>2, <2>1
    <3>2. n - first \in Nat /\ 1 <= n - first /\ first + 1 \in 1..n
      BY ONLY <3>1
    <3>. QED BY <1>4, <3>2
  <2>4. ~(k > first)
    <3>. SUFFICES ASSUME k > first PROVE FALSE
      OBVIOUS
    <3>1. k - first \in 1..(n - first) /\ first + (k - first) = k
      BY <1>1, <1>2
    <3>2. shown[k - first] = e /\ k - first \in DOMAIN shown
      BY <1>4, <2>2, <3>1
    <3>. QED BY <1>6, <3>2 DEF ToSet
  <2>5. k < first + 1
    BY <1>1, <1>2, <2>4
  <2>6. Sorted[k].ts < Sorted[first + 1].ts
    BY <1>1, <2>3, <2>5
  <2>7. shown[1] = Sorted[first + 1]
    BY <1>4, <2>3
  <2>8. shown # <<>>
    BY <2>3
  <2>. QED BY <2>2, <2>6, <2>7, <2>8
<1>. QED BY <1>2, <1>4, <1>5, <1>6 DEF n, es, shown

(* The IO tab shows the entries sent last, in order, in all the rows it    *)
(* has, at every height, as long as no annunciators are above the list and *)
(* the order counter has not overflowed.                                   *)
THEOREM IoTabShowsLatest == FewMessages => (Spec => []IoShowsLatest)
<1>. SUFFICES ASSUME FewMessages PROVE Spec => []IoShowsLatest
  OBVIOUS
<1>1. IInv => IoShowsLatest
  BY ShowsLatest
<1>. QED BY <1>1, ContainsIoTable, Invariance, PTL

(* A section with a heading below row y, of count entries: it ends inside  *)
(* the window and shows an entry.                                          *)
LEMMA SectionFits ==
  ASSUME NEW y \in Nat, NEW h \in Nat, NEW count \in Nat, NEW need \in {4, 5},
         HasRoom(y, need, h)
  PROVE  LET first == y + need - 1
         IN  /\ DetailEnd(first, count, h) \in Nat /\ DetailEnd(first, count, h) <= h
             /\ count > 0 => DetailShown(first, count, h) > 0
  BY LayoutSizes DEF HasRoom, DetailEnd, DetailShown, Least

LEMMA FixedRows == ASSUME TablesOK PROVE Fixed \in Nat /\ InfoFixed \in Nat
<1>1. ASSUME NEW sec PROVE InSection(sec) \in Nat
  <2>1. cpu.entries \in Seq([key: RegKey, val: Vals])
    BY DEF TablesOK, CpuOK, Entries
  <2>2. DOMAIN cpu.entries = 1..Len(cpu.entries) /\ Len(cpu.entries) \in Nat
    BY <2>1
  <2>3. IsFiniteSet(DOMAIN cpu.entries)
    BY <2>2, FS_Interval
  <2>. QED BY <2>3, FS_Subset, FS_CardinalityType DEF InSection
<1>2. \A n \in Nat : RowsOf(n) \in Nat
  BY DEF RowsOf
<1>3. Fixed \in Nat
  BY <1>1, <1>2 DEF Fixed, CpuEnd, NoCpuEnd
<1>4. InfoFixed \in Nat
  BY DEF InfoFixed, InfoEnd
<1>. QED BY <1>3, <1>4

LEMMA AllFits == ASSUME TablesOK PROVE TabsFit
<1>. SUFFICES ASSUME NEW h \in TabHeights
              PROVE  /\ InfoFixed <= h => AfterInfo(h) <= h
                     /\ Fixed <= h => AfterDisasm(h) <= h
                     /\ StackDrawn(h) /\ cpustack.entry_count > 0 =>
                          DetailShown(Fixed + 4, cpustack.entry_count, h) > 0
                     /\ DisasmDrawn(h) =>
                          DetailShown(AfterStack(h) + 3, disasm.count, h) > 0
                     /\ h > 4 => 4 + TextShown(TextRows, h) < h
  BY DEF TabsFit
<1>1. /\ h \in Nat /\ Fixed \in Nat /\ InfoFixed \in Nat /\ TextRows \in Nat
      /\ cpustack.entry_count \in Nat /\ disasm.count \in Nat
  BY TabSizes, StoreSizes, FixedRows DEF TablesOK, StackOK, DisasmOK
<1>2. InfoFixed <= h => AfterInfo(h) <= h
  BY <1>1 DEF AfterInfo, InfoEndWithFlags
<1>3. /\ AfterStack(h) \in Nat /\ (Fixed <= h => AfterStack(h) <= h)
      /\ StackDrawn(h) /\ cpustack.entry_count > 0 =>
           DetailShown(Fixed + 4, cpustack.entry_count, h) > 0
  <2>1. CASE StackDrawn(h)
    <3>1. HasRoom(Fixed, 5, h) /\ AfterStack(h) = DetailEnd(Fixed + 4, cpustack.entry_count, h)
      BY <2>1 DEF StackDrawn, AfterStack
    <3>2. Fixed + 5 - 1 = Fixed + 4
      BY <1>1
    <3>. QED BY <1>1, <3>1, <3>2, SectionFits
  <2>2. CASE ~StackDrawn(h)
    BY <1>1, <2>2 DEF AfterStack
  <2>. QED BY <2>1, <2>2
<1>4. /\ Fixed <= h => AfterDisasm(h) <= h
      /\ DisasmDrawn(h) => DetailShown(AfterStack(h) + 3, disasm.count, h) > 0
  <2>1. CASE DisasmDrawn(h)
    <3>1. /\ HasRoom(AfterStack(h), 4, h) /\ disasm.count > 0
          /\ AfterDisasm(h) = DetailEnd(AfterStack(h) + 3, disasm.count, h)
      BY <2>1 DEF DisasmDrawn, AfterDisasm
    <3>2. AfterStack(h) + 4 - 1 = AfterStack(h) + 3
      BY <1>3
    <3>. QED BY <1>1, <1>3, <3>1, <3>2, SectionFits
  <2>2. CASE ~DisasmDrawn(h)
    BY <1>3, <2>2 DEF AfterDisasm
  <2>. QED BY <2>1, <2>2
<1>5. h > 4 => 4 + TextShown(TextRows, h) < h
  BY <1>1 DEF TextShown, Least, Positive
<1>. QED BY <1>2, <1>3, <1>4, <1>5

(* Where the fixed part of a tab fits the window, so do the optional       *)
(* sections that are drawn below it, and none is a heading without an      *)
(* entry, at every height.                                                 *)
THEOREM OptionalPartsFit == Spec => []TabsFit
<1>1. TablesOK => TabsFit
  BY AllFits
<1>. QED BY <1>1, TablesInvariance, PTL
==============================================================================
