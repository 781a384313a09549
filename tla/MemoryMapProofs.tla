--------------------------- MODULE MemoryMapProofs ---------------------------
(***************************************************************************)
(* Theorems about MemoryMap: for every size of the lines, every capacity,  *)
(* every order of messages and every growth that fails.  The lemmas are    *)
(* about the operators, so that the data store can cite them too.          *)
(***************************************************************************)
EXTENDS MemoryMap, NumberFacts, FiniteSetTheorems, SequenceTheorems, TLAPS

Line == [address: Address, data: [Offsets -> Bytes \union {NoByte}],
         valid_count: 0..BytesPerLine]
Map == [lines: Seq(Line), capacity: Nat, min_addr: Address, max_addr: Address]

Ascending(lines) ==
  \A i, j \in DOMAIN lines : i < j => lines[i].address < lines[j].address
Aligned(lines) == \A i \in DOMAIN lines : lines[i].address % BytesPerLine = 0

Counted(line) ==
  /\ line.valid_count = Cardinality({o \in Offsets : line.data[o] # NoByte})
  /\ line.valid_count > 0

(* What every function on the memory keeps.                                *)
MapOK(mem) ==
  /\ mem \in Map /\ Len(mem.lines) <= mem.capacity
  /\ Ascending(mem.lines) /\ Aligned(mem.lines)
  /\ \A i \in DOMAIN mem.lines : Counted(mem.lines[i])

(***************************************************************************)
(* The binary search.                                                      *)
(***************************************************************************)

(* All lines below the range are lower than la, all above it higher; a     *)
(* line that was found is at low.                                          *)
Narrowed(lines, la, w) ==
  /\ \A i \in 1..(w.low - 1) : lines[i].address < la
  /\ IF w.found
     THEN w.low \in DOMAIN lines /\ lines[w.low].address = la
     ELSE /\ w.low <= w.high + 1
          /\ \A i \in (w.high + 1)..Len(lines) : la < lines[i].address

Windows(lines) == [low: 1..(Len(lines) + 1), high: 0..Len(lines), found: BOOLEAN]

(* A pass keeps that, and unless the line is found the range gets shorter. *)
LEMMA ProbeNarrows ==
  ASSUME NEW lines \in Seq(Line), Ascending(lines), NEW la \in Nat,
         NEW w \in Windows(lines), Narrowed(lines, la, w)
  PROVE  LET v == Probe(lines, la, w)
         IN  /\ Narrowed(lines, la, v)
             /\ v.found \/ v.low > v.high \/ v.high - v.low < w.high - w.low
<1>. DEFINE v == Probe(lines, la, w)
            mid == (w.low + w.high) \div 2
            n == Len(lines)
<1>. SUFFICES /\ Narrowed(lines, la, v)
              /\ v.found \/ v.low > v.high \/ v.high - v.low < w.high - w.low
  OBVIOUS
<1>1. /\ n \in Nat /\ DOMAIN lines = 1..n
      /\ w.low \in 1..(n + 1) /\ w.high \in 0..n /\ w.found \in BOOLEAN
      /\ w = [low |-> w.low, high |-> w.high, found |-> w.found]
      /\ \A i \in 1..n : lines[i].address \in Nat
  <2>1. \A i \in 1..n : lines[i] \in Line
    BY ElementOfSeq
  <2>2. Address \subseteq Nat
    BY MemorySizes DEF Address
  <2>3. \A i \in 1..n : lines[i].address \in Nat
    BY <2>1, <2>2 DEF Line
  <2>. QED BY <2>3 DEF Windows
<1>2. CASE w.found \/ w.low > w.high
  <2>1. v = w
    BY <1>2 DEF Probe
  <2>. QED BY <1>2, <2>1
<1>3. CASE ~w.found /\ w.low <= w.high
  <2>1. mid \in w.low..w.high /\ mid \in 1..n
    BY <1>1, <1>3
  <2>0. v = IF lines[mid].address = la THEN [w EXCEPT !.low = mid, !.found = TRUE]
            ELSE IF lines[mid].address < la THEN [w EXCEPT !.low = mid + 1]
            ELSE [w EXCEPT !.high = mid - 1]
    BY <1>1, <1>3 DEF Probe
  <2>. HIDE DEF mid, v
  <2>2. /\ \A i \in 1..(mid - 1) : lines[i].address < lines[mid].address
        /\ \A i \in (mid + 1)..n : lines[mid].address < lines[i].address
    <3>1. \A i, j \in 1..n : i < j => lines[i].address < lines[j].address
      BY <1>1 DEF Ascending
    <3>. QED BY <2>1, <3>1, n \in Nat
  <2>3. CASE lines[mid].address = la
    <3>1. v.low = mid /\ v.high = w.high /\ v.found = TRUE
      BY <1>1, <1>3, <2>0, <2>1, <2>3
    <3>. QED BY <1>1, <2>1, <2>2, <2>3, <3>1 DEF Narrowed
  <2>4. CASE lines[mid].address < la
    <3>1. v.low = mid + 1 /\ v.high = w.high /\ v.found = FALSE
      BY <1>1, <1>3, <2>0, <2>1, <2>4
    <3>2. \A i \in 1..mid : lines[i].address < la
      BY <1>1, <2>1, <2>2, <2>4
    <3>. QED BY <1>1, <1>3, <2>1, <3>1, <3>2 DEF Narrowed
  <2>5. CASE lines[mid].address > la
    <3>1. v.low = w.low /\ v.high = mid - 1 /\ v.found = FALSE
      BY <1>1, <1>3, <2>0, <2>1, <2>5
    <3>2. \A i \in mid..n : la < lines[i].address
      BY <1>1, <2>1, <2>2, <2>5
    <3>. QED BY <1>1, <1>3, <2>1, <3>1, <3>2 DEF Narrowed
  <2>. QED BY <1>1, <2>1, <2>3, <2>4, <2>5
<1>. QED BY <1>1, <1>2, <1>3

LEMMA ProbeType ==
  ASSUME NEW lines \in Seq(Line), NEW la, NEW w \in Windows(lines)
  PROVE  Probe(lines, la, w) \in Windows(lines)
<1>. DEFINE mid == (w.low + w.high) \div 2
<1>1. /\ w.low \in 1..(Len(lines) + 1) /\ w.high \in 0..Len(lines)
      /\ w.found \in BOOLEAN /\ Len(lines) \in Nat
  BY DEF Windows
<1>2. CASE w.found \/ w.low > w.high
  BY <1>2 DEF Probe
<1>3. CASE ~w.found /\ w.low <= w.high
  <2>1. mid \in 1..Len(lines)
    BY <1>1, <1>3
  <2>2. Probe(lines, la, w)
          = IF lines[mid].address = la THEN [w EXCEPT !.low = mid, !.found = TRUE]
            ELSE IF lines[mid].address < la THEN [w EXCEPT !.low = mid + 1]
            ELSE [w EXCEPT !.high = mid - 1]
    BY <1>1, <1>3 DEF Probe
  <2>. HIDE DEF mid
  <2>3. mid + 1 \in 1..(Len(lines) + 1) /\ mid - 1 \in 0..Len(lines)
        /\ mid \in 1..(Len(lines) + 1)
    BY <1>1, <2>1
  <2>. QED BY <2>2, <2>3 DEF Windows
<1>. QED BY <1>1, <1>2, <1>3

Start(lines) == [low |-> 1, high |-> Len(lines), found |-> FALSE]

(* The passes of Search as a function that satisfies its equation.         *)
LEMMA PassesDefined ==
  ASSUME NEW lines \in Seq(Line), NEW la
  PROVE  LET pass[k \in 0..Len(lines)] ==
               IF k = 0 THEN Start(lines) ELSE Probe(lines, la, pass[k - 1])
         IN  pass = [k \in 0..Len(lines) |->
                       IF k = 0 THEN Start(lines) ELSE Probe(lines, la, pass[k - 1])]
<1>. DEFINE n == Len(lines)
            W == Windows(lines)
            step == [k \in 1..n |-> [w \in W |-> Probe(lines, la, w)]]
            pass[k \in 0..n] ==
              IF k = 0 THEN Start(lines) ELSE Probe(lines, la, pass[k - 1])
<1>1. n \in Nat
  OBVIOUS
<1>2. Start(lines) \in W
  BY <1>1 DEF Start, Windows
<1>3. step \in [1..n -> [W -> W]]
  BY ProbeType
<1>. HIDE DEF W
<1>4. Loop(n, W, Start(lines), step)
  BY <1>1, <1>2, <1>3 DEF Loop
<1>5. PICK g : Runs(g, n, W, Start(lines), step)
  <2>. HIDE DEF step
  <2>. QED BY <1>4, LoopExists
<1>6. g = [k \in 0..n |-> IF k = 0 THEN Start(lines) ELSE Probe(lines, la, g[k - 1])]
  <2>1. g \in [0..n -> W] /\ g[0] = Start(lines)
    BY <1>5 DEF Runs
  <2>2. ASSUME NEW k \in 1..n PROVE g[k] = Probe(lines, la, g[k - 1])
    <3>1. k - 1 \in 0..n
      BY <1>1
    <3>2. g[k - 1] \in W
      BY <2>1, <3>1
    <3>3. g[k] = step[k][g[k - 1]]
      BY <1>5 DEF Runs
    <3>. QED BY <3>2, <3>3
  <2>3. ASSUME NEW k \in 0..n
        PROVE  g[k] = IF k = 0 THEN Start(lines) ELSE Probe(lines, la, g[k - 1])
    <3>1. k = 0 \/ k \in 1..n
      BY <1>1
    <3>. QED BY <2>1, <2>2, <3>1
  <2>. QED BY <2>1, <2>3
<1>. QED BY <1>6

(* Search finds the line of an address, or the place where it belongs.     *)
LEMMA SearchFinds ==
  ASSUME NEW lines \in Seq(Line), Ascending(lines), NEW la \in Nat
  PROVE  LET slot == Search(lines, la)
         IN  /\ slot.at \in 1..(Len(lines) + 1)
             /\ \A i \in 1..(slot.at - 1) : lines[i].address < la
             /\ IF slot.found
                THEN slot.at \in DOMAIN lines /\ lines[slot.at].address = la
                ELSE \A i \in slot.at..Len(lines) : la < lines[i].address
<1>. DEFINE n == Len(lines)
            pass[k \in 0..n] ==
              IF k = 0 THEN Start(lines) ELSE Probe(lines, la, pass[k - 1])
            Good == {k \in 0..n :
                       /\ pass[k] \in Windows(lines) /\ Narrowed(lines, la, pass[k])
                       /\ \/ pass[k].found \/ pass[k].low > pass[k].high
                          \/ pass[k].high - pass[k].low + 1 <= n - k}
<1>1. n \in Nat /\ DOMAIN lines = 1..n
  OBVIOUS
<1>2. Search(lines, la) = [found |-> pass[n].found, at |-> pass[n].low]
  BY DEF Search, Start
<1>3. pass = [k \in 0..n |->
                IF k = 0 THEN Start(lines) ELSE Probe(lines, la, pass[k - 1])]
  BY PassesDefined
<1>. HIDE DEF pass
<1>4. 0 \in Good
  <2>1. pass[0] = Start(lines)
    BY <1>1, <1>3
  <2>2. pass[0] \in Windows(lines)
    BY <1>1, <2>1 DEF Start, Windows
  <2>3. /\ pass[0].low = 1 /\ pass[0].high = n /\ pass[0].found = FALSE
    BY <2>1 DEF Start
  <2>4. Narrowed(lines, la, pass[0])
    BY <1>1, <2>3 DEF Narrowed
  <2>. QED BY <1>1, <2>2, <2>3, <2>4
<1>5. ASSUME NEW k \in 0..(n - 1), k \in Good PROVE k + 1 \in Good
  <2>1. k \in 0..n /\ k + 1 \in 0..n /\ k + 1 # 0 /\ (k + 1) - 1 = k
    BY <1>1
  <2>2. pass[k + 1] = Probe(lines, la, pass[k])
    BY <1>3, <2>1
  <2>3. pass[k] \in Windows(lines) /\ Narrowed(lines, la, pass[k])
    BY <1>5
  <2>4. pass[k + 1] \in Windows(lines)
    BY <2>2, <2>3, ProbeType
  <2>. DEFINE w == pass[k]
              v == pass[k + 1]
  <2>5. /\ Narrowed(lines, la, v)
        /\ v.found \/ v.low > v.high \/ v.high - v.low < w.high - w.low
    BY <2>2, <2>3, ProbeNarrows
  <2>6. /\ w.low \in Nat /\ w.high \in Nat /\ v.low \in Nat /\ v.high \in Nat
    BY <2>3, <2>4 DEF Windows
  <2>7. w.found \/ w.low > w.high \/ w.high - w.low + 1 <= n - k
    BY <1>5
  <2>8. w.found \/ w.low > w.high => v = w
    BY <2>2 DEF Probe
  <2>9. v.found \/ v.low > v.high \/ v.high - v.low + 1 <= n - (k + 1)
    <3>1. CASE w.found \/ w.low > w.high
      BY <2>8, <3>1
    <3>2. CASE ~w.found /\ ~(w.low > w.high)
      <4>1. w.high - w.low + 1 <= n - k
        BY <2>7, <3>2
      <4>. HIDE DEF v, w
      <4>. QED BY <1>1, <2>1, <2>5, <2>6, <4>1
    <3>. QED BY <3>1, <3>2
  <2>. QED BY <2>1, <2>4, <2>5, <2>9
<1>6. n \in Good
  <2>. HIDE DEF Good
  <2>1. \A k \in 0..n : k \in Good
    BY <1>1, <1>4, <1>5, UpTo
  <2>. QED BY <1>1, <2>1
<1>7. /\ pass[n].low \in 1..(n + 1) /\ pass[n].high \in 0..n
      /\ pass[n].found \in BOOLEAN /\ Narrowed(lines, la, pass[n])
      /\ pass[n].found \/ pass[n].low > pass[n].high
  BY <1>1, <1>6 DEF Windows
<1>. QED BY <1>1, <1>2, <1>7 DEF Narrowed

(***************************************************************************)
(* Lines, offsets, capacity.                                               *)
(***************************************************************************)

LEMMA LineOfAddress ==
  ASSUME NEW a \in Address
  PROVE  /\ line_addr(a) \in Address /\ line_addr(a) % BytesPerLine = 0
         /\ a % BytesPerLine \in Offsets
         /\ a = line_addr(a) + (a % BytesPerLine)
<1>. DEFINE q == a \div BytesPerLine
<1>1. a \in Nat /\ BytesPerLine \in Nat \ {0} /\ AddrSpace \in Nat
  BY MemorySizes DEF Address
<1>2. q \in Nat /\ a % BytesPerLine \in Offsets /\ a = q * BytesPerLine + (a % BytesPerLine)
  BY <1>1, Division DEF Offsets
<1>3. (q * BytesPerLine + 0) % BytesPerLine = 0
  <2>1. 0 \in 0..(BytesPerLine - 1)
    BY <1>1
  <2>. HIDE DEF q
  <2>. QED BY <1>1, <1>2, <2>1, DivisionUnique
<1>4. q * BytesPerLine \in Nat
  BY <1>1, <1>2
<1>5. line_addr(a) = q * BytesPerLine
  BY DEF line_addr
<1>. HIDE DEF q
<1>6. line_addr(a) \in Nat /\ line_addr(a) + 0 = line_addr(a)
  BY <1>4, <1>5
<1>7. line_addr(a) <= a /\ a < AddrSpace
  BY <1>1, <1>2, <1>5, <1>6 DEF Offsets, Address
<1>. QED BY <1>1, <1>2, <1>3, <1>5, <1>6, <1>7 DEF Address

LEMMA AddressOfLine ==
  ASSUME NEW la \in Address, la % BytesPerLine = 0, NEW o \in Offsets
  PROVE  /\ la + o \in Address /\ line_addr(la + o) = la
         /\ (la + o) % BytesPerLine = o
<1>. DEFINE q == la \div BytesPerLine
<1>1. /\ la \in Nat /\ BytesPerLine \in Nat \ {0} /\ AddrSpace \in Nat
      /\ AddrSpace % BytesPerLine = 0 /\ o \in 0..(BytesPerLine - 1) /\ la < AddrSpace
  BY MemorySizes DEF Address, Offsets
<1>2. q \in Nat /\ la = q * BytesPerLine
  <2>1. q \in Nat /\ la = q * BytesPerLine + (la % BytesPerLine)
    BY <1>1, Division
  <2>2. q * BytesPerLine \in Nat
    BY <1>1, <2>1
  <2>. HIDE DEF q
  <2>. QED BY <2>1, <2>2
<1>3. (q * BytesPerLine + o) \div BytesPerLine = q
      /\ (q * BytesPerLine + o) % BytesPerLine = o
  BY <1>1, <1>2, DivisionUnique
<1>4. la + BytesPerLine <= AddrSpace
  BY <1>1, MultiplesApart
<1>5. (la + o) \div BytesPerLine = q /\ (la + o) % BytesPerLine = o
  BY <1>2, <1>3
<1>6. line_addr(la + o) = la
  BY <1>2, <1>5 DEF line_addr
<1>. QED BY <1>1, <1>4, <1>5, <1>6 DEF Address

(* The array has room for one more line after realloc().                   *)
LEMMA GrownFits ==
  ASSUME NEW capacity \in Nat, NEW needed \in Nat, needed <= capacity + 1
  PROVE  Grown(capacity, needed) \in Nat /\ needed <= Grown(capacity, needed)
<1>. DEFINE first == IF capacity = 0 THEN InitialCapacity ELSE capacity * 2
            Sizes == {c \in {first * 2^k : k \in 0..needed} : c >= needed}
<1>1. first \in Nat /\ needed <= first
  BY MemorySizes
<1>2. CASE needed <= capacity
  BY <1>2 DEF Grown
<1>3. CASE ~(needed <= capacity)
  <2>1. \A k \in Nat : 2^k \in Nat
    <3>. SUFFICES ASSUME NEW k \in Nat PROVE 2^k \in Nat
      OBVIOUS
    <3>1. IsFiniteSet(1..k) /\ Cardinality(1..k) = k
      BY FS_Interval
    <3>2. IsFiniteSet(SUBSET (1..k)) /\ Cardinality(SUBSET (1..k)) = 2^k
      BY <3>1, FS_SUBSET
    <3>. QED BY <3>2, FS_CardinalityType
  <2>2. 2^0 = 1
    <3>1. IsFiniteSet({}) /\ Cardinality({}) = 0
      BY FS_EmptySet
    <3>2. Cardinality(SUBSET {}) = 2^0
      BY <3>1, FS_SUBSET
    <3>. QED BY <3>2, FS_Singleton
  <2>. HIDE DEF first
  <2>3. Sizes \subseteq Nat
    BY <1>1, <2>1
  <2>4. first \in Sizes
    <3>1. first = first * 2^0 /\ 0 \in 0..needed
      BY <1>1, <2>2
    <3>. QED BY <1>1, <3>1
  <2>5. \E m \in Sizes : \A k \in Sizes : m <= k
    BY <2>3, <2>4, LeastNat
  <2>6. Min(Sizes) \in Sizes
    BY <2>5 DEF Min
  <2>7. Grown(capacity, needed) = Min(Sizes)
    BY <1>3 DEF Grown, first
  <2>. QED BY <2>3, <2>6, <2>7
<1>. QED BY <1>2, <1>3

(* What InsertAt does.                                                     *)
Inserted(t, s, k, e) ==
  /\ Len(t) = Len(s) + 1
  /\ \A i \in 1..(Len(s) + 1) :
       t[i] = IF i < k THEN s[i] ELSE IF i = k THEN e ELSE s[i - 1]

LEMMA InsertProperties ==
  ASSUME NEW S, NEW s \in Seq(S), NEW k \in 1..(Len(s) + 1), NEW e \in S
  PROVE  InsertAt(s, k, e) \in Seq(S) /\ Inserted(InsertAt(s, k, e), s, k, e)
<1>. DEFINE n == Len(s)
            low == SubSeq(s, 1, k - 1)
            high == SubSeq(s, k, n)
            front == low \o <<e>>
<1>1. n \in Nat /\ k \in Nat /\ 1 <= k /\ k <= n + 1
  OBVIOUS
<1>2. /\ low \in Seq(S) /\ Len(low) = k - 1
      /\ \A i \in 1..(k - 1) : low[i] = s[i]
  <2>1. \A i \in 1..(k - 1) : s[i] \in S
    BY <1>1, ElementOfSeq
  <2>. QED BY <1>1, <2>1, SubSeqProperties
<1>3. /\ high \in Seq(S) /\ Len(high) = n - k + 1
      /\ \A i \in 1..(n - k + 1) : high[i] = s[k + i - 1]
  <2>1. \A i \in k..n : s[i] \in S
    BY <1>1, ElementOfSeq
  <2>. QED BY <1>1, <2>1, SubSeqProperties
<1>4. <<e>> \in Seq(S) /\ Len(<<e>>) = 1 /\ <<e>>[1] = e
  OBVIOUS
<1>. HIDE DEF low, high
<1>5. /\ front \in Seq(S) /\ Len(front) = k
      /\ \A i \in 1..k : front[i] = IF i < k THEN s[i] ELSE e
  <2>1. /\ front \in Seq(S) /\ Len(front) = (k - 1) + 1
        /\ \A i \in 1..((k - 1) + 1) :
             front[i] = IF i <= k - 1 THEN low[i] ELSE <<e>>[i - (k - 1)]
    BY <1>2, <1>4, ConcatProperties
  <2>. QED BY <1>1, <1>2, <1>4, <2>1
<1>. HIDE DEF front
<1>6. /\ front \o high \in Seq(S) /\ Len(front \o high) = k + (n - k + 1)
      /\ \A i \in 1..(k + (n - k + 1)) :
           (front \o high)[i] = IF i <= k THEN front[i] ELSE high[i - k]
  BY <1>3, <1>5, ConcatProperties
<1>7. InsertAt(s, k, e) = front \o high
  BY DEF InsertAt, front, low, high
<1>8. k + (n - k + 1) = n + 1
  BY <1>1
<1>9. ASSUME NEW i \in 1..(n + 1)
      PROVE  (front \o high)[i]
               = IF i < k THEN s[i] ELSE IF i = k THEN e ELSE s[i - 1]
  <2>1. CASE i <= k
    <3>1. i \in 1..k
      BY <1>1, <2>1
    <3>. QED BY <1>1, <1>5, <1>6, <1>8, <2>1, <3>1
  <2>2. CASE i > k
    <3>1. i - k \in 1..(n - k + 1) /\ k + (i - k) - 1 = i - 1
      BY <1>1, <2>2
    <3>2. high[i - k] = s[i - 1]
      BY <1>3, <3>1
    <3>. QED BY <1>1, <1>6, <1>8, <2>2, <3>2
  <2>3. i <= k \/ i > k
    BY <1>1
  <2>. QED BY <2>1, <2>2, <2>3
<1>. QED BY <1>6, <1>7, <1>8, <1>9 DEF Inserted

(* A byte stored in a line whose count is right; the line may be empty.    *)
LEMMA StoreCounts ==
  ASSUME NEW line \in Line, NEW o \in Offsets, NEW b \in Bytes,
         line.valid_count = Cardinality({p \in Offsets : line.data[p] # NoByte})
  PROVE  LET stored == StoreByte(line, o, b)
         IN  /\ stored \in Line /\ Counted(stored)
             /\ stored.address = line.address
             /\ stored.data = [line.data EXCEPT ![o] = b]
<1>. DEFINE stored == StoreByte(line, o, b)
            Known == {p \in Offsets : line.data[p] # NoByte}
            After == {p \in Offsets : stored.data[p] # NoByte}
<1>. SUFFICES /\ stored \in Line /\ Counted(stored)
              /\ stored.address = line.address
              /\ stored.data = [line.data EXCEPT ![o] = b]
  OBVIOUS
<1>1. NoByte \notin Bytes /\ BytesPerLine \in Nat \ {0}
  BY MemorySizes
<1>2. /\ line.data \in [Offsets -> Bytes \union {NoByte}]
      /\ line.valid_count \in 0..BytesPerLine /\ line.address \in Address
      /\ line = [address |-> line.address, data |-> line.data,
                 valid_count |-> line.valid_count]
  BY DEF Line
<1>3. /\ stored.address = line.address
      /\ stored.data = [line.data EXCEPT ![o] = b]
      /\ stored.valid_count = IF line.data[o] = NoByte THEN line.valid_count + 1
                              ELSE line.valid_count
      /\ stored = [address |-> stored.address, data |-> stored.data,
                   valid_count |-> stored.valid_count]
  <2>. DEFINE count == IF line.data[o] = NoByte THEN line.valid_count + 1
                       ELSE line.valid_count
  <2>1. stored = [line EXCEPT !.data[o] = b, !.valid_count = count]
    BY DEF StoreByte
  <2>. HIDE DEF stored, count
  <2>2. stored = [address |-> line.address, data |-> [line.data EXCEPT ![o] = b],
                  valid_count |-> count]
    BY <1>2, <2>1
  <2>. QED BY <2>2 DEF count
<1>. HIDE DEF stored
<1>4. stored.data \in [Offsets -> Bytes \union {NoByte}]
  BY <1>2, <1>3
<1>5. After = Known \union {o}
  BY <1>1, <1>2, <1>3
<1>6. /\ IsFiniteSet(Offsets) /\ Cardinality(Offsets) = BytesPerLine
      /\ IsFiniteSet(Known) /\ IsFiniteSet(After)
      /\ Cardinality(After) <= BytesPerLine
  <2>1. IsFiniteSet(Offsets) /\ Cardinality(Offsets) = BytesPerLine
    BY <1>1, FS_Interval DEF Offsets
  <2>2. Known \in SUBSET Offsets /\ After \in SUBSET Offsets
    OBVIOUS
  <2>. HIDE DEF Known, After
  <2>. QED BY <2>1, <2>2, FS_Subset
<1>7. Cardinality(Known \union {o})
        = IF o \in Known THEN Cardinality(Known) ELSE Cardinality(Known) + 1
  <2>. HIDE DEF Known
  <2>. QED BY <1>6, FS_AddElement
<1>8. o \in Known <=> line.data[o] # NoByte
  OBVIOUS
<1>9. stored.valid_count = Cardinality(After)
  BY <1>3, <1>5, <1>7, <1>8
<1>10. Cardinality(After) \in Nat /\ Cardinality(After) # 0
  <2>1. After # {}
    BY <1>5
  <2>. HIDE DEF After
  <2>. QED BY <1>6, <2>1, FS_CardinalityType, FS_EmptySet
<1>11. stored \in Line
  BY <1>1, <1>2, <1>3, <1>4, <1>6, <1>9, <1>10 DEF Line
<1>. QED BY <1>3, <1>9, <1>10, <1>11 DEF Counted

(***************************************************************************)
(* What the lines say about an address.                                    *)
(***************************************************************************)

HasLine(lines, a) == \E i \in DOMAIN lines : lines[i].address = line_addr(a)
Datum(lines, a) ==
  IF HasLine(lines, a)
  THEN lines[CHOOSE i \in DOMAIN lines : lines[i].address = line_addr(a)]
         .data[a % BytesPerLine]
  ELSE NoByte

LEMMA LineTypes ==
  ASSUME NEW lines \in Seq(Line)
  PROVE  /\ Len(lines) \in Nat /\ DOMAIN lines = 1..Len(lines)
         /\ \A i \in 1..Len(lines) :
              /\ lines[i] \in Line /\ lines[i].address \in Address
              /\ lines[i].address \in Nat
              /\ lines[i].data \in [Offsets -> Bytes \union {NoByte}]
              /\ lines[i].valid_count \in 0..BytesPerLine
<1>1. \A i \in 1..Len(lines) : lines[i] \in Line
  BY ElementOfSeq
<1>2. Address \subseteq Nat
  BY MemorySizes DEF Address
<1>3. \A l \in Line : /\ l.address \in Address
                     /\ l.data \in [Offsets -> Bytes \union {NoByte}]
                     /\ l.valid_count \in 0..BytesPerLine
  BY DEF Line
<1>4. Len(lines) \in Nat /\ DOMAIN lines = 1..Len(lines)
  OBVIOUS
<1>. HIDE DEF Line
<1>. QED BY <1>1, <1>2, <1>3, <1>4

LEMMA OneLine ==
  ASSUME NEW lines \in Seq(Line), Ascending(lines),
         NEW i \in DOMAIN lines, NEW j \in DOMAIN lines,
         lines[i].address = lines[j].address
  PROVE  i = j
<1>1. /\ i \in Nat /\ j \in Nat
      /\ lines[i].address \in Nat /\ lines[j].address \in Nat
  BY LineTypes
<1>2. ~(i < j) /\ ~(j < i)
  BY <1>1 DEF Ascending
<1>. QED BY <1>1, <1>2

LEMMA DatumAt ==
  ASSUME NEW lines \in Seq(Line), Ascending(lines), NEW i \in DOMAIN lines,
         NEW a, lines[i].address = line_addr(a)
  PROVE  HasLine(lines, a) /\ Datum(lines, a) = lines[i].data[a % BytesPerLine]
<1>. DEFINE c == CHOOSE j \in DOMAIN lines : lines[j].address = line_addr(a)
<1>1. c \in DOMAIN lines /\ lines[c].address = line_addr(a)
  OBVIOUS
<1>. HIDE DEF c
<1>2. c = i
  BY <1>1, OneLine
<1>3. HasLine(lines, a)
  BY DEF HasLine
<1>. QED BY <1>2, <1>3 DEF Datum, c

(* The lines with a place for la: Search gives it, or it is inserted.      *)
WithPlace(lines, la) ==
  LET slot == Search(lines, la)
  IN  IF slot.found THEN lines ELSE InsertAt(lines, slot.at, EmptyLine(la))

Right(line) ==
  line.valid_count = Cardinality({o \in Offsets : line.data[o] # NoByte})

LEMMA EmptyLineFacts ==
  ASSUME NEW la \in Address
  PROVE  /\ EmptyLine(la) \in Line /\ Right(EmptyLine(la))
         /\ EmptyLine(la).address = la
         /\ \A o \in Offsets : EmptyLine(la).data[o] = NoByte
<1>1. /\ EmptyLine(la).address = la /\ EmptyLine(la).valid_count = 0
      /\ EmptyLine(la).data = [o \in Offsets |-> NoByte]
  BY DEF EmptyLine, Offsets
<1>2. {o \in Offsets : EmptyLine(la).data[o] # NoByte} = {}
  BY <1>1
<1>3. Right(EmptyLine(la))
  BY <1>1, <1>2, FS_EmptySet DEF Right
<1>4. 0 \in 0..BytesPerLine
  BY MemorySizes
<1>5. EmptyLine(la) \in Line
  BY <1>1, <1>4 DEF EmptyLine, Line, Offsets
<1>. QED BY <1>1, <1>3, <1>5

(* A place for la is made where it belongs, and no byte gets known by it.  *)
LEMMA PlaceMade ==
  ASSUME NEW lines \in Seq(Line), Ascending(lines), Aligned(lines),
         \A i \in DOMAIN lines : Counted(lines[i]),
         NEW la \in Address, la % BytesPerLine = 0
  PROVE  LET held == WithPlace(lines, la)
             slot == Search(lines, la)
         IN  /\ held \in Seq(Line) /\ Ascending(held) /\ Aligned(held)
             /\ Len(held) = IF slot.found THEN Len(lines) ELSE Len(lines) + 1
             /\ slot.at \in DOMAIN held /\ held[slot.at].address = la
             /\ Right(held[slot.at])
             /\ \A i \in DOMAIN held : i # slot.at => Counted(held[i])
             /\ \A x \in Address :
                  /\ HasLine(held, x) <=> HasLine(lines, x) \/ line_addr(x) = la
                  /\ Datum(held, x) = Datum(lines, x)
             /\ slot.found <=> \E i \in DOMAIN lines : lines[i].address = la
<1>. DEFINE held == WithPlace(lines, la)
            found == Search(lines, la).found
            at == Search(lines, la).at
            n == Len(lines)
<1>. SUFFICES /\ held \in Seq(Line) /\ Ascending(held) /\ Aligned(held)
              /\ Len(held) = IF found THEN n ELSE n + 1
              /\ at \in DOMAIN held /\ held[at].address = la
              /\ Right(held[at])
              /\ \A i \in DOMAIN held : i # at => Counted(held[i])
              /\ \A x \in Address :
                   /\ HasLine(held, x) <=> HasLine(lines, x) \/ line_addr(x) = la
                   /\ Datum(held, x) = Datum(lines, x)
              /\ found <=> \E i \in DOMAIN lines : lines[i].address = la
  OBVIOUS
<1>1. /\ n \in Nat /\ DOMAIN lines = 1..n /\ la \in Nat
      /\ \A i \in 1..n : lines[i] \in Line /\ lines[i].address \in Nat
  BY LineTypes, MemorySizes DEF Address
<1>2. /\ at \in 1..(n + 1)
      /\ \A i \in 1..(at - 1) : lines[i].address < la
      /\ IF found THEN at \in DOMAIN lines /\ lines[at].address = la
         ELSE \A i \in at..n : la < lines[i].address
  BY <1>1, SearchFinds
<1>3. held = IF found THEN lines ELSE InsertAt(lines, at, EmptyLine(la))
  BY DEF WithPlace
<1>. HIDE DEF held, found, at, n
<1>4. CASE found
  <2>1. held = lines /\ at \in DOMAIN lines /\ lines[at].address = la
    BY <1>2, <1>3, <1>4
  <2>2. Right(held[at])
    BY <2>1 DEF Counted, Right
  <2>3. \A x \in Address : line_addr(x) = la => HasLine(lines, x)
    BY <2>1 DEF HasLine
  <2>. QED BY <1>4, <2>1, <2>2, <2>3 DEF n
<1>5. CASE ~found
  <2>. DEFINE e == EmptyLine(la)
  <2>1. /\ e \in Line /\ Right(e) /\ e.address = la
        /\ \A o \in Offsets : e.data[o] = NoByte
    BY EmptyLineFacts
  <2>. HIDE DEF e
  <2>2. /\ held \in Seq(Line) /\ Len(held) = n + 1
        /\ \A i \in 1..(n + 1) :
             held[i] = IF i < at THEN lines[i] ELSE IF i = at THEN e
                       ELSE lines[i - 1]
    <3>1. held = InsertAt(lines, at, e) /\ at \in 1..(Len(lines) + 1)
      BY <1>2, <1>3, <1>5 DEF n, e
    <3>2. InsertAt(lines, at, e) \in Seq(Line)
          /\ Inserted(InsertAt(lines, at, e), lines, at, e)
      BY <2>1, <3>1, InsertProperties
    <3>. QED BY <3>1, <3>2 DEF n, Inserted
  <2>3. DOMAIN held = 1..(n + 1) /\ at \in DOMAIN held /\ held[at] = e
    BY <1>1, <1>2, <2>2
  <2>4. \A i \in DOMAIN held :
          i # at => /\ i < at => i \in 1..n /\ held[i] = lines[i]
                    /\ i > at => i - 1 \in 1..n /\ held[i] = lines[i - 1]
                    /\ i < at \/ i > at
    BY <1>1, <1>2, <2>2, <2>3
  <2>5. \A i \in DOMAIN held :
          /\ i < at => held[i].address < la
          /\ i > at => la < held[i].address
    <3>. SUFFICES ASSUME NEW i \in DOMAIN held
                  PROVE  /\ i < at => held[i].address < la
                         /\ i > at => la < held[i].address
      OBVIOUS
    <3>1. i < at => i \in 1..(at - 1)
      BY <1>1, <1>2, <2>3
    <3>2. i > at => i - 1 \in at..n
      BY <1>1, <1>2, <2>3
    <3>3. at \in Nat /\ i \in Nat
      BY <1>2, <2>3
    <3>4. i < at => i # at
      BY <3>3
    <3>5. i > at => i # at
      BY <3>3
    <3>. QED BY <1>2, <1>5, <2>4, <3>1, <3>2, <3>4, <3>5
  <2>6. Ascending(held)
    <3>. SUFFICES ASSUME NEW i \in DOMAIN held, NEW j \in DOMAIN held, i < j
                  PROVE  held[i].address < held[j].address
      BY DEF Ascending
    <3>1. i \in 1..(n + 1) /\ j \in 1..(n + 1) /\ at \in 1..(n + 1)
      BY <1>2, <2>3
    <3>2. CASE j < at
      <4>1. i \in 1..n /\ j \in 1..n /\ held[i] = lines[i] /\ held[j] = lines[j]
        BY <1>1, <2>2, <3>1, <3>2
      <4>. QED BY <1>1, <4>1 DEF Ascending
    <3>3. CASE i > at
      <4>1. /\ i - 1 \in 1..n /\ j - 1 \in 1..n /\ i - 1 < j - 1
            /\ held[i] = lines[i - 1] /\ held[j] = lines[j - 1]
        BY <1>1, <2>2, <3>1, <3>3
      <4>. QED BY <1>1, <4>1 DEF Ascending
    <3>4. CASE i <= at /\ j >= at
      <4>1. (i < at \/ i = at) /\ (j > at \/ j = at) /\ ~(i = at /\ j = at)
        BY <3>1, <3>4
      <4>2. CASE i < at /\ j > at
        <5>1. held[i].address < la /\ la < held[j].address
          BY <2>5, <4>2
        <5>2. held[i].address \in Nat /\ held[j].address \in Nat
          BY <2>2, <2>3, LineTypes
        <5>. QED BY <1>1, <5>1, <5>2
      <4>3. CASE i = at /\ j > at
        BY <2>1, <2>3, <2>5, <4>3
      <4>4. CASE i < at /\ j = at
        BY <2>1, <2>3, <2>5, <4>4
      <4>. QED BY <4>1, <4>2, <4>3, <4>4
    <3>5. j < at \/ i > at \/ (i <= at /\ j >= at)
      BY <3>1
    <3>. QED BY <3>2, <3>3, <3>4, <3>5
  <2>7. Aligned(held)
    BY <1>1, <2>1, <2>3, <2>4 DEF Aligned
  <2>8. \A i \in DOMAIN held : i # at => Counted(held[i])
    BY <1>1, <2>4
  <2>9. ~ \E i \in DOMAIN lines : lines[i].address = la
    <3>. SUFFICES ASSUME NEW i \in 1..n PROVE lines[i].address # la
      BY <1>1
    <3>1. i \in 1..(at - 1) \/ i \in at..n
      BY <1>1, <1>2
    <3>2. lines[i].address \in Nat
      BY <1>1
    <3>3. lines[i].address < la \/ la < lines[i].address
      BY <1>2, <1>5, <3>1
    <3>. QED BY <1>1, <3>2, <3>3
  <2>10. ASSUME NEW x \in Address
         PROVE  /\ HasLine(held, x) <=> HasLine(lines, x) \/ line_addr(x) = la
                /\ Datum(held, x) = Datum(lines, x)
    <3>1. CASE line_addr(x) = la
      <4>1. HasLine(held, x) /\ Datum(held, x) = e.data[x % BytesPerLine]
        BY <2>1, <2>2, <2>3, <2>6, <3>1, DatumAt
      <4>2. x % BytesPerLine \in Offsets
        BY LineOfAddress
      <4>3. ~HasLine(lines, x)
        BY <2>9, <3>1 DEF HasLine
      <4>4. Datum(lines, x) = NoByte
        BY <4>3 DEF Datum
      <4>. QED BY <2>1, <3>1, <4>1, <4>2, <4>4
    <3>2. CASE line_addr(x) # la /\ HasLine(lines, x)
      <4>1. PICK i \in 1..n : lines[i].address = line_addr(x)
        BY <1>1, <3>2 DEF HasLine
      <4>2. PICK j \in DOMAIN held : held[j] = lines[i]
        <5>1. CASE i < at
          <6>1. i \in 1..(n + 1)
            BY <1>1
          <6>. QED BY <2>2, <2>3, <5>1, <6>1
        <5>2. CASE ~(i < at)
          <6>1. /\ i + 1 \in 1..(n + 1) /\ ~(i + 1 < at) /\ i + 1 # at
                /\ (i + 1) - 1 = i
            BY <1>1, <1>2, <5>2
          <6>2. held[i + 1] = lines[i]
            BY <2>2, <6>1
          <6>. QED BY <2>3, <6>1, <6>2
        <5>. QED BY <5>1, <5>2
      <4>3. HasLine(held, x) /\ Datum(held, x) = held[j].data[x % BytesPerLine]
        BY <2>2, <2>6, <4>1, <4>2, DatumAt
      <4>4. Datum(lines, x) = lines[i].data[x % BytesPerLine]
        BY <1>1, <4>1, DatumAt
      <4>. QED BY <3>2, <4>2, <4>3, <4>4
    <3>3. CASE line_addr(x) # la /\ ~HasLine(lines, x)
      <4>1. ~HasLine(held, x)
        <5>. SUFFICES ASSUME NEW j \in DOMAIN held,
                             held[j].address = line_addr(x)
                      PROVE  FALSE
          BY DEF HasLine
        <5>1. j # at
          BY <2>1, <2>3, <3>3
        <5>2. \E i \in DOMAIN lines : lines[i] = held[j]
          BY <1>1, <2>4, <5>1
        <5>. QED BY <3>3, <5>2 DEF HasLine
      <4>. QED BY <3>3, <4>1 DEF Datum
    <3>. QED BY <3>1, <3>2, <3>3
  <2>. QED BY <1>5, <2>1, <2>2, <2>3, <2>6, <2>7, <2>8, <2>9, <2>10
<1>. QED BY <1>4, <1>5

(***************************************************************************)
(* Storing one byte.                                                       *)
(***************************************************************************)

(* The bytes of the lines, with b for the address a.                       *)
DatumSet(new, old, a, b) ==
  \A x \in Address : Datum(new, x) = IF x = a THEN b ELSE Datum(old, x)

LEMMA LineSet ==
  ASSUME NEW lines \in Seq(Line), Ascending(lines), Aligned(lines),
         NEW at \in DOMAIN lines, Right(lines[at]),
         \A i \in DOMAIN lines : i # at => Counted(lines[i]),
         NEW a \in Address, lines[at].address = line_addr(a), NEW b \in Bytes
  PROVE  LET new == [lines EXCEPT ![at] = StoreByte(@, a % BytesPerLine, b)]
         IN  /\ new \in Seq(Line) /\ Len(new) = Len(lines)
             /\ Ascending(new) /\ Aligned(new)
             /\ \A i \in DOMAIN new : Counted(new[i])
             /\ \A x \in Address : HasLine(new, x) <=> HasLine(lines, x)
             /\ HasLine(new, a) /\ DatumSet(new, lines, a, b)
<1>. DEFINE o == a % BytesPerLine
            n == Len(lines)
            stored == StoreByte(lines[at], o, b)
            new == [lines EXCEPT ![at] = stored]
<1>. SUFFICES /\ new \in Seq(Line) /\ Len(new) = n
              /\ Ascending(new) /\ Aligned(new)
              /\ \A i \in DOMAIN new : Counted(new[i])
              /\ \A x \in Address : HasLine(new, x) <=> HasLine(lines, x)
              /\ HasLine(new, a) /\ DatumSet(new, lines, a, b)
  OBVIOUS
<1>1. /\ n \in Nat /\ DOMAIN lines = 1..n /\ o \in Offsets
      /\ \A i \in 1..n : lines[i] \in Line
  BY LineTypes, LineOfAddress
<1>2. /\ stored \in Line /\ Counted(stored)
      /\ stored.address = lines[at].address
      /\ stored.data = [lines[at].data EXCEPT ![o] = b]
  BY <1>1, StoreCounts DEF Right
<1>. HIDE DEF stored, o
<1>3. /\ DOMAIN new = 1..n /\ Len(new) = n /\ new \in Seq(Line)
      /\ new[at] = stored
      /\ \A i \in 1..n : i # at => new[i] = lines[i]
  <2>. HIDE DEF Line
  <2>. QED BY <1>1, <1>2
<1>. HIDE DEF new
<1>4. \A i \in 1..n : new[i].address = lines[i].address
  BY <1>2, <1>3
<1>5. Ascending(new)
  BY <1>1, <1>3, <1>4 DEF Ascending
<1>6. Aligned(new)
  BY <1>1, <1>3, <1>4 DEF Aligned
<1>7. \A i \in DOMAIN new : Counted(new[i])
  BY <1>1, <1>2, <1>3
<1>8. \A x \in Address : HasLine(new, x) <=> HasLine(lines, x)
  BY <1>1, <1>3, <1>4 DEF HasLine
<1>9. HasLine(new, a)
  BY <1>1, <1>3, <1>4 DEF HasLine
<1>10. ASSUME NEW x \in Address
       PROVE  Datum(new, x) = IF x = a THEN b ELSE Datum(lines, x)
  <2>1. CASE ~HasLine(lines, x)
    <3>1. x # a
      BY <1>8, <1>9, <2>1
    <3>2. ~HasLine(new, x)
      BY <1>8, <2>1
    <3>. QED BY <2>1, <3>1, <3>2 DEF Datum
  <2>2. CASE HasLine(lines, x)
    <3>1. PICK i \in 1..n : lines[i].address = line_addr(x)
      BY <1>1, <2>2 DEF HasLine
    <3>2. Datum(lines, x) = lines[i].data[x % BytesPerLine]
      BY <1>1, <3>1, DatumAt
    <3>3. Datum(new, x) = new[i].data[x % BytesPerLine]
      BY <1>3, <1>4, <1>5, <3>1, DatumAt
    <3>4. CASE i # at
      <4>1. x # a
        BY <1>1, <3>1, <3>4, OneLine
      <4>. QED BY <1>3, <3>2, <3>3, <3>4, <4>1
    <3>5. CASE i = at
      <4>1. lines[at].data \in [Offsets -> Bytes \union {NoByte}]
        BY <1>1, LineTypes
      <4>2. x % BytesPerLine \in Offsets
        BY LineOfAddress
      <4>3. new[i].data[x % BytesPerLine]
              = IF x % BytesPerLine = o THEN b ELSE lines[at].data[x % BytesPerLine]
        BY <1>2, <1>3, <3>5, <4>1, <4>2
      <4>4. x % BytesPerLine = o <=> x = a
        <5>1. line_addr(x) = line_addr(a)
          BY <3>1, <3>5
        <5>2. x = line_addr(x) + (x % BytesPerLine)
          BY LineOfAddress
        <5>3. a = line_addr(a) + (a % BytesPerLine)
          BY LineOfAddress
        <5>. QED BY <5>1, <5>2, <5>3 DEF o
      <4>. QED BY <3>2, <3>3, <3>5, <4>3, <4>4
    <3>. QED BY <3>4, <3>5
  <2>. QED BY <2>1, <2>2
<1>. QED BY <1>3, <1>5, <1>6, <1>7, <1>8, <1>9, <1>10 DEF DatumSet

(* A byte is stored, or there was no line for it and no memory for one;    *)
(* no line is ever given up.                                               *)
BytePut(new, old, a, b) ==
  /\ MapOK(new)
  /\ new.min_addr = old.min_addr /\ new.max_addr = old.max_addr
  /\ \A x \in Address : HasLine(old.lines, x) => HasLine(new.lines, x)
  /\ \/ new = old /\ ~HasLine(old.lines, a)
     \/ DatumSet(new.lines, old.lines, a, b)

LEMMA PutByteStores ==
  ASSUME NEW mem, MapOK(mem), NEW a \in Address, NEW b \in Bytes,
         NEW alloc \in BOOLEAN
  PROVE  BytePut(PutByte(mem, a, b, alloc), mem, a, b)
<1>. DEFINE la == line_addr(a)
            slot == Search(mem.lines, la)
            needed == Len(mem.lines) + 1
            place == WithPlace(mem.lines, la)
            capacity == IF slot.found THEN mem.capacity ELSE Grown(mem.capacity, needed)
            new == [place EXCEPT ![slot.at] = StoreByte(@, a % BytesPerLine, b)]
<1>1. /\ mem.lines \in Seq(Line) /\ mem.capacity \in Nat
      /\ mem.min_addr \in Address /\ mem.max_addr \in Address
      /\ mem = [lines |-> mem.lines, capacity |-> mem.capacity,
                min_addr |-> mem.min_addr, max_addr |-> mem.max_addr]
      /\ Len(mem.lines) <= mem.capacity /\ Len(mem.lines) \in Nat
      /\ Ascending(mem.lines) /\ Aligned(mem.lines)
      /\ \A i \in DOMAIN mem.lines : Counted(mem.lines[i])
  <2>. HIDE DEF Line
  <2>. QED BY DEF MapOK, Map
<1>2. la \in Address /\ la % BytesPerLine = 0
  BY LineOfAddress
<1>3. /\ place \in Seq(Line) /\ Ascending(place) /\ Aligned(place)
      /\ Len(place) = IF slot.found THEN Len(mem.lines) ELSE needed
      /\ slot.at \in DOMAIN place /\ place[slot.at].address = la
      /\ Right(place[slot.at])
      /\ \A i \in DOMAIN place : i # slot.at => Counted(place[i])
      /\ \A x \in Address :
           /\ HasLine(place, x) <=> HasLine(mem.lines, x) \/ line_addr(x) = la
           /\ Datum(place, x) = Datum(mem.lines, x)
      /\ slot.found <=> \E i \in DOMAIN mem.lines : mem.lines[i].address = la
  BY <1>1, <1>2, PlaceMade
<1>4. /\ new \in Seq(Line) /\ Len(new) = Len(place)
      /\ Ascending(new) /\ Aligned(new)
      /\ \A i \in DOMAIN new : Counted(new[i])
      /\ \A x \in Address : HasLine(new, x) <=> HasLine(place, x)
      /\ HasLine(new, a) /\ DatumSet(new, place, a, b)
  <2>. DEFINE at == slot.at
  <2>1. /\ at \in DOMAIN place /\ place[at].address = line_addr(a)
        /\ Right(place[at])
        /\ \A i \in DOMAIN place : i # at => Counted(place[i])
        /\ place \in Seq(Line) /\ Ascending(place) /\ Aligned(place)
        /\ new = [place EXCEPT ![at] = StoreByte(@, a % BytesPerLine, b)]
    BY <1>3
  <2>. HIDE DEF new, place, at
  <2>. QED BY <2>1, LineSet
<1>5. capacity \in Nat /\ Len(new) <= capacity
  <2>1. needed \in Nat /\ needed <= mem.capacity + 1
    BY <1>1
  <2>2. Grown(mem.capacity, needed) \in Nat /\ needed <= Grown(mem.capacity, needed)
    BY <1>1, <2>1, GrownFits
  <2>. QED BY <1>1, <1>3, <1>4, <2>2
<1>6. PutByte(mem, a, b, alloc)
        = IF ~slot.found /\ needed > mem.capacity /\ ~alloc THEN mem
          ELSE [lines |-> new, capacity |-> capacity,
                min_addr |-> mem.min_addr, max_addr |-> mem.max_addr]
  <2>1. CASE slot.found
    <3>1. place = mem.lines /\ capacity = mem.capacity
      BY <2>1 DEF WithPlace
    <3>2. PutByte(mem, a, b, alloc)
            = [mem EXCEPT !.lines[slot.at] = StoreByte(@, a % BytesPerLine, b)]
      BY <2>1 DEF PutByte
    <3>. HIDE DEF slot
    <3>. QED BY <1>1, <2>1, <3>1, <3>2
  <2>2. CASE ~slot.found
    <3>1. place = InsertAt(mem.lines, slot.at, EmptyLine(la))
          /\ capacity = Grown(mem.capacity, needed)
      BY <2>2 DEF WithPlace
    <3>. DEFINE held == [mem EXCEPT
                           !.lines = InsertAt(@, slot.at, EmptyLine(la)),
                           !.capacity = Grown(@, needed)]
    <3>2. PutByte(mem, a, b, alloc)
            = IF needed > mem.capacity /\ ~alloc THEN mem
              ELSE [held EXCEPT !.lines[slot.at] = StoreByte(@, a % BytesPerLine, b)]
      BY <2>2 DEF PutByte
    <3>. HIDE DEF slot, place, capacity
    <3>3. held = [lines |-> place, capacity |-> capacity,
                  min_addr |-> mem.min_addr, max_addr |-> mem.max_addr]
      <4>1. held = [mem EXCEPT !.lines = place, !.capacity = capacity]
        BY <3>1
      <4>. HIDE DEF held
      <4>. QED BY <1>1, <4>1
    <3>. HIDE DEF held
    <3>4. [held EXCEPT !.lines[slot.at] = StoreByte(@, a % BytesPerLine, b)]
            = [lines |-> new, capacity |-> capacity,
               min_addr |-> mem.min_addr, max_addr |-> mem.max_addr]
      BY <3>3
    <3>. QED BY <2>2, <3>2, <3>4
  <2>. QED BY <2>1, <2>2
<1>. HIDE DEF new, place, capacity, needed, slot, la
<1>7. CASE ~slot.found /\ needed > mem.capacity /\ ~alloc
  <2>1. PutByte(mem, a, b, alloc) = mem
    BY <1>6, <1>7
  <2>2. ~HasLine(mem.lines, a)
    BY <1>3, <1>7 DEF HasLine, la
  <2>. QED BY <2>1, <2>2 DEF BytePut
<1>8. CASE ~(~slot.found /\ needed > mem.capacity /\ ~alloc)
  <2>. DEFINE m == PutByte(mem, a, b, alloc)
  <2>1. m = [lines |-> new, capacity |-> capacity,
             min_addr |-> mem.min_addr, max_addr |-> mem.max_addr]
    BY <1>6, <1>8
  <2>. HIDE DEF m
  <2>2. MapOK(m)
    <3>. HIDE DEF Line
    <3>. QED BY <1>1, <1>4, <1>5, <2>1 DEF MapOK, Map
  <2>3. DatumSet(new, mem.lines, a, b)
    BY <1>3, <1>4 DEF DatumSet
  <2>4. \A x \in Address : HasLine(mem.lines, x) => HasLine(new, x)
    BY <1>3, <1>4
  <2>5. BytePut(m, mem, a, b)
    BY <2>1, <2>2, <2>3, <2>4 DEF BytePut
  <2>. QED BY <2>5 DEF m
<1>. QED BY <1>7, <1>8

(***************************************************************************)
(* A message.                                                              *)
(***************************************************************************)

LEMMA WidenKeeps ==
  ASSUME NEW mem, MapOK(mem), NEW addr \in Address, NEW n \in Nat \ {0}
  PROVE  LET w == Widen(mem, addr, n)
         IN  /\ MapOK(w) /\ w.lines = mem.lines
             /\ w.min_addr <= mem.min_addr /\ mem.max_addr <= w.max_addr
             /\ w.min_addr <= addr /\ (addr + n - 1) % AddrSpace <= w.max_addr
<1>. DEFINE last == (addr + n - 1) % AddrSpace
            min == IF addr < mem.min_addr THEN addr ELSE mem.min_addr
            max == IF last > mem.max_addr THEN last ELSE mem.max_addr
<1>1. /\ mem.lines \in Seq(Line) /\ mem.capacity \in Nat
      /\ mem.min_addr \in Address /\ mem.max_addr \in Address
      /\ mem = [lines |-> mem.lines, capacity |-> mem.capacity,
                min_addr |-> mem.min_addr, max_addr |-> mem.max_addr]
      /\ Len(mem.lines) <= mem.capacity
      /\ Ascending(mem.lines) /\ Aligned(mem.lines)
      /\ \A i \in DOMAIN mem.lines : Counted(mem.lines[i])
  <2>. HIDE DEF Line
  <2>. QED BY DEF MapOK, Map
<1>2. last \in Address
  <2>1. addr + n - 1 \in Nat /\ AddrSpace \in Nat \ {0}
    BY MemorySizes DEF Address
  <2>. QED BY <2>1, Division DEF Address
<1>. HIDE DEF last
<1>3. Widen(mem, addr, n) = [lines |-> mem.lines, capacity |-> mem.capacity,
                             min_addr |-> min, max_addr |-> max]
  <2>1. Widen(mem, addr, n) = [mem EXCEPT !.min_addr = min, !.max_addr = max]
    BY DEF Widen, last
  <2>. HIDE DEF min, max
  <2>. QED BY <1>1, <2>1
<1>4. /\ min \in Address /\ max \in Address /\ min <= mem.min_addr
      /\ mem.max_addr <= max /\ min <= addr /\ last <= max
  BY <1>1, <1>2, MemorySizes DEF Address
<1>. HIDE DEF min, max
<1>5. MapOK(Widen(mem, addr, n))
  <2>. HIDE DEF Line
  <2>. QED BY <1>1, <1>3, <1>4 DEF MapOK, Map
<1>. QED BY <1>1, <1>3, <1>4, <1>5 DEF last

LEMMA ByteAddrType ==
  ASSUME NEW addr \in Address, NEW i \in Nat \ {0}
  PROVE  ByteAddr(addr, i) \in Address
<1>1. addr + i - 1 \in Nat /\ AddrSpace \in Nat \ {0}
  BY MemorySizes DEF Address
<1>. QED BY <1>1, Division DEF ByteAddr, Address

(* A message that is not longer than the address space wraps, but does not *)
(* come back to an address.                                                *)
LEMMA ByteAddrsDiffer ==
  ASSUME NEW addr \in Address, NEW i \in 1..AddrSpace, NEW j \in 1..AddrSpace,
         ByteAddr(addr, i) = ByteAddr(addr, j)
  PROVE  i = j
<1>1. /\ AddrSpace \in Nat \ {0} /\ addr \in 0..(AddrSpace - 1)
  BY MemorySizes DEF Address
<1>2. /\ addr + i - 1 \in 0..(2 * AddrSpace - 1)
      /\ addr + j - 1 \in 0..(2 * AddrSpace - 1)
  BY <1>1
<1>3. ByteAddr(addr, i) = IF addr + i - 1 < AddrSpace THEN addr + i - 1
                          ELSE (addr + i - 1) - AddrSpace
  BY <1>1, <1>2, ModOnce DEF ByteAddr
<1>4. ByteAddr(addr, j) = IF addr + j - 1 < AddrSpace THEN addr + j - 1
                          ELSE (addr + j - 1) - AddrSpace
  BY <1>1, <1>2, ModOnce DEF ByteAddr
<1>5. i \in 1..AddrSpace /\ j \in 1..AddrSpace
  OBVIOUS
<1>6. (IF addr + i - 1 < AddrSpace THEN addr + i - 1 ELSE (addr + i - 1) - AddrSpace)
        = IF addr + j - 1 < AddrSpace THEN addr + j - 1
          ELSE (addr + j - 1) - AddrSpace
  BY <1>3, <1>4
<1>. QED BY ONLY <1>1, <1>5, <1>6

(* The memory after the first k bytes: those that are not lost are stored, *)
(* and only bytes for which there was no line may be lost.                 *)
SpanTo(addr, k) == {ByteAddr(addr, i) : i \in 1..k}
Stored(new, old, addr, bytes, k, lost) ==
  /\ lost \subseteq SpanTo(addr, k)
  /\ \A x \in lost : ~HasLine(old.lines, x)
  /\ \A i \in 1..k :
       ByteAddr(addr, i) \notin lost => Datum(new.lines, ByteAddr(addr, i)) = bytes[i]
  /\ \A x \in Address :
       x \notin SpanTo(addr, k) \ lost => Datum(new.lines, x) = Datum(old.lines, x)
BytesPut(new, old, addr, bytes, k) ==
  /\ MapOK(new)
  /\ new.min_addr = old.min_addr /\ new.max_addr = old.max_addr
  /\ \A x \in Address : HasLine(old.lines, x) => HasLine(new.lines, x)
  /\ \E lost \in SUBSET Address : Stored(new, old, addr, bytes, k, lost)

LEMMA BytesPutStep ==
  ASSUME NEW addr \in Address, NEW bytes \in Seq(Bytes), Len(bytes) <= AddrSpace,
         NEW k \in 0..(Len(bytes) - 1), NEW new, NEW mem, NEW old,
         BytesPut(mem, old, addr, bytes, k),
         BytePut(new, mem, ByteAddr(addr, k + 1), bytes[k + 1])
  PROVE  BytesPut(new, old, addr, bytes, k + 1)
<1>. DEFINE a == ByteAddr(addr, k + 1)
            b == bytes[k + 1]
<1>1. /\ k \in Nat /\ AddrSpace \in Nat /\ Len(bytes) \in Nat
      /\ k + 1 \in 1..AddrSpace /\ 1..(k + 1) = 1..k \union {k + 1}
      /\ 1..k \subseteq 1..AddrSpace /\ k + 1 \notin 1..k
  BY MemorySizes
<1>2. a \in Address /\ a \notin SpanTo(addr, k)
  <2>1. a \in Address
    BY <1>1, ByteAddrType
  <2>2. \A i \in 1..k : ByteAddr(addr, i) # a
    BY <1>1, ByteAddrsDiffer
  <2>. QED BY <2>1, <2>2 DEF SpanTo
<1>3. SpanTo(addr, k + 1) = SpanTo(addr, k) \union {a}
  BY <1>1 DEF SpanTo
<1>4. PICK lost \in SUBSET Address : Stored(mem, old, addr, bytes, k, lost)
  BY DEF BytesPut
<1>5. \A i \in 1..k : ByteAddr(addr, i) \in SpanTo(addr, k)
                      /\ ByteAddr(addr, i) \in Address
  <2>1. \A i \in 1..k : ByteAddr(addr, i) \in Address
    BY ByteAddrType
  <2>. QED BY <2>1 DEF SpanTo
<1>. HIDE DEF a
<1>6. CASE new = mem /\ ~HasLine(mem.lines, a)
  <2>1. Stored(new, old, addr, bytes, k + 1, lost \union {a})
    <3>1. ~HasLine(old.lines, a)
      BY <1>2, <1>6 DEF BytesPut
    <3>2. \A i \in 1..(k + 1) :
            ByteAddr(addr, i) \notin lost \union {a}
              => Datum(new.lines, ByteAddr(addr, i)) = bytes[i]
      BY <1>1, <1>4, <1>6 DEF Stored, a
    <3>3. ASSUME NEW x \in Address, x \notin SpanTo(addr, k + 1) \ (lost \union {a})
          PROVE  Datum(new.lines, x) = Datum(old.lines, x)
      BY <1>2, <1>3, <1>4, <1>6, <3>3 DEF Stored
    <3>. QED BY <1>3, <1>4, <3>1, <3>2, <3>3 DEF Stored
  <2>. QED BY <1>2, <1>6, <2>1 DEF BytesPut
<1>7. CASE DatumSet(new.lines, mem.lines, a, b)
  <2>1. a \notin lost
    BY <1>2, <1>4 DEF Stored
  <2>2. Stored(new, old, addr, bytes, k + 1, lost)
    <3>1. ASSUME NEW i \in 1..(k + 1), ByteAddr(addr, i) \notin lost
          PROVE  Datum(new.lines, ByteAddr(addr, i)) = bytes[i]
      <4>1. CASE i = k + 1
        BY <1>2, <1>7, <4>1 DEF DatumSet, a
      <4>2. CASE i \in 1..k
        BY <1>2, <1>4, <1>5, <1>7, <3>1, <4>2 DEF DatumSet, Stored
      <4>. QED BY <1>1, <4>1, <4>2
    <3>2. ASSUME NEW x \in Address, x \notin SpanTo(addr, k + 1) \ lost
          PROVE  Datum(new.lines, x) = Datum(old.lines, x)
      <4>1. x # a /\ x \notin SpanTo(addr, k) \ lost
        BY <1>3, <2>1, <3>2
      <4>. QED BY <1>4, <1>7, <4>1 DEF DatumSet, Stored
    <3>3. lost \subseteq SpanTo(addr, k + 1) /\ \A x \in lost : ~HasLine(old.lines, x)
      BY <1>3, <1>4 DEF Stored
    <3>. QED BY <3>1, <3>2, <3>3 DEF Stored
  <2>3. /\ MapOK(new)
        /\ new.min_addr = old.min_addr /\ new.max_addr = old.max_addr
        /\ \A x \in Address : HasLine(old.lines, x) => HasLine(new.lines, x)
    BY DEF BytePut, BytesPut
  <2>. QED BY <2>2, <2>3 DEF BytesPut
<1>. QED BY <1>6, <1>7 DEF BytePut, a

(* The memory after each pass of the loop over the bytes.                  *)
After(mem, addr, bytes, fails) ==
  LET after[i \in 0..Len(bytes)] ==
        IF i = 0 THEN mem
        ELSE PutByte(after[i - 1], ByteAddr(addr, i), bytes[i], i \notin fails)
  IN  after

LEMMA AfterDefined ==
  ASSUME NEW mem, MapOK(mem), NEW addr \in Address, NEW bytes \in Seq(Bytes), NEW fails
  PROVE  LET after == After(mem, addr, bytes, fails)
         IN  after = [i \in 0..Len(bytes) |->
                        IF i = 0 THEN mem
                        ELSE PutByte(after[i - 1], ByteAddr(addr, i), bytes[i],
                                     i \notin fails)]
<1>. DEFINE n == Len(bytes)
            X == {m \in Map : MapOK(m)}
            put(i, m) == PutByte(m, ByteAddr(addr, i), bytes[i], i \notin fails)
            step == [i \in 1..n |-> [m \in X |-> put(i, m)]]
            after[i \in 0..n] ==
              IF i = 0 THEN mem
              ELSE PutByte(after[i - 1], ByteAddr(addr, i), bytes[i], i \notin fails)
<1>1. n \in Nat /\ \A i \in 1..n : bytes[i] \in Bytes
  BY ElementOfSeq
<1>2. mem \in X
  BY DEF MapOK
<1>3. step \in [1..n -> [X -> X]]
  <2>1. ASSUME NEW i \in 1..n, NEW m \in X PROVE put(i, m) \in X
    <3>1. ByteAddr(addr, i) \in Address
      BY <1>1, ByteAddrType
    <3>2. MapOK(m) /\ bytes[i] \in Bytes /\ (i \notin fails) \in BOOLEAN
      BY <1>1
    <3>3. BytePut(put(i, m), m, ByteAddr(addr, i), bytes[i])
      BY <3>1, <3>2, PutByteStores
    <3>. QED BY <3>3 DEF BytePut, MapOK
  <2>. HIDE DEF X, put
  <2>. QED BY <2>1
<1>. HIDE DEF X
<1>4. Loop(n, X, mem, step)
  BY <1>1, <1>2, <1>3 DEF Loop
<1>5. PICK g : Runs(g, n, X, mem, step)
  <2>. HIDE DEF step
  <2>. QED BY <1>4, LoopExists
<1>6. g = [i \in 0..n |-> IF i = 0 THEN mem ELSE put(i, g[i - 1])]
  <2>1. g \in [0..n -> X] /\ g[0] = mem
    BY <1>5 DEF Runs
  <2>2. ASSUME NEW i \in 1..n PROVE g[i] = put(i, g[i - 1])
    <3>1. i - 1 \in 0..n
      BY <1>1
    <3>2. g[i - 1] \in X
      BY <2>1, <3>1
    <3>3. g[i] = step[i][g[i - 1]]
      BY <1>5 DEF Runs
    <3>. HIDE DEF put
    <3>. QED BY <3>2, <3>3
  <2>. HIDE DEF put
  <2>3. ASSUME NEW i \in 0..n
        PROVE  g[i] = IF i = 0 THEN mem ELSE put(i, g[i - 1])
    <3>1. i = 0 \/ i \in 1..n
      BY <1>1
    <3>. QED BY <2>1, <2>2, <3>1
  <2>. QED BY <2>1, <2>3
<1>7. after = [i \in 0..n |-> IF i = 0 THEN mem ELSE put(i, after[i - 1])]
  BY <1>6
<1>8. After(mem, addr, bytes, fails) = after
  BY DEF After
<1>. HIDE DEF after
<1>. QED BY <1>7, <1>8

(* What a dump does to the memory, once the range is widened.              *)
LEMMA DumpStores ==
  ASSUME NEW mem, MapOK(mem), NEW addr \in Address,
         NEW bytes \in Seq(Bytes), Len(bytes) <= AddrSpace, NEW fails
  PROVE  BytesPut(After(mem, addr, bytes, fails)[Len(bytes)], mem, addr, bytes,
                  Len(bytes))
<1>. DEFINE n == Len(bytes)
            put(i, m) == PutByte(m, ByteAddr(addr, i), bytes[i], i \notin fails)
            after == After(mem, addr, bytes, fails)
            Good == {k \in 0..n : BytesPut(after[k], mem, addr, bytes, k)}
<1>1. n \in Nat /\ \A i \in 1..n : bytes[i] \in Bytes
  BY ElementOfSeq
<1>2. after = [i \in 0..n |-> IF i = 0 THEN mem ELSE put(i, after[i - 1])]
  BY AfterDefined
<1>. HIDE DEF after
<1>3. 0 \in Good
  <2>1. after[0] = mem
    BY <1>1, <1>2
  <2>2. Stored(mem, mem, addr, bytes, 0, {})
    BY DEF Stored, SpanTo
  <2>. QED BY <1>1, <2>1, <2>2 DEF BytesPut
<1>4. ASSUME NEW k \in 0..(n - 1), k \in Good PROVE k + 1 \in Good
  <2>1. k \in 0..n /\ k + 1 \in 1..n /\ k + 1 \in 0..n /\ k + 1 # 0 /\ (k + 1) - 1 = k
        /\ k + 1 \in Nat \ {0}
    BY <1>1
  <2>2. after[k + 1] = put(k + 1, after[k])
    <3>. HIDE DEF put
    <3>. QED BY <1>2, <2>1
  <2>3. BytesPut(after[k], mem, addr, bytes, k)
    BY <1>4
  <2>4. ByteAddr(addr, k + 1) \in Address /\ bytes[k + 1] \in Bytes
        /\ ((k + 1) \notin fails) \in BOOLEAN
    BY <1>1, <2>1, ByteAddrType
  <2>5. BytePut(after[k + 1], after[k], ByteAddr(addr, k + 1), bytes[k + 1])
    BY <2>2, <2>3, <2>4, PutByteStores DEF BytesPut
  <2>6. BytesPut(after[k + 1], mem, addr, bytes, k + 1)
    BY <2>3, <2>5, BytesPutStep
  <2>. QED BY <2>1, <2>6
<1>5. n \in Good
  <2>. HIDE DEF Good
  <2>1. \A k \in 0..n : k \in Good
    BY <1>1, <1>3, <1>4, UpTo
  <2>. QED BY <1>1, <2>1
<1>6. BytesPut(after[n], mem, addr, bytes, n)
  BY <1>5
<1>. QED BY <1>6 DEF after

(***************************************************************************)
(* The invariant of MemSpec.                                               *)
(***************************************************************************)

MemInv == MapOK(memory)

LEMMA EmptyMapOK ==
  ASSUME NEW min \in Address, NEW max \in Address
  PROVE  MapOK([lines |-> <<>>, capacity |-> 0, min_addr |-> min, max_addr |-> max])
<1>. DEFINE m == [lines |-> <<>>, capacity |-> 0, min_addr |-> min, max_addr |-> max]
<1>1. m \in Map
  BY DEF Map
<1>2. Len(m.lines) <= m.capacity /\ DOMAIN m.lines = {}
  OBVIOUS
<1>. QED BY <1>1, <1>2 DEF MapOK, Ascending, Aligned

LEMMA ExtremeAddresses == 0 \in Address /\ AddrSpace - 1 \in Address
  BY MemorySizes DEF Address

(* A dump or a single byte stores the bytes of a message in the memory     *)
(* whose range was widened for it.                                         *)
LEMMA DumpStep ==
  ASSUME MemInv, NEW addr \in Address, NEW bytes \in Seq(Bytes),
         Len(bytes) <= AddrSpace, NEW fails, process_memory_dump(addr, bytes, fails)
  PROVE  /\ MemInv' /\ Len(bytes) \in Nat \ {0}
         /\ BytesPut(memory', Widen(memory, addr, Len(bytes)), addr, bytes, Len(bytes))
<1>1. Len(bytes) \in Nat \ {0}
  BY DEF process_memory_dump
<1>2. MapOK(Widen(memory, addr, Len(bytes)))
  BY <1>1, WidenKeeps DEF MemInv
<1>3. memory' = After(Widen(memory, addr, Len(bytes)), addr, bytes, fails)[Len(bytes)]
  BY DEF process_memory_dump, After
<1>4. BytesPut(memory', Widen(memory, addr, Len(bytes)), addr, bytes, Len(bytes))
  BY <1>2, <1>3, DumpStores
<1>. QED BY <1>1, <1>4 DEF BytesPut, MemInv

LEMMA ByteStep ==
  ASSUME MemInv, NEW addr \in Address, NEW b \in Bytes, NEW fails,
         process_memory_byte(addr, b, fails)
  PROVE  /\ MemInv'
         /\ BytesPut(memory', Widen(memory, addr, 1), addr, <<b>>, 1)
<1>. DEFINE w == Widen(memory, addr, 1)
            bytes == <<b>>
<1>1. MapOK(w)
  BY WidenKeeps DEF MemInv
<1>2. (fails = {}) \in BOOLEAN /\ memory' = PutByte(w, addr, b, fails = {})
  BY DEF process_memory_byte
<1>. HIDE DEF w
<1>3. BytePut(memory', w, addr, b)
  BY <1>1, <1>2, PutByteStores
<1>4. BytesPut(w, w, addr, bytes, 0)
  <2>1. Stored(w, w, addr, bytes, 0, {})
    BY DEF Stored, SpanTo
  <2>. QED BY <1>1, <2>1 DEF BytesPut
<1>5. bytes \in Seq(Bytes) /\ Len(bytes) = 1 /\ bytes[0 + 1] = b
      /\ Len(bytes) <= AddrSpace /\ 0 \in 0..(Len(bytes) - 1)
  BY MemorySizes
<1>6. ByteAddr(addr, 0 + 1) = addr
  <2>1. addr \in Nat /\ AddrSpace \in Nat \ {0} /\ addr < AddrSpace
    BY MemorySizes DEF Address
  <2>2. addr + (0 + 1) - 1 = addr /\ addr \in 0..(2 * AddrSpace - 1)
    BY <2>1
  <2>. QED BY <2>1, <2>2, ModOnce DEF ByteAddr
<1>. HIDE DEF bytes
<1>7. BytesPut(memory', w, addr, bytes, 0 + 1)
  BY <1>3, <1>4, <1>5, <1>6, BytesPutStep
<1>. QED BY <1>7 DEF BytesPut, MemInv, bytes, w

LEMMA MemClearStep == ASSUME datastore_memory_clear PROVE MemInv'
  BY EmptyMapOK, ExtremeAddresses DEF datastore_memory_clear, MemInv

LEMMA MessageBytes ==
  ASSUME NEW n \in 1..MaxDump, NEW bytes \in [1..n -> Bytes]
  PROVE  bytes \in Seq(Bytes) /\ Len(bytes) = n /\ n <= AddrSpace
<1>1. n \in Nat /\ n <= AddrSpace
  BY MemorySizes
<1>. QED BY <1>1

LEMMA StartsAreAddresses == \A addr \in Starts : addr \in Address
  BY MemorySizes DEF Address

LEMMA InitMemInv == MemInit => MemInv
  BY EmptyMapOK, ExtremeAddresses DEF MemInit, MemInv

THEOREM MemInvariance == MemSpec => []MemInv
<1>1. MemInv /\ [MemNext]_memVars => MemInv'
  <2>. SUFFICES ASSUME MemInv, [MemNext]_memVars PROVE MemInv'
    OBVIOUS
  <2>1. CASE datastore_memory_clear
    BY <2>1, MemClearStep
  <2>2. ASSUME NEW addr \in Starts, NEW n \in 0..MaxDump, NEW bytes \in [1..n -> Bytes],
               NEW fails, process_memory_dump(addr, bytes, fails)
        PROVE  MemInv'
    <3>1. n # 0
      BY <2>2 DEF process_memory_dump
    <3>2. n \in 1..MaxDump
      BY <3>1, MemorySizes
    <3>3. bytes \in Seq(Bytes) /\ Len(bytes) <= AddrSpace
      BY <3>2, MessageBytes
    <3>. QED BY <2>2, <3>3, StartsAreAddresses, DumpStep
  <2>3. ASSUME NEW addr \in Starts, NEW b \in Bytes, NEW fails,
               process_memory_byte(addr, b, fails)
        PROVE  MemInv'
    BY <2>3, StartsAreAddresses, ByteStep
  <2>4. CASE UNCHANGED memVars
    BY <2>4 DEF memVars, MemInv
  <2>. QED BY <2>1, <2>2, <2>3, <2>4 DEF MemNext
<1>. QED BY <1>1, InitMemInv, PTL DEF MemSpec

(* The lines fit the block that was allocated for them.                    *)
THEOREM MemTypeCorrect == MemSpec => []MemTypeOK
<1>1. MemInv => MemTypeOK
  BY DEF MemInv, MapOK, Map, Line, MemTypeOK
<1>. QED BY <1>1, MemInvariance, PTL

(* The lines stay sorted, what the binary search relies on.                *)
THEOREM LinesStaySorted == MemSpec => []LinesSorted
<1>1. MemInv => LinesSorted
  BY DEF MemInv, MapOK, Ascending, Aligned, LinesSorted
<1>. QED BY <1>1, MemInvariance, PTL

(* valid_count is the number of known bytes of its line, never 0.          *)
THEOREM CountsAreRight == MemSpec => []ValidCounted
<1>1. MemInv => ValidCounted
  BY DEF MemInv, MapOK, Counted, ValidCounted
<1>. QED BY <1>1, MemInvariance, PTL

(***************************************************************************)
(* The known bytes.                                                        *)
(***************************************************************************)

KnownIn(lines) == {a \in Address : Datum(lines, a) # NoByte}

(* What the model calls known, of lines that are in order.                 *)
LEMMA KnownIsDatum ==
  ASSUME NEW lines \in Seq(Line), Ascending(lines), Aligned(lines)
  PROVE  /\ UNION {{lines[i].address + o :
                       o \in {p \in Offsets : lines[i].data[p] # NoByte}} :
                    i \in DOMAIN lines} = KnownIn(lines)
         /\ \A a \in KnownIn(lines) :
              (CHOOSE l \in ToSet(lines) : l.address = line_addr(a)).data[a % BytesPerLine]
                = Datum(lines, a)
<1>. DEFINE Held(i) == {p \in Offsets : lines[i].data[p] # NoByte}
            K == UNION {{lines[i].address + o : o \in Held(i)} : i \in DOMAIN lines}
<1>1. \A i \in DOMAIN lines : lines[i].address \in Address
                              /\ lines[i].address % BytesPerLine = 0
  BY LineTypes DEF Aligned
<1>2. ASSUME NEW i \in DOMAIN lines, NEW o \in Held(i)
      PROVE  lines[i].address + o \in KnownIn(lines)
  <2>. DEFINE a == lines[i].address + o
  <2>1. a \in Address /\ line_addr(a) = lines[i].address /\ a % BytesPerLine = o
    BY <1>1, AddressOfLine
  <2>. HIDE DEF a
  <2>2. Datum(lines, a) = lines[i].data[o]
    BY <2>1, DatumAt
  <2>3. a \in KnownIn(lines)
    BY <2>1, <2>2 DEF KnownIn
  <2>. QED BY <2>3 DEF a
<1>3. ASSUME NEW a \in KnownIn(lines)
      PROVE  \E i \in DOMAIN lines : /\ lines[i].address = line_addr(a)
                                     /\ a % BytesPerLine \in Held(i)
                                     /\ Datum(lines, a) = lines[i].data[a % BytesPerLine]
  <2>1. a \in Address /\ HasLine(lines, a)
    BY DEF KnownIn, Datum
  <2>2. PICK i \in DOMAIN lines : lines[i].address = line_addr(a)
    BY <2>1 DEF HasLine
  <2>3. Datum(lines, a) = lines[i].data[a % BytesPerLine]
    BY <2>2, DatumAt
  <2>4. a % BytesPerLine \in Offsets
    BY <2>1, LineOfAddress
  <2>. QED BY <2>2, <2>3, <2>4 DEF KnownIn
<1>4. K = KnownIn(lines)
  <2>1. K \subseteq KnownIn(lines)
    <3>. HIDE DEF Held
    <3>. QED BY <1>2
  <2>2. ASSUME NEW a \in KnownIn(lines) PROVE a \in K
    <3>1. PICK i \in DOMAIN lines : /\ lines[i].address = line_addr(a)
                                   /\ a % BytesPerLine \in Held(i)
      BY <1>3
    <3>2. a \in Address
      BY DEF KnownIn
    <3>3. a = lines[i].address + (a % BytesPerLine)
      BY <3>1, <3>2, LineOfAddress
    <3>. HIDE DEF Held
    <3>. QED BY <3>1, <3>3
  <2>. QED BY <2>1, <2>2
<1>5. ASSUME NEW a \in KnownIn(lines)
      PROVE  (CHOOSE l \in ToSet(lines) : l.address = line_addr(a)).data[a % BytesPerLine]
               = Datum(lines, a)
  <2>1. PICK i \in DOMAIN lines : /\ lines[i].address = line_addr(a)
                                 /\ Datum(lines, a) = lines[i].data[a % BytesPerLine]
    BY <1>3
  <2>. DEFINE c == CHOOSE l \in ToSet(lines) : l.address = line_addr(a)
  <2>2. lines[i] \in ToSet(lines)
    BY DEF ToSet
  <2>3. c \in ToSet(lines) /\ c.address = line_addr(a)
    BY <2>1, <2>2
  <2>4. PICK j \in DOMAIN lines : c = lines[j]
    BY <2>3 DEF ToSet
  <2>5. j = i
    BY <2>1, <2>3, <2>4, OneLine
  <2>. QED BY <2>1, <2>4, <2>5
<1>. QED BY <1>4, <1>5

(* Every byte known after a message was known before or is in its span.    *)
LEMMA KnownAfter ==
  ASSUME NEW new, NEW old, NEW addr, NEW bytes, NEW k, BytesPut(new, old, addr, bytes, k),
         NEW a \in KnownIn(new.lines), a \notin KnownIn(old.lines)
  PROVE  a \in SpanTo(addr, k)
  BY DEF BytesPut, Stored, KnownIn

(***************************************************************************)
(* The range in the header of the tab.                                     *)
(***************************************************************************)

(* The emulators have addresses of 16 bits, and no message reaches the end *)
(* of the 32 bits they are kept in.                                        *)
NoWrap == \A addr \in Starts : addr + MaxDump <= AddrSpace

InRange(mem) ==
  \A a \in KnownIn(mem.lines) : mem.min_addr <= a /\ a <= mem.max_addr

LEMMA RangeStep ==
  ASSUME NEW mem, MapOK(mem), InRange(mem), NEW addr \in Address, NEW n \in Nat \ {0},
         addr + n <= AddrSpace, NEW bytes, NEW new,
         BytesPut(new, Widen(mem, addr, n), addr, bytes, n)
  PROVE  InRange(new)
<1>. DEFINE w == Widen(mem, addr, n)
<1>1. /\ MapOK(w) /\ w.lines = mem.lines
      /\ w.min_addr <= mem.min_addr /\ mem.max_addr <= w.max_addr
      /\ w.min_addr <= addr /\ (addr + n - 1) % AddrSpace <= w.max_addr
  BY WidenKeeps
<1>2. /\ mem.min_addr \in Nat /\ mem.max_addr \in Nat
      /\ w.min_addr \in Nat /\ w.max_addr \in Nat /\ Address \subseteq Nat
      /\ addr \in Nat /\ AddrSpace \in Nat \ {0}
  BY <1>1, MemorySizes DEF MapOK, Map, Address
<1>. HIDE DEF w
<1>3. new.min_addr = w.min_addr /\ new.max_addr = w.max_addr
  BY DEF BytesPut, w
<1>4. \A i \in 1..n : ByteAddr(addr, i) = addr + i - 1
  <2>. SUFFICES ASSUME NEW i \in 1..n PROVE ByteAddr(addr, i) = addr + i - 1
    OBVIOUS
  <2>1. addr + i - 1 < AddrSpace /\ addr + i - 1 \in 0..(2 * AddrSpace - 1)
    BY <1>2
  <2>. QED BY <1>2, <2>1, ModOnce DEF ByteAddr
<1>5. addr + n - 1 <= w.max_addr
  <2>1. n \in 1..n
    OBVIOUS
  <2>. QED BY <1>1, <1>4, <2>1 DEF ByteAddr
<1>. SUFFICES ASSUME NEW a \in KnownIn(new.lines)
              PROVE  w.min_addr <= a /\ a <= w.max_addr
  BY <1>3 DEF InRange
<1>6. a \in Nat
  BY <1>2 DEF KnownIn
<1>7. CASE a \in KnownIn(mem.lines)
  BY <1>1, <1>2, <1>6, <1>7 DEF InRange
<1>8. CASE a \notin KnownIn(mem.lines)
  <2>1. a \in SpanTo(addr, n)
    BY <1>1, <1>8, KnownAfter DEF w
  <2>2. PICK i \in 1..n : a = addr + i - 1
    BY <1>4, <2>1 DEF SpanTo
  <2>. QED BY <1>1, <1>2, <1>5, <2>2
<1>. QED BY <1>7, <1>8

LEMMA NothingKnown == KnownIn(<<>>) = {}
  BY DEF KnownIn, Datum, HasLine

RangeInv == MemInv /\ InRange(memory)

LEMMA RangeIsInRange == ASSUME RangeInv PROVE RangeCovers
<1>1. /\ memory.lines \in Seq(Line) /\ Ascending(memory.lines)
      /\ Aligned(memory.lines)
  BY DEF RangeInv, MemInv, MapOK, Map
<1>2. KnownAddrs = KnownIn(memory.lines)
  BY <1>1, KnownIsDatum DEF KnownAddrs
<1>. QED BY <1>2 DEF RangeInv, InRange, RangeCovers

(* No known byte is outside the range that the header of the tab shows.    *)
THEOREM RangeAlwaysCovers == NoWrap => (MemSpec => []RangeCovers)
<1>. SUFFICES ASSUME NoWrap PROVE MemSpec => []RangeCovers
  OBVIOUS
<1>1. MemInit => RangeInv
  BY InitMemInv, NothingKnown DEF MemInit, RangeInv, InRange
<1>2. RangeInv /\ [MemNext]_memVars => RangeInv'
  <2>. SUFFICES ASSUME RangeInv, [MemNext]_memVars PROVE RangeInv'
    OBVIOUS
  <2>0. MemInv /\ InRange(memory)
    BY DEF RangeInv
  <2>1. CASE datastore_memory_clear
    <3>1. memory'.lines = <<>>
      BY <2>1 DEF datastore_memory_clear
    <3>. QED BY <2>1, <3>1, MemClearStep, NothingKnown DEF RangeInv, InRange
  <2>2. ASSUME NEW addr \in Starts, NEW n \in 0..MaxDump, NEW bytes \in [1..n -> Bytes],
               NEW fails, process_memory_dump(addr, bytes, fails)
        PROVE  RangeInv'
    <3>1. n # 0
      BY <2>2 DEF process_memory_dump
    <3>2. n \in 1..MaxDump
      BY <3>1, MemorySizes
    <3>3. bytes \in Seq(Bytes) /\ Len(bytes) = n /\ n <= AddrSpace
      BY <3>2, MessageBytes
    <3>4. addr \in Address /\ n \in Nat \ {0} /\ addr + n <= AddrSpace
      <4>1. addr \in Nat /\ addr + MaxDump <= AddrSpace /\ AddrSpace \in Nat
        BY StartsAreAddresses, MemorySizes DEF NoWrap, Address
      <4>. QED BY <3>2, <4>1, StartsAreAddresses, MemorySizes
    <3>5. MemInv' /\ BytesPut(memory', Widen(memory, addr, n), addr, bytes, n)
      BY <2>0, <2>2, <3>3, <3>4, DumpStep
    <3>6. InRange(memory')
      BY <2>0, <3>4, <3>5, RangeStep DEF MemInv
    <3>. QED BY <3>5, <3>6 DEF RangeInv, InRange
  <2>3. ASSUME NEW addr \in Starts, NEW b \in Bytes, NEW fails,
               process_memory_byte(addr, b, fails)
        PROVE  RangeInv'
    <3>1. addr \in Address /\ addr + 1 <= AddrSpace
      <4>1. addr \in Address
        BY StartsAreAddresses
      <4>. QED BY <4>1, MemorySizes DEF Address
    <3>2. MemInv' /\ BytesPut(memory', Widen(memory, addr, 1), addr, <<b>>, 1)
      BY <2>0, <2>3, <3>1, ByteStep
    <3>3. InRange(memory')
      BY <2>0, <3>1, <3>2, RangeStep DEF MemInv
    <3>. QED BY <3>2, <3>3 DEF RangeInv, InRange
  <2>4. CASE UNCHANGED memVars
    BY <2>4 DEF memVars, RangeInv, MemInv, InRange
  <2>. QED BY <2>1, <2>2, <2>3, <2>4 DEF MemNext
<1>. QED BY <1>1, <1>2, RangeIsInRange, PTL DEF MemSpec

(***************************************************************************)
(* The memory implements ByteMap.                                          *)
(***************************************************************************)

KnownMap(lines) == [a \in KnownIn(lines) |-> Datum(lines, a)]

(* The function that stands for known.                                     *)
LEMMA KnownNow ==
  ASSUME NEW lines \in Seq(Line), Ascending(lines), Aligned(lines)
  PROVE  [a \in UNION {{lines[i].address + o :
                           o \in {p \in Offsets : lines[i].data[p] # NoByte}} :
                        i \in DOMAIN lines} |->
            (CHOOSE l \in ToSet(lines) : l.address = line_addr(a)).data[a % BytesPerLine]]
           = KnownMap(lines)
<1>. DEFINE K == UNION {{lines[i].address + o :
                           o \in {p \in Offsets : lines[i].data[p] # NoByte}} :
                        i \in DOMAIN lines}
            f(a) == (CHOOSE l \in ToSet(lines) :
                       l.address = line_addr(a)).data[a % BytesPerLine]
<1>1. K = KnownIn(lines) /\ \A a \in KnownIn(lines) : f(a) = Datum(lines, a)
  BY KnownIsDatum
<1>. HIDE DEF K, f
<1>2. [a \in K |-> f(a)] = [a \in KnownIn(lines) |-> Datum(lines, a)]
  BY <1>1
<1>. QED BY <1>2 DEF K, f, KnownMap

(* A message that is stored is one that the abstract memory receives.      *)
LEMMA ReceivedIsStored ==
  ASSUME NEW old, NEW new, MapOK(old), MapOK(new), NEW addr \in Address,
         NEW bytes \in Seq(Bytes), Len(bytes) \in 1..AddrSpace,
         BytesPut(new, old, addr, bytes, Len(bytes))
  PROVE  \E lost \in SUBSET M!Span(addr, Len(bytes)) :
           /\ \A a \in lost : ~ \E b \in KnownIn(old.lines) :
                                 b \div BytesPerLine = a \div BytesPerLine
           /\ KnownMap(new.lines) = M!Filled(KnownMap(old.lines), addr, bytes,
                                            M!Span(addr, Len(bytes)) \ lost)
<1>. DEFINE n == Len(bytes)
            Span == SpanTo(addr, n)
<1>1. M!Span(addr, n) = Span /\ \A i : M!At(addr, i) = ByteAddr(addr, i)
  BY DEF M!Span, M!At, SpanTo, ByteAddr
<1>2. PICK lost \in SUBSET Address : Stored(new, old, addr, bytes, n, lost)
  BY DEF BytesPut
<1>3. lost \subseteq Span /\ \A x \in lost : ~HasLine(old.lines, x)
  BY <1>2 DEF Stored
<1>4. ASSUME NEW a \in lost, NEW b \in KnownIn(old.lines),
             b \div BytesPerLine = a \div BytesPerLine
      PROVE  FALSE
  <2>1. HasLine(old.lines, b)
    BY DEF KnownIn, Datum
  <2>2. line_addr(b) = line_addr(a)
    BY <1>4 DEF line_addr
  <2>3. HasLine(old.lines, a)
    BY <2>1, <2>2 DEF HasLine
  <2>. QED BY <1>3, <2>3
<1>. DEFINE kept == Span \ lost
            last(a) == bytes[CHOOSE i \in DOMAIN bytes : ByteAddr(addr, i) = a]
<1>5. ASSUME NEW a \in kept
      PROVE  a \in Address /\ Datum(new.lines, a) = last(a) /\ last(a) \in Bytes
  <2>1. DOMAIN bytes = 1..n
    OBVIOUS
  <2>. DEFINE c == CHOOSE i \in DOMAIN bytes : ByteAddr(addr, i) = a
  <2>2. \E i \in DOMAIN bytes : ByteAddr(addr, i) = a
    BY <2>1 DEF SpanTo
  <2>3. c \in 1..n /\ ByteAddr(addr, c) = a
    BY <2>1, <2>2
  <2>. HIDE DEF c
  <2>4. a \in Address
    BY <2>3, ByteAddrType
  <2>5. Datum(new.lines, a) = bytes[c]
    BY <1>2, <2>3 DEF Stored
  <2>6. bytes[c] \in Bytes
    BY <2>3, ElementOfSeq
  <2>. QED BY <2>4, <2>5, <2>6 DEF c
<1>6. \A a \in Address : a \notin kept => Datum(new.lines, a) = Datum(old.lines, a)
  BY <1>2 DEF Stored
<1>7. NoByte \notin Bytes
  BY MemorySizes
<1>. HIDE DEF kept, last
<1>8. KnownIn(new.lines) = KnownIn(old.lines) \union kept
  BY <1>5, <1>6, <1>7 DEF KnownIn
<1>9. KnownIn(old.lines) \subseteq Address
  BY DEF KnownIn
<1>10. KnownMap(new.lines)
         = [a \in KnownIn(old.lines) \union kept |->
              IF a \in kept THEN last(a) ELSE KnownMap(old.lines)[a]]
  <2>1. ASSUME NEW a \in KnownIn(old.lines) \union kept
        PROVE  Datum(new.lines, a)
                 = IF a \in kept THEN last(a) ELSE KnownMap(old.lines)[a]
    BY <1>5, <1>6, <1>9 DEF KnownMap
  <2>2. KnownMap(new.lines) = [a \in KnownIn(old.lines) \union kept |-> Datum(new.lines, a)]
    BY <1>8 DEF KnownMap
  <2>. QED BY <2>1, <2>2
<1>11. KnownMap(new.lines) = M!Filled(KnownMap(old.lines), addr, bytes, kept)
  <2>1. DOMAIN KnownMap(old.lines) = KnownIn(old.lines)
    BY DEF KnownMap
  <2>2. M!Filled(KnownMap(old.lines), addr, bytes, kept)
          = [a \in KnownIn(old.lines) \union kept |->
               IF a \in kept THEN last(a) ELSE KnownMap(old.lines)[a]]
    BY <2>1 DEF M!Filled, M!At, ByteAddr, last
  <2>. QED BY <1>10, <2>2
<1>. QED BY <1>1, <1>3, <1>4, <1>11 DEF kept

(* The history keeps what the abstract memory calls sent.                  *)
LEMMA SentIsFilled ==
  ASSUME NEW addr, NEW bytes, NEW n \in Nat, Len(bytes) = n, DOMAIN bytes = 1..n,
         Sent(addr, bytes)
  PROVE  mem_sent' = M!Filled(mem_sent, addr, bytes, M!Span(addr, n))
  BY DEF Sent, M!Filled, M!Span, M!At, ByteAddr

LEMMA ReceiveStep ==
  ASSUME MemInv, MemInv', NEW addr \in Address, NEW bytes \in Seq(Bytes),
         Len(bytes) \in 1..MaxDump,
         BytesPut(memory', Widen(memory, addr, Len(bytes)), addr, bytes, Len(bytes)),
         Sent(addr, bytes)
  PROVE  M!Next
<1>. DEFINE n == Len(bytes)
            w == Widen(memory, addr, n)
<1>1. n \in Nat \ {0} /\ n \in 1..AddrSpace /\ DOMAIN bytes = 1..n /\ n \in 1..MaxDump
      /\ bytes \in [1..n -> Bytes]
  <2>1. n \in Nat \ {0} /\ n \in 1..AddrSpace
    BY MemorySizes
  <2>. QED BY <2>1
<1>2. MapOK(w) /\ w.lines = memory.lines
  BY <1>1, WidenKeeps DEF MemInv
<1>. HIDE DEF w
<1>3. PICK lost \in SUBSET M!Span(addr, n) :
        /\ \A a \in lost : ~ \E b \in KnownIn(memory.lines) :
                              b \div BytesPerLine = a \div BytesPerLine
        /\ KnownMap(memory'.lines) = M!Filled(KnownMap(memory.lines), addr, bytes,
                                             M!Span(addr, n) \ lost)
  <2>1. BytesPut(memory', w, addr, bytes, n)
    BY DEF w
  <2>2. MapOK(memory')
    BY DEF MemInv
  <2>3. \E lost \in SUBSET M!Span(addr, n) :
          /\ \A a \in lost : ~ \E b \in KnownIn(w.lines) :
                                b \div BytesPerLine = a \div BytesPerLine
          /\ KnownMap(memory'.lines) = M!Filled(KnownMap(w.lines), addr, bytes,
                                               M!Span(addr, n) \ lost)
    BY <1>1, <1>2, <2>1, <2>2, ReceivedIsStored
  <2>. QED BY <1>2, <2>3
<1>4. mem_sent' = M!Filled(mem_sent, addr, bytes, M!Span(addr, n))
  BY <1>1, SentIsFilled
<1>5. /\ memory.lines \in Seq(Line) /\ Ascending(memory.lines) /\ Aligned(memory.lines)
      /\ memory'.lines \in Seq(Line) /\ Ascending(memory'.lines)
      /\ Aligned(memory'.lines)
  BY DEF MemInv, MapOK, Map
<1>. DEFINE known == [a \in KnownAddrs |->
                        (CHOOSE l \in ToSet(memory.lines) :
                           l.address = line_addr(a)).data[a % BytesPerLine]]
<1>6. known = KnownMap(memory.lines)
  BY <1>5, KnownNow DEF KnownAddrs
<1>7. known' = KnownMap(memory'.lines)
  BY <1>5, KnownNow DEF KnownAddrs
<1>8. DOMAIN known = KnownIn(memory.lines)
  BY <1>6 DEF KnownMap
<1>9. M!Receive(addr, bytes, lost)
  <2>1. \A a \in lost : ~M!Shown(a)
    BY <1>3, <1>8 DEF M!Shown
  <2>2. known' = M!Filled(known, addr, bytes, M!Span(addr, n) \ lost)
    BY <1>3, <1>6, <1>7
  <2>. QED BY <1>4, <2>1, <2>2 DEF M!Receive
<1>10. lost \in SUBSET {a \in M!Span(addr, n) : ~M!Shown(a)}
  BY <1>3, <1>8 DEF M!Shown
<1>. QED BY <1>1, <1>9, <1>10 DEF M!Next, Address

(* The array of lines holds, for every address, the last byte received:    *)
(* only bytes for which there was neither a line nor memory get lost.      *)
THEOREM HoldsLast == MemSpec => HoldsLastBytes
<1>1. MemInit => M!Init
  BY DEF MemInit, KnownAddrs, M!Init, M!Empty
<1>2. MemInv /\ MemInv' /\ [MemNext]_memVars => [M!Next]_(M!vars)
  <2>. SUFFICES ASSUME MemInv, MemInv', [MemNext]_memVars PROVE [M!Next]_(M!vars)
    OBVIOUS
  <2>1. CASE datastore_memory_clear
    <3>1. memory'.lines = <<>> /\ mem_sent' = <<>>
      BY <2>1 DEF datastore_memory_clear
    <3>2. M!Clear
      BY <3>1 DEF M!Clear, M!Empty, KnownAddrs
    <3>. QED BY <3>2 DEF M!Next
  <2>2. ASSUME NEW addr \in Starts, NEW n \in 0..MaxDump, NEW bytes \in [1..n -> Bytes],
               NEW fails, process_memory_dump(addr, bytes, fails)
        PROVE  M!Next
    <3>1. n # 0
      BY <2>2 DEF process_memory_dump
    <3>2. n \in 1..MaxDump
      BY <3>1, MemorySizes
    <3>3. bytes \in Seq(Bytes) /\ Len(bytes) = n /\ n <= AddrSpace
      BY <3>2, MessageBytes
    <3>4. BytesPut(memory', Widen(memory, addr, n), addr, bytes, n)
      BY <2>2, <3>3, StartsAreAddresses, DumpStep
    <3>5. Sent(addr, bytes)
      BY <2>2 DEF process_memory_dump
    <3>. QED BY <3>2, <3>3, <3>4, <3>5, StartsAreAddresses, ReceiveStep
  <2>3. ASSUME NEW addr \in Starts, NEW b \in Bytes, NEW fails,
               process_memory_byte(addr, b, fails)
        PROVE  M!Next
    <3>1. <<b>> \in Seq(Bytes) /\ Len(<<b>>) = 1 /\ 1 \in 1..MaxDump
      BY MemorySizes
    <3>2. BytesPut(memory', Widen(memory, addr, 1), addr, <<b>>, 1)
      BY <2>3, StartsAreAddresses, ByteStep
    <3>3. Sent(addr, <<b>>)
      BY <2>3 DEF process_memory_byte
    <3>. QED BY <3>1, <3>2, <3>3, StartsAreAddresses, ReceiveStep
  <2>4. CASE UNCHANGED memVars
    BY <2>4 DEF memVars, M!vars, KnownAddrs
  <2>. QED BY <2>1, <2>2, <2>3, <2>4 DEF MemNext
<1>. QED BY <1>1, <1>2, MemInvariance, PTL DEF MemSpec, HoldsLastBytes, M!Spec
==============================================================================
