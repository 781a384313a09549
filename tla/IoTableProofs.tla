---------------------------- MODULE IoTableProofs ----------------------------
(***************************************************************************)
(* Theorems about IoTable, for every set of keys and values and every size *)
(* of the table.  The order of the entries is proved for a session of at   *)
(* most INT_MAX io messages: past that the order counter overflows.        *)
(***************************************************************************)
EXTENDS IoTable, NumberFacts, FiniteSetTheorems, TLAPS

(* No more io messages between two clears than the order counter can count.*)
FewMessages == MaxIo <= IntMax

(* The counter has not wrapped, and an entry's order is the number of the  *)
(* message that wrote it.                                                  *)
Stamps ==
  /\ io.next_order = io_messages
  /\ \A i \in DOMAIN io.entries :
       io.entries[i].order = io.entries[i].ts /\ io.entries[i].ts < io_messages

StampsUnique ==
  \A i, j \in DOMAIN io.entries : io.entries[i].ts = io.entries[j].ts => i = j

IoShape ==
  /\ io = [entries |-> io.entries, next_order |-> io.next_order]
  /\ IoTypeOK

IInv == IoShape /\ KeysUnique /\ (FewMessages => Stamps /\ StampsUnique)

(***************************************************************************)
(* process_io() writes one slot with the key and value of the message and  *)
(* leaves the other slots alone.                                           *)
(***************************************************************************)
Written(d, i) ==
  /\ i \in DOMAIN io'.entries
  /\ io'.entries \in Seq(IoEntry)
  /\ Len(io'.entries) <= IoMaxEntries
  /\ DOMAIN io'.entries = DOMAIN io.entries \union {i}
  /\ \A j \in DOMAIN io.entries \ {i} : io'.entries[j] = io.entries[j]
  /\ io'.entries[i].key = make_io_key(d)
  /\ io'.entries[i].val = d.val
  /\ io'.entries[i].ts = io_messages
  /\ io'.entries[i].order = io.next_order
  /\ io' = [entries |-> io'.entries, next_order |-> Wrap(io.next_order + 1)]

(* What the slot held before: the key itself, nothing (the key is new and  *)
(* the slot too), or the oldest entry of a full table.                     *)
SlotChoice(d, i) ==
  \/ i \in DOMAIN io.entries /\ io.entries[i].key = make_io_key(d)
  \/ /\ i = Len(io.entries) + 1 /\ Len(io.entries) < IoMaxEntries
     /\ Holders(make_io_key(d)) = {}
  \/ /\ i \in DOMAIN io.entries /\ Len(io.entries) >= IoMaxEntries
     /\ Holders(make_io_key(d)) = {}
     /\ \A j \in DOMAIN io.entries : io.entries[i].order <= io.entries[j].order

LEMMA KeyType == ASSUME NEW d \in IoMessage PROVE make_io_key(d) \in IoKey
  BY DEF IoMessage, make_io_key, IoKey, Loc

LEMMA WrapType ==
  ASSUME NEW n \in Int32 PROVE Wrap(n + 1) \in Int32
  BY IoSizesAreNat DEF Wrap, Int32

(* A full table has an oldest entry, and oldest_idx is its slot.           *)
LEMMA OldestExists ==
  ASSUME IoTypeOK, io.entries # <<>>
  PROVE  /\ oldest_idx \in DOMAIN io.entries
         /\ \A j \in DOMAIN io.entries :
              io.entries[oldest_idx].order <= io.entries[j].order
<1>. DEFINE es == io.entries
            Rank(i) == es[i].order + IntMax + 1
            Ranks == {Rank(i) : i \in DOMAIN es}
<1>1. /\ DOMAIN es \subseteq Nat /\ DOMAIN es # {}
      /\ \A i \in DOMAIN es : es[i].order \in Int /\ Rank(i) \in Nat
  <2>1. \A i \in DOMAIN es : es[i] \in IoEntry
    BY DEF IoTypeOK
  <2>2. \A i \in DOMAIN es : es[i].order \in Int32
    BY <2>1 DEF IoEntry
  <2>3. \A n \in Int32 : n \in Int /\ n + IntMax + 1 \in Nat
    BY IoSizesAreNat DEF Int32
  <2>4. \A i \in DOMAIN es : es[i].order \in Int /\ Rank(i) \in Nat
    BY <2>2, <2>3
  <2>5. DOMAIN es \subseteq Nat /\ DOMAIN es # {}
    <3>1. es \in Seq(IoEntry) /\ es # <<>>
      BY DEF IoTypeOK
    <3>2. Len(es) \in Nat /\ DOMAIN es = 1..Len(es) /\ Len(es) # 0
      BY <3>1
    <3>3. 1 \in DOMAIN es
      BY <3>2
    <3>. QED BY <3>2, <3>3
  <2>. QED BY <2>4, <2>5
<1>2. PICK r \in Ranks : \A q \in Ranks : r <= q
  <2>1. Ranks \in SUBSET Nat /\ Ranks # {}
    BY <1>1
  <2>. QED BY <2>1, LeastNat
<1>. DEFINE Lowest == {i \in DOMAIN es : Rank(i) = r}
<1>3. PICK i \in Lowest : \A j \in Lowest : i <= j
  <2>1. Lowest \in SUBSET Nat /\ Lowest # {}
    BY <1>1, <1>2
  <2>. QED BY <2>1, LeastNat
<1>4. \A j \in DOMAIN es :
        es[i].order < es[j].order \/ (es[i].order = es[j].order /\ i <= j)
  <2>. TAKE j \in DOMAIN es
  <2>1. Rank(i) = r /\ r <= Rank(j)
    BY <1>2, <1>3
  <2>2. CASE Rank(j) = r
    <3>1. i <= j
      BY <2>2, <1>3
    <3>2. es[i].order + IntMax + 1 = es[j].order + IntMax + 1
          /\ es[i].order \in Int /\ es[j].order \in Int /\ IntMax \in Nat
      BY <2>1, <2>2, <1>1, <1>3, IoSizesAreNat
    <3>3. es[i].order = es[j].order
      <4>1. \A a, b, c \in Int : a + c + 1 = b + c + 1 => a = b
        OBVIOUS
      <4>. QED BY <4>1, <3>2
    <3>. QED BY <3>1, <3>3
  <2>3. CASE Rank(j) # r
    <3>1. es[i].order + IntMax + 1 <= es[j].order + IntMax + 1
          /\ es[i].order + IntMax + 1 # es[j].order + IntMax + 1
          /\ es[i].order \in Int /\ es[j].order \in Int /\ IntMax \in Nat
      BY <2>1, <2>3, <1>1, <1>3, IoSizesAreNat
    <3>2. es[i].order < es[j].order
      BY ONLY <3>1
    <3>. QED BY <3>2
  <2>. QED BY <2>2, <2>3
<1>5. /\ oldest_idx \in DOMAIN es
      /\ \A j \in DOMAIN es :
           \/ es[oldest_idx].order < es[j].order
           \/ es[oldest_idx].order = es[j].order /\ oldest_idx <= j
  BY <1>3, <1>4 DEF oldest_idx
<1>. QED
  <2>. SUFFICES ASSUME NEW j \in DOMAIN es
                PROVE  es[oldest_idx].order <= es[j].order
    BY <1>5
  <2>1. es[oldest_idx].order \in Int /\ es[j].order \in Int
    BY <1>1, <1>5
  <2>. QED BY <2>1, <1>5

(* A slot that holds the key is found.                                     *)
LEMMA FindFinds ==
  ASSUME IoTypeOK, KeysUnique, NEW key, Holders(key) # {}
  PROVE  find_io_entry(key) \in DOMAIN io.entries
         /\ io.entries[find_io_entry(key)].key = key
<1>1. PICK i : i \in Holders(key)
  OBVIOUS
<1>2. \A j \in Holders(key) : j = i /\ i <= j
  BY <1>1 DEF Holders, KeysUnique, IoTypeOK
<1>3. find_io_entry(key) \in Holders(key)
  BY <1>1, <1>2 DEF find_io_entry
<1>. QED BY <1>3 DEF Holders

(* Whatever branch process_io() takes, it writes the right slot.           *)
LEMMA StoreWrites ==
  ASSUME IInv, NEW d \in IoMessage, process_io(d)
  PROVE  \E i \in Nat : Written(d, i) /\ SlotChoice(d, i)
<1>. DEFINE key == make_io_key(d)
            es == io.entries
<1>1. /\ key \in IoKey /\ d.addr \in Loc /\ d.idx \in Loc /\ d.val \in Vals
      /\ io.next_order \in Int32 /\ io_messages \in Nat
      /\ es \in Seq(IoEntry) /\ Len(es) <= IoMaxEntries /\ IoMaxEntries \in Nat \ {0}
      /\ IoTypeOK /\ KeysUnique
  BY KeyType, IoSizesAreNat DEF IInv, IoShape, IoTypeOK, IoMessage, Loc
<1>2. NewEntry(d) \in IoEntry /\ NewEntry(d).key = key /\ NewEntry(d).val = d.val
      /\ NewEntry(d).ts = io_messages /\ NewEntry(d).order = io.next_order
  BY <1>1 DEF NewEntry, IoEntry
<1>3. CASE UpdateEntry(d)
  <2>. DEFINE i == find_io_entry(key)
              e == [es[i] EXCEPT !.val = d.val, !.ts = io_messages, !.order = io.next_order]
  <2>1. i \in DOMAIN es /\ es[i].key = key /\ es[i] \in IoEntry /\ i \in Nat
    BY <1>1, <1>3, FindFinds DEF UpdateEntry
  <2>2. io' = [entries |-> [es EXCEPT ![i] = e], next_order |-> Wrap(io.next_order + 1)]
    BY <1>3 DEF UpdateEntry, StoreIo
  <2>3. e \in IoEntry /\ e.key = key /\ e.val = d.val
        /\ e.ts = io_messages /\ e.order = io.next_order
    BY <1>1, <2>1 DEF IoEntry
  <2>. HIDE DEF i, e
  <2>4. /\ io'.entries = [es EXCEPT ![i] = e]
        /\ io'.entries \in Seq(IoEntry) /\ Len(io'.entries) = Len(es)
        /\ DOMAIN io'.entries = DOMAIN es
        /\ io'.entries[i] = e /\ \A j \in DOMAIN es \ {i} : io'.entries[j] = es[j]
    BY <1>1, <2>1, <2>2, <2>3
  <2>5. Written(d, i)
    BY <1>1, <2>1, <2>2, <2>3, <2>4 DEF Written
  <2>. QED BY <2>1, <2>5 DEF SlotChoice
<1>4. CASE AddEntry(d)
  <2>. DEFINE i == Len(es) + 1
              e == NewEntry(d)
  <2>1. /\ Holders(key) = {} /\ Len(es) < IoMaxEntries
        /\ io' = [entries |-> Append(es, e), next_order |-> Wrap(io.next_order + 1)]
    BY <1>4 DEF AddEntry, StoreIo
  <2>. HIDE DEF e
  <2>2. e \in IoEntry
    BY <1>2 DEF e
  <2>3. /\ io'.entries = Append(es, e)
        /\ io'.entries \in Seq(IoEntry) /\ Len(io'.entries) = i
        /\ DOMAIN io'.entries = DOMAIN es \union {i} /\ i \in DOMAIN io'.entries
        /\ io'.entries[i] = e /\ \A j \in DOMAIN es \ {i} : io'.entries[j] = es[j]
        /\ i \in Nat /\ i <= IoMaxEntries
    BY <1>1, <2>1, <2>2
  <2>4. Written(d, i)
    BY <1>2, <2>1, <2>3 DEF Written, e
  <2>. QED BY <2>1, <2>3, <2>4 DEF SlotChoice
<1>5. CASE ReplaceOldest(d)
  <2>. DEFINE i == oldest_idx
              e == NewEntry(d)
  <2>1. /\ Holders(key) = {} /\ Len(es) >= IoMaxEntries
        /\ io' = [entries |-> [es EXCEPT ![i] = e], next_order |-> Wrap(io.next_order + 1)]
    BY <1>5 DEF ReplaceOldest, StoreIo
  <2>2. es # <<>>
    BY <1>1, <2>1
  <2>3. i \in DOMAIN es /\ i \in Nat
        /\ \A j \in DOMAIN es : es[i].order <= es[j].order
    BY <1>1, <2>2, OldestExists
  <2>. HIDE DEF i, e
  <2>4. e \in IoEntry
    BY <1>2 DEF e
  <2>5. /\ io'.entries = [es EXCEPT ![i] = e]
        /\ io'.entries \in Seq(IoEntry) /\ Len(io'.entries) = Len(es)
        /\ DOMAIN io'.entries = DOMAIN es
        /\ io'.entries[i] = e /\ \A j \in DOMAIN es \ {i} : io'.entries[j] = es[j]
    BY <1>1, <2>1, <2>3, <2>4
  <2>6. Written(d, i)
    BY <1>1, <1>2, <2>1, <2>3, <2>5 DEF Written, e
  <2>. QED BY <2>1, <2>3, <2>6 DEF SlotChoice
<1>. QED BY <1>3, <1>4, <1>5 DEF process_io

(***************************************************************************)
(* The inductive invariant.                                                *)
(***************************************************************************)
LEMMA InitIInv == IoInit => IInv
<1>. SUFFICES ASSUME IoInit PROVE IInv
  OBVIOUS
<1>1. io = [entries |-> <<>>, next_order |-> 0] /\ io_messages = 0
  BY DEF IoInit, EmptyIo
<1>2. io.entries = <<>> /\ DOMAIN io.entries = {} /\ io.next_order = 0
      /\ Len(io.entries) = 0 /\ io.entries \in Seq(IoEntry)
  BY <1>1
<1>3. IoShape
  BY <1>1, <1>2, IoSizesAreNat DEF IoShape, IoTypeOK, Int32
<1>. QED BY <1>1, <1>2, <1>3 DEF IInv, KeysUnique, Stamps, StampsUnique

LEMMA ClearIInv == ASSUME ClearIo PROVE IInv'
<1>1. io' = [entries |-> <<>>, next_order |-> 0] /\ io_messages' = 0
  BY DEF ClearIo, datastore_io_clear, EmptyIo
<1>2. io'.entries = <<>> /\ DOMAIN io'.entries = {} /\ io'.next_order = 0
      /\ Len(io'.entries) = 0 /\ io'.entries \in Seq(IoEntry)
  BY <1>1
<1>3. IoShape'
  BY <1>1, <1>2, IoSizesAreNat DEF IoShape, IoTypeOK, Int32
<1>. QED BY <1>1, <1>2, <1>3 DEF IInv, KeysUnique, Stamps, StampsUnique

LEMMA ProcessIInv ==
  ASSUME IInv, NEW d \in IoMessage, process_io(d)
  PROVE  IInv'
<1>1. PICK i \in Nat : Written(d, i) /\ SlotChoice(d, i)
  BY StoreWrites
<1>2. /\ io_messages' = io_messages + 1 /\ io_messages < MaxIo
      /\ io_messages \in Nat /\ io_messages \in 0..MaxIo /\ io.next_order \in Int32
  BY DEF process_io, IInv, IoShape, IoTypeOK
<1>3. IoShape'
  <2>1. Wrap(io.next_order + 1) \in Int32
    BY <1>2, WrapType
  <2>2. io_messages' \in 0..MaxIo
    BY <1>2, IoSizesAreNat
  <2>3. io'.next_order = Wrap(io.next_order + 1)
    BY <1>1 DEF Written
  <2>. QED BY <1>1, <2>1, <2>2, <2>3 DEF Written, IoShape, IoTypeOK
<1>4. KeysUnique'
  <2>. SUFFICES ASSUME NEW j \in DOMAIN io'.entries, NEW k \in DOMAIN io'.entries,
                       io'.entries[j].key = io'.entries[k].key
                PROVE  j = k
    BY DEF KeysUnique
  <2>1. \A m \in DOMAIN io.entries \ {i} : io.entries[m].key # make_io_key(d)
    <3>1. CASE i \in DOMAIN io.entries /\ io.entries[i].key = make_io_key(d)
      BY <3>1 DEF IInv, KeysUnique
    <3>2. CASE Holders(make_io_key(d)) = {}
      BY <3>2 DEF Holders
    <3>. QED BY <1>1, <3>1, <3>2 DEF SlotChoice
  <2>2. CASE j = i \/ k = i
    BY <1>1, <2>1, <2>2 DEF Written
  <2>3. CASE j # i /\ k # i
    BY <1>1, <2>3 DEF Written, IInv, KeysUnique
  <2>. QED BY <2>2, <2>3
<1>5. FewMessages => Stamps' /\ StampsUnique'
  <2>. SUFFICES ASSUME FewMessages PROVE Stamps' /\ StampsUnique'
    OBVIOUS
  <2>1. io.next_order = io_messages /\ io_messages + 1 <= IntMax
    BY <1>2, IoSizesAreNat DEF IInv, Stamps, FewMessages
  <2>2. io'.next_order = io_messages'
    <3>1. Wrap(io_messages + 1) = io_messages + 1
      BY <1>2, <2>1, IoSizesAreNat DEF Wrap
    <3>2. io'.next_order = Wrap(io.next_order + 1)
      BY <1>1 DEF Written
    <3>. QED BY <1>2, <2>1, <3>1, <3>2
  <2>3. \A j \in DOMAIN io.entries :
          /\ io.entries[j].order = io.entries[j].ts
          /\ io.entries[j].ts < io_messages /\ io.entries[j].ts \in Nat
    <3>1. \A j \in DOMAIN io.entries : io.entries[j] \in IoEntry
      BY DEF IInv, IoShape, IoTypeOK
    <3>2. \A j \in DOMAIN io.entries : io.entries[j].ts \in Nat
      BY <3>1 DEF IoEntry
    <3>3. Stamps
      BY DEF IInv
    <3>. QED BY <3>2, <3>3 DEF Stamps
  <2>4. \A j \in DOMAIN io'.entries :
          /\ io'.entries[j].order = io'.entries[j].ts
          /\ io'.entries[j].ts < io_messages'
    <3>. TAKE j \in DOMAIN io'.entries
    <3>1. CASE j = i
      BY <1>1, <1>2, <2>1, <3>1 DEF Written
    <3>2. CASE j # i
      <4>1. j \in DOMAIN io.entries /\ io'.entries[j] = io.entries[j]
        BY <1>1, <3>2 DEF Written
      <4>. QED BY <4>1, <2>3, <1>2
    <3>. QED BY <3>1, <3>2
  <2>5. ASSUME NEW j \in DOMAIN io'.entries, NEW k \in DOMAIN io'.entries,
               io'.entries[j].ts = io'.entries[k].ts
        PROVE  j = k
    <3>1. \A m \in DOMAIN io.entries \ {i} : io'.entries[m].ts # io_messages
      BY <1>1, <1>2, <2>3 DEF Written
    <3>2. CASE j = i \/ k = i
      BY <1>1, <2>5, <3>1, <3>2 DEF Written
    <3>3. CASE j # i /\ k # i
      BY <1>1, <2>5, <3>3 DEF Written, IInv, StampsUnique
    <3>. QED BY <3>2, <3>3
  <2>. QED BY <2>2, <2>4, <2>5 DEF Stamps, StampsUnique
<1>. QED BY <1>3, <1>4, <1>5 DEF IInv, FewMessages

(* IInv is inductive, for every bound on the messages.                     *)
THEOREM Invariance == IoSpec => []IInv
<1>1. IInv /\ [IoNext]_ioVars => IInv'
  <2>. SUFFICES ASSUME IInv, [IoNext]_ioVars PROVE IInv'
    OBVIOUS
  <2>1. CASE ClearIo
    BY <2>1, ClearIInv
  <2>2. CASE \E d \in IoMessage : process_io(d)
    BY <2>2, ProcessIInv
  <2>3. CASE UNCHANGED ioVars
    BY <2>3 DEF ioVars, IInv, IoShape, IoTypeOK, KeysUnique, FewMessages, Stamps,
                StampsUnique
  <2>. QED BY <2>1, <2>2, <2>3 DEF IoNext
<1>. QED BY <1>1, InitIInv, PTL DEF IoSpec

(* The table stays inside its array, also after the order counter wrapped. *)
THEOREM TypeCorrect == IoSpec => []IoTypeOK
<1>1. IInv => IoTypeOK
  BY DEF IInv, IoShape
<1>. QED BY <1>1, Invariance, PTL

(* A key never has two entries, also after the order counter wrapped.      *)
THEOREM KeysStayUnique == IoSpec => []KeysUnique
<1>1. IInv => KeysUnique
  BY DEF IInv
<1>. QED BY <1>1, Invariance, PTL

(***************************************************************************)
(* The order of the entries.                                               *)
(***************************************************************************)

(* With no wrap, one entry is listed above another when its order number   *)
(* is smaller.                                                             *)
LEMMA AboveIsLess ==
  ASSUME NEW a \in 0..IntMax, NEW b \in 0..IntMax
  PROVE  Wrap(a - b) < 0 <=> a < b
<1>1. IntMax \in Nat /\ a \in Int /\ b \in Int /\ 0 <= a /\ a <= IntMax
      /\ 0 <= b /\ b <= IntMax
  BY IoSizesAreNat
<1>2. ~(a - b > IntMax) /\ ~(a - b < -IntMax - 1)
  BY <1>1
<1>3. Wrap(a - b) = a - b
  BY <1>2 DEF Wrap
<1>. QED BY <1>1, <1>3

LEMMA StampedOrders ==
  ASSUME IInv, FewMessages
  PROVE  /\ Stamps /\ StampsUnique
         /\ \A i \in DOMAIN io.entries :
              /\ io.entries[i].order \in 0..IntMax
              /\ io.entries[i].order = io.entries[i].ts
              /\ io.entries[i].order < io.next_order
         /\ io.next_order \in 0..IntMax
<1>1. Stamps /\ StampsUnique
  BY DEF IInv
<1>2. io_messages \in Nat /\ io_messages <= IntMax /\ IntMax \in Nat
  BY IoSizesAreNat DEF IInv, IoShape, IoTypeOK, FewMessages
<1>3. \A i \in DOMAIN io.entries : io.entries[i] \in IoEntry
  BY DEF IInv, IoShape, IoTypeOK
<1>4. \A i \in DOMAIN io.entries : io.entries[i].ts \in Nat
  BY <1>3 DEF IoEntry
<1>5. ASSUME NEW i \in DOMAIN io.entries
      PROVE  /\ io.entries[i].order \in 0..IntMax
             /\ io.entries[i].order = io.entries[i].ts
             /\ io.entries[i].order < io.next_order
  BY <1>1, <1>2, <1>4 DEF Stamps
<1>6. io.next_order \in 0..IntMax
  BY <1>1, <1>2 DEF Stamps
<1>. QED BY <1>1, <1>5, <1>6

(* One entry is then listed above another when it was sent before it.      *)
LEMMA AboveIsEarlier == ASSUME IInv, FewMessages PROVE MostRecentLast
<1>. SUFFICES ASSUME NEW i \in DOMAIN io.entries, NEW j \in DOMAIN io.entries
              PROVE  Above(io.entries[i], io.entries[j])
                       <=> io.entries[i].ts < io.entries[j].ts
  BY DEF MostRecentLast
<1>1. /\ io.entries[i].order \in 0..IntMax /\ io.entries[j].order \in 0..IntMax
      /\ io.entries[i].order = io.entries[i].ts
      /\ io.entries[j].order = io.entries[j].ts
  BY StampedOrders
<1>2. Wrap(io.entries[i].order - io.entries[j].order) < 0
        <=> io.entries[i].order < io.entries[j].order
  BY <1>1, AboveIsLess
<1>. QED BY <1>1, <1>2 DEF Above

(* The IO tab and the snapshot list the entries in the order in which they *)
(* were last sent, as long as the order counter has not overflowed.        *)
THEOREM ListedInOrder == FewMessages => (IoSpec => []MostRecentLast)
<1>. SUFFICES ASSUME FewMessages PROVE IoSpec => []MostRecentLast
  OBVIOUS
<1>1. IInv => MostRecentLast
  BY AboveIsEarlier
<1>. QED BY <1>1, Invariance, PTL

(***************************************************************************)
(* The array implements the table that forgets the oldest key.             *)
(***************************************************************************)
UniqueIn(es) == \A i, j \in DOMAIN es : es[i].key = es[j].key => i = j

(* The value of a held key is that of its only entry.                      *)
LEMMA LookUp ==
  ASSUME NEW es, UniqueIn(es), NEW i \in DOMAIN es
  PROVE  /\ es[i].key \in HeldKeys(es)
         /\ TableOf(es)[es[i].key] = es[i].val
<1>1. es[i].key \in HeldKeys(es)
  BY DEF HeldKeys
<1>2. (CHOOSE j \in DOMAIN es : es[j].key = es[i].key) = i
  BY DEF UniqueIn
<1>3. TableOf(es)[es[i].key]
        = es[CHOOSE j \in DOMAIN es : es[j].key = es[i].key].val
  BY <1>1 DEF TableOf
<1>. QED BY <1>1, <1>2, <1>3

(* The abstract table counts its keys with the same operator.              *)
LEMMA SameCardinality == \A S : R!Cardinality(S) = Cardinality(S)
  BY DEF R!Cardinality, Cardinality

(* There are as many keys as entries.                                      *)
LEMMA KeysCounted ==
  ASSUME IoTypeOK, KeysUnique
  PROVE  Cardinality(HeldKeys(io.entries)) = Len(io.entries)
<1>. DEFINE es == io.entries
            n == Len(es)
            f == [i \in 1..n |-> es[i].key]
<1>1. n \in Nat /\ DOMAIN es = 1..n
  BY DEF IoTypeOK
<1>2. f \in Bijection(1..n, HeldKeys(es))
  <2>1. f \in [1..n -> HeldKeys(es)]
    BY <1>1 DEF HeldKeys
  <2>2. IsInjective(f)
    BY <1>1 DEF IsInjective, KeysUnique
  <2>3. \A t \in HeldKeys(es) : \E m \in 1..n : f[m] = t
    BY <1>1 DEF HeldKeys
  <2>. QED BY <2>1, <2>2, <2>3 DEF Bijection, Injection, Surjection
<1>3. ExistsBijection(1..n, HeldKeys(es))
  BY <1>2 DEF ExistsBijection
<1>. QED BY <1>1, <1>3, FS_CountingElements

(* The keys that stay when slot i is written.                              *)
Kept(i) == {io.entries[j].key : j \in DOMAIN io.entries \ {i}}

(* They are the ones the abstract table keeps.                             *)
LEMMA KeptKeys ==
  ASSUME IInv, FewMessages, NEW d \in IoMessage, NEW i \in Nat, Written(d, i),
         SlotChoice(d, i)
  PROVE  Kept(i) = R!Held \ (R!Dropped(make_io_key(d)) \union {make_io_key(d)})
<1>. DEFINE es == io.entries
            k == make_io_key(d)
<1>1. R!Held = HeldKeys(es)
  BY DEF R!Held, TableOf
<1>2. KeysUnique /\ IoTypeOK /\ Stamps /\ StampsUnique
      /\ \A j \in DOMAIN es : es[j].key \in IoKey /\ es[j].order \in 0..IntMax
  <2>1. KeysUnique /\ IoTypeOK /\ Stamps /\ StampsUnique
    BY DEF IInv, IoShape
  <2>2. \A j \in DOMAIN es : es[j] \in IoEntry
    BY <2>1 DEF IoTypeOK
  <2>3. \A j \in DOMAIN es : es[j].key \in IoKey
    BY <2>2 DEF IoEntry
  <2>. QED BY <2>1, <2>3, StampedOrders
<1>3. Cardinality(HeldKeys(es)) = Len(es) /\ Len(es) \in Nat /\ IoMaxEntries \in Nat
  BY <1>2, KeysCounted, IoSizesAreNat DEF IoTypeOK
<1>4. CASE i \in DOMAIN es /\ es[i].key = k
  <2>1. R!Dropped(k) = {}
    BY <1>1, <1>4 DEF R!Dropped, HeldKeys
  <2>2. Kept(i) = HeldKeys(es) \ {k}
    BY <1>2, <1>4 DEF Kept, HeldKeys, KeysUnique
  <2>. QED BY <1>1, <2>1, <2>2
<1>5. CASE i = Len(es) + 1 /\ Len(es) < IoMaxEntries /\ Holders(k) = {}
  <2>1. k \notin HeldKeys(es)
    BY <1>5 DEF Holders, HeldKeys
  <2>2. R!Dropped(k) = {}
    BY <1>1, <1>3, <1>5, SameCardinality DEF R!Dropped
  <2>3. i \notin DOMAIN es
    BY <1>3, <1>5, <1>2 DEF IoTypeOK
  <2>4. Kept(i) = HeldKeys(es)
    BY <2>3 DEF Kept, HeldKeys
  <2>. QED BY <1>1, <2>1, <2>2, <2>4
<1>6. CASE /\ i \in DOMAIN es /\ Len(es) >= IoMaxEntries /\ Holders(k) = {}
           /\ \A j \in DOMAIN es : es[i].order <= es[j].order
  <2>1. k \notin HeldKeys(es)
    BY <1>6 DEF Holders, HeldKeys
  <2>2. R!Dropped(k) = {x \in HeldKeys(es) : \A y \in HeldKeys(es) \ {x} :
                                               <<x, y>> \in OlderOf(es)}
    BY <1>1, <1>3, <1>6, <2>1, SameCardinality DEF R!Dropped
  <2>3. \A a, b \in DOMAIN es : a # b =>
          (<<es[a].key, es[b].key>> \in OlderOf(es) <=> es[a].order < es[b].order)
    <3>. SUFFICES ASSUME NEW a \in DOMAIN es, NEW b \in DOMAIN es
                  PROVE  <<es[a].key, es[b].key>> \in OlderOf(es)
                           <=> es[a].order < es[b].order
      OBVIOUS
    <3>1. Above(es[a], es[b]) <=> es[a].order < es[b].order
      BY <1>2, AboveIsLess DEF Above
    <3>2. <<es[a].key, es[b].key>> \in OlderOf(es) <=> Above(es[a], es[b])
      BY <1>2 DEF OlderOf, KeysUnique
    <3>. QED BY <3>1, <3>2
  <2>4. \A a \in DOMAIN es \ {i} : es[i].order < es[a].order
    <3>. TAKE a \in DOMAIN es \ {i}
    <3>1. es[i].order # es[a].order
      BY <1>2, <1>6 DEF Stamps, StampsUnique
    <3>2. es[i].order \in Int /\ es[a].order \in Int /\ es[i].order <= es[a].order
      BY <1>2, <1>6
    <3>. QED BY <3>1, <3>2
  <2>5. es[i].key \in R!Dropped(k)
    BY <1>6, <2>2, <2>3, <2>4 DEF HeldKeys
  <2>6. \A a \in DOMAIN es \ {i} : es[a].key \notin R!Dropped(k)
    <3>. TAKE a \in DOMAIN es \ {i}
    <3>1. ~(es[a].order < es[i].order)
      BY <1>2, <1>6, <2>4
    <3>2. es[i].key # es[a].key /\ es[i].key \in HeldKeys(es)
      BY <1>2, <1>6 DEF KeysUnique, HeldKeys
    <3>. QED BY <1>6, <2>2, <2>3, <3>1, <3>2
  <2>7. R!Dropped(k) = {es[i].key}
    BY <2>2, <2>5, <2>6 DEF HeldKeys
  <2>8. Kept(i) = HeldKeys(es) \ {es[i].key}
    BY <1>2, <1>6 DEF Kept, HeldKeys, KeysUnique
  <2>. QED BY <1>1, <2>1, <2>7, <2>8
<1>. QED BY <1>4, <1>5, <1>6 DEF SlotChoice

(* Writing slot i gives its key the new value and leaves the others'.      *)
LEMMA TableStep ==
  ASSUME IInv, NEW d \in IoMessage, NEW i \in Nat, Written(d, i), KeysUnique'
  PROVE  TableOf(io'.entries)
           = [x \in Kept(i) \union {make_io_key(d)} |->
                IF x = make_io_key(d) THEN d.val ELSE TableOf(io.entries)[x]]
<1>. DEFINE es == io.entries
            fs == io'.entries
            k == make_io_key(d)
            T == [x \in Kept(i) \union {k} |-> IF x = k THEN d.val ELSE TableOf(es)[x]]
<1>1. UniqueIn(es) /\ UniqueIn(fs)
  BY DEF UniqueIn, IInv, KeysUnique
<1>2. /\ i \in DOMAIN fs /\ fs[i].key = k /\ fs[i].val = d.val
      /\ DOMAIN fs \ {i} = DOMAIN es \ {i}
      /\ \A j \in DOMAIN es \ {i} : fs[j] = es[j]
  BY DEF Written
<1>3. HeldKeys(fs) = Kept(i) \union {k}
  BY <1>2 DEF HeldKeys, Kept
<1>4. \A x \in HeldKeys(fs) : TableOf(fs)[x] = T[x]
  <2>. SUFFICES ASSUME NEW j \in DOMAIN fs PROVE TableOf(fs)[fs[j].key] = T[fs[j].key]
    BY DEF HeldKeys
  <2>1. fs[j].key \in HeldKeys(fs) /\ TableOf(fs)[fs[j].key] = fs[j].val
    BY <1>1, LookUp
  <2>2. CASE j = i
    BY <1>2, <1>3, <2>1, <2>2
  <2>3. CASE j # i
    <3>1. j \in DOMAIN es /\ fs[j] = es[j] /\ fs[j].key # k
      BY <1>1, <1>2, <2>3 DEF UniqueIn
    <3>2. TableOf(es)[es[j].key] = es[j].val
      BY <1>1, <3>1, LookUp
    <3>. QED BY <1>3, <2>1, <3>1, <3>2
  <2>. QED BY <2>2, <2>3
<1>5. DOMAIN TableOf(fs) = HeldKeys(fs) /\ DOMAIN T = HeldKeys(fs)
      /\ TableOf(fs) = [x \in HeldKeys(fs) |-> TableOf(fs)[x]]
      /\ T = [x \in HeldKeys(fs) |-> T[x]]
  BY <1>3 DEF TableOf
<1>. QED BY <1>4, <1>5

(* It makes its key the newest and keeps the order of the others.          *)
LEMMA OlderStep ==
  ASSUME IInv, FewMessages, NEW d \in IoMessage, NEW i \in Nat, Written(d, i),
         IInv'
  PROVE  OlderOf(io'.entries)
           = {p \in OlderOf(io.entries) : p[1] \in Kept(i) /\ p[2] \in Kept(i)}
               \union (Kept(i) \X {make_io_key(d)})
<1>. DEFINE es == io.entries
            fs == io'.entries
            k == make_io_key(d)
            Rest == DOMAIN es \ {i}
<1>1. UniqueIn(es) /\ UniqueIn(fs)
  BY DEF UniqueIn, IInv, KeysUnique
<1>2. /\ i \in DOMAIN fs /\ fs[i].key = k /\ fs[i].order = io.next_order
      /\ DOMAIN fs = Rest \union {i} /\ i \notin Rest
      /\ \A j \in Rest : fs[j] = es[j]
  BY DEF Written
<1>3. \A j \in Rest : Above(fs[j], fs[i]) /\ ~Above(fs[i], fs[j])
  <2>. TAKE j \in Rest
  <2>1. /\ es[j].order \in 0..IntMax /\ io.next_order \in 0..IntMax
        /\ es[j].order < io.next_order
    BY StampedOrders
  <2>2. Wrap(es[j].order - io.next_order) < 0 /\ ~(Wrap(io.next_order - es[j].order) < 0)
    <3>1. ~(io.next_order < es[j].order)
      BY <2>1
    <3>. QED BY <2>1, <3>1, AboveIsLess
  <2>. QED BY <1>2, <2>2 DEF Above
<1>4. ~Above(fs[i], fs[i])
  <2>1. io.next_order \in 0..IntMax
    BY StampedOrders
  <2>2. ~(io.next_order < io.next_order)
    BY <2>1
  <2>3. ~(Wrap(io.next_order - io.next_order) < 0)
    BY <2>1, <2>2, AboveIsLess
  <2>. QED BY <1>2, <2>3 DEF Above
<1>5. \A j \in DOMAIN fs : fs[j].key \in IoKey
  <2>1. \A j \in DOMAIN fs : fs[j] \in IoEntry
    BY DEF Written
  <2>. QED BY <2>1 DEF IoEntry
<1>. DEFINE Old == {p \in OlderOf(es) : p[1] \in Kept(i) /\ p[2] \in Kept(i)}
            New == Old \union (Kept(i) \X {k})
<1>6. ASSUME NEW p \in OlderOf(fs) PROVE p \in New
  <2>1. PICK a \in DOMAIN fs, b \in DOMAIN fs :
          fs[a].key = p[1] /\ fs[b].key = p[2] /\ Above(fs[a], fs[b])
    BY DEF OlderOf
  <2>2. p \in IoKey \X IoKey /\ p = <<p[1], p[2]>>
    BY DEF OlderOf
  <2>3. a # i
    BY <1>2, <1>3, <1>4, <2>1
  <2>4. a \in Rest /\ fs[a] = es[a] /\ p[1] \in Kept(i)
    BY <1>2, <2>1, <2>3 DEF Kept
  <2>5. CASE b = i
    BY <1>2, <2>1, <2>2, <2>4, <2>5
  <2>6. CASE b # i
    <3>1. b \in Rest /\ fs[b] = es[b] /\ p[2] \in Kept(i)
      BY <1>2, <2>1, <2>6 DEF Kept
    <3>2. p \in OlderOf(es)
      BY <2>1, <2>2, <2>4, <3>1 DEF OlderOf
    <3>. QED BY <2>4, <3>1, <3>2
  <2>. QED BY <2>5, <2>6
<1>7. ASSUME NEW p \in Old PROVE p \in OlderOf(fs)
  <2>1. PICK a \in DOMAIN es, b \in DOMAIN es :
          es[a].key = p[1] /\ es[b].key = p[2] /\ Above(es[a], es[b])
    BY DEF OlderOf
  <2>2. p \in IoKey \X IoKey
    BY DEF OlderOf
  <2>3. a # i /\ b # i
    BY <1>1, <2>1 DEF Kept, UniqueIn
  <2>. QED BY <1>2, <2>1, <2>2, <2>3 DEF OlderOf
<1>8. ASSUME NEW x \in Kept(i) PROVE <<x, k>> \in OlderOf(fs)
  <2>1. PICK a \in Rest : es[a].key = x
    BY DEF Kept
  <2>. QED BY <1>2, <1>3, <1>5, <2>1 DEF OlderOf
<1>. QED BY <1>6, <1>7, <1>8

(* As long as the order counter has not overflowed, the array is a table   *)
(* that holds the last value of every key and, when full, forgets the key  *)
(* written longest ago.                                                    *)
THEOREM Implements == FewMessages => (IoSpec => KeepsRecency)
<1>. SUFFICES ASSUME FewMessages PROVE IoSpec => KeepsRecency
  OBVIOUS
<1>1. IoInit => R!Init
  <2>. SUFFICES ASSUME IoInit PROVE R!Init
    OBVIOUS
  <2>1. io.entries = <<>> /\ DOMAIN io.entries = {}
    BY DEF IoInit, EmptyIo
  <2>. QED BY <2>1 DEF IoInit, R!Init, TableOf, OlderOf, HeldKeys
<1>2. IInv /\ IInv' /\ [IoNext]_ioVars => [R!Next]_(R!vars)
  <2>. SUFFICES ASSUME IInv, IInv', [IoNext]_ioVars PROVE [R!Next]_(R!vars)
    OBVIOUS
  <2>1. CASE ClearIo
    <3>1. io'.entries = <<>> /\ DOMAIN io'.entries = {}
      BY <2>1 DEF ClearIo, datastore_io_clear, EmptyIo
    <3>2. R!Clear
      BY <2>1, <3>1 DEF ClearIo, R!Clear, TableOf, OlderOf, HeldKeys
    <3>. QED BY <3>2 DEF R!Next
  <2>2. CASE \E d \in IoMessage : process_io(d)
    <3>1. PICK d \in IoMessage : process_io(d)
      BY <2>2
    <3>2. PICK i \in Nat : Written(d, i) /\ SlotChoice(d, i)
      BY <3>1, StoreWrites
    <3>3. Kept(i) = R!Held \ (R!Dropped(make_io_key(d)) \union {make_io_key(d)})
      BY <3>2, KeptKeys
    <3>4. TableOf(io'.entries)
            = [x \in Kept(i) \union {make_io_key(d)} |->
                 IF x = make_io_key(d) THEN d.val ELSE TableOf(io.entries)[x]]
      BY <3>2, TableStep DEF IInv
    <3>5. OlderOf(io'.entries)
            = {p \in OlderOf(io.entries) : p[1] \in Kept(i) /\ p[2] \in Kept(i)}
                \union (Kept(i) \X {make_io_key(d)})
      BY <3>2, OlderStep
    <3>6. R!Put(make_io_key(d), d.val)
      BY <3>1, <3>3, <3>4, <3>5 DEF R!Put, process_io
    <3>7. make_io_key(d) \in IoKey /\ d.val \in Vals
      BY KeyType DEF IoMessage
    <3>. QED BY <3>6, <3>7 DEF R!Next
  <2>3. CASE UNCHANGED ioVars
    BY <2>3 DEF ioVars, R!vars, TableOf, OlderOf
  <2>. QED BY <2>1, <2>2, <2>3 DEF IoNext
<1>. QED BY <1>1, <1>2, Invariance, PTL DEF IoSpec, R!Spec, KeepsRecency
==============================================================================
