------------------------------- MODULE IoTable -------------------------------
(***************************************************************************)
(* The table behind the IO tab (data_store.c, process_io and its helpers): *)
(* an unsorted array of entries, each stamped with an order number taken   *)
(* from an int counter that process_io() increments and nothing bounds.    *)
(*                                                                         *)
(* A section and a field are one value here (Secs): they are only ever     *)
(* used together, as the first part of the key.                            *)
(***************************************************************************)
EXTENDS Integers, Sequences, FiniteSets

CONSTANTS
  Secs,          (* "section:field" pairs                                  *)
  Locs, NoLoc,   (* printed addresses and indices; NoLoc: the field absent *)
  Vals,          (* values                                                 *)
  IoMaxEntries,  (* IO_MAX_ENTRIES, 2048 in the code                       *)
  IntMax,        (* INT_MAX, 2^31 - 1 in the code                          *)
  MaxIo          (* bound: io messages between two clears                  *)

ASSUME NoLocIsNone == NoLoc \notin Locs
ASSUME IoSizesAreNat == IoMaxEntries \in Nat \ {0} /\ IntMax \in Nat /\ MaxIo \in Nat

VARIABLES
  io,           (* IOData: entries (count is its length) and next_order    *)
  io_messages,  (* DataStore.io_messages                                   *)
  io_last       (* history: key and value of the last io message           *)

ioVars == <<io, io_messages, io_last>>

Loc == Locs \union {NoLoc}
IoMessage == [sec: Secs, addr: Loc, idx: Loc, val: Vals]
IoKey == Secs \X Loc
Int32 == (-IntMax - 1)..IntMax

EmptyIo == [entries |-> <<>>, next_order |-> 0]

IoInit == io = EmptyIo /\ io_messages = 0 /\ io_last = <<>>

(* The address names the entry; without one the index does.                *)
make_io_key(d) == <<d.sec, IF d.addr # NoLoc THEN d.addr ELSE d.idx>>

(* Two's complement: what a signed overflow gives in the project's build.  *)
Wrap(n) ==
  IF n > IntMax THEN n - 2 * (IntMax + 1)
  ELSE IF n < -IntMax - 1 THEN n + 2 * (IntMax + 1) ELSE n

(* Mutant of Holders: the search stops one entry early.                     *)
HoldersButLast(key) ==
  {i \in DOMAIN io.entries : io.entries[i].key = key /\ i < Len(io.entries)}

(* The slots that hold key (find_io_entry returns the first, or -1).       *)
Holders(key) == {i \in DOMAIN io.entries : io.entries[i].key = key}
find_io_entry(key) ==
  CHOOSE i \in Holders(key) : \A j \in Holders(key) : i <= j

(* Mutant of oldest_idx: always the first slot.                             *)
FirstSlot == 1

(* The first of the slots with the smallest order number.                  *)
oldest_idx ==
  CHOOSE i \in DOMAIN io.entries :
    \A j \in DOMAIN io.entries :
      \/ io.entries[i].order < io.entries[j].order
      \/ io.entries[i].order = io.entries[j].order /\ i <= j

(* The emulator stamps its messages with a clock that only moves forward:  *)
(* the number of the message stands for it.                                *)
NewEntry(d) ==
  [key |-> make_io_key(d), addr |-> d.addr, idx |-> d.idx, val |-> d.val,
   ts |-> io_messages, order |-> io.next_order]

StoreIo(entries) ==
  io' = [entries |-> entries, next_order |-> Wrap(io.next_order + 1)]

(* Mutant of UpdateEntry: the entry keeps its old place in the list.        *)
UpdateInPlace(d) ==
  /\ Holders(make_io_key(d)) # {}
  /\ StoreIo([io.entries EXCEPT ![find_io_entry(make_io_key(d))].val = d.val,
                                ![find_io_entry(make_io_key(d))].ts = io_messages])

(* The key is known: its value, time and order change, nothing else.       *)
UpdateEntry(d) ==
  LET i == find_io_entry(make_io_key(d))
  IN  /\ Holders(make_io_key(d)) # {}
      /\ StoreIo([io.entries EXCEPT
           ![i].val = d.val, ![i].ts = io_messages, ![i].order = io.next_order])

(* Mutant of AddEntry: one entry more than the array has.                   *)
AddOneMore(d) ==
  /\ Holders(make_io_key(d)) = {}
  /\ Len(io.entries) <= IoMaxEntries
  /\ StoreIo(Append(io.entries, NewEntry(d)))

AddEntry(d) ==
  /\ Holders(make_io_key(d)) = {}
  /\ Len(io.entries) < IoMaxEntries
  /\ StoreIo(Append(io.entries, NewEntry(d)))

ReplaceOldest(d) ==
  /\ Holders(make_io_key(d)) = {}
  /\ Len(io.entries) >= IoMaxEntries
  /\ StoreIo([io.entries EXCEPT ![oldest_idx] = NewEntry(d)])

(* process_io() and the counter datastore_process() increments after it.   *)
process_io(d) ==
  /\ io_messages < MaxIo
  /\ UpdateEntry(d) \/ AddEntry(d) \/ ReplaceOldest(d)
  /\ io_messages' = io_messages + 1
  /\ io_last' = <<make_io_key(d), d.val>>

datastore_io_clear == io' = EmptyIo

(* datastore_clear() clears the table and its counter together.            *)
ClearIo == datastore_io_clear /\ io_messages' = 0 /\ io_last' = <<>>

IoNext == ClearIo \/ \E d \in IoMessage : process_io(d)

IoSpec == IoInit /\ [][IoNext]_ioVars

(* compare_io_by_order() < 0: the IO tab and the snapshot list e above f.  *)
Above(e, f) == Wrap(e.order - f.order) < 0
------------------------------------------------------------------------------
IoEntry ==
  [key: IoKey, addr: Loc, idx: Loc, val: Vals, ts: Nat, order: Int32]

(* The table stays inside its array and every order number is an int.      *)
IoTypeOK ==
  /\ io.entries \in Seq(IoEntry)
  /\ Len(io.entries) <= IoMaxEntries
  /\ io.next_order \in Int32
  /\ io_messages \in 0..MaxIo

(* A key never has two entries (README.md:169: the same address is          *)
(* replaced): find_io_entry() would update one and leave the other stale.  *)
KeysUnique ==
  \A i, j \in DOMAIN io.entries :
    io.entries[i].key = io.entries[j].key => i = j

(* "most recent last" (data_store.h:290): the listed order is the order in *)
(* which the emulator last sent the entries, whatever slots they are in.   *)
MostRecentLast ==
  \A i, j \in DOMAIN io.entries :
    Above(io.entries[i], io.entries[j])
      <=> io.entries[i].ts < io.entries[j].ts

(* The array with its order numbers is a table that forgets the key        *)
(* written longest ago ("find and replace oldest entry", data_store.c:205) *)
(* and holds for every other the value that came last.                     *)
HeldKeys(es) == {es[i].key : i \in DOMAIN es}
TableOf(es) ==
  [k \in HeldKeys(es) |-> es[CHOOSE i \in DOMAIN es : es[i].key = k].val]
OlderOf(es) ==
  {p \in IoKey \X IoKey : \E i, j \in DOMAIN es :
     es[i].key = p[1] /\ es[j].key = p[2] /\ Above(es[i], es[j])}
R == INSTANCE RecencyTable WITH
       Key <- IoKey, Val <- Vals, Max <- IoMaxEntries,
       table <- TableOf(io.entries), older <- OlderOf(io.entries), last <- io_last
KeepsRecency == R!Spec
==============================================================================
