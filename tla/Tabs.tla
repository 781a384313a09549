-------------------------------- MODULE Tabs --------------------------------
(***************************************************************************)
(* What the tabs show of the tables (ui_tabs.c, tabs_draw_info() to        *)
(* tabs_draw_text()), for every height of the window.  Drawing changes no  *)
(* state: these are operators of the data store.  The Memory tab scrolls   *)
(* and is in module Ui.                                                    *)
(***************************************************************************)
EXTENDS DataStore, Layout

CONSTANTS TabHeights,  (* bound: content heights of the terminal           *)
          Z80          (* the emulator type with a Z80, "msx" in the code  *)

ASSUME TabSizes == TabHeights \subseteq {h \in Nat : h > 3}

(* datastore_io_get_sorted(): the entries in the order of their numbers.   *)
(* An entry that has k - 1 others above it is the k-th.                    *)
EntriesAbove(i) == {j \in DOMAIN io.entries : Above(io.entries[j], io.entries[i])}
Sorted ==
  [k \in DOMAIN io.entries |->
     io.entries[CHOOSE i \in DOMAIN io.entries : Cardinality(EntriesAbove(i)) = k - 1]]

(* The entries that tabs_draw_io() draws, from top to bottom.              *)
IoShown(h) ==
  LET n == Len(io.entries)
  IN  SubSeq(Sorted, start_idx(n, h) + 1, end_idx(n, h, annunciator.has_data))

(* The CPU tab: entries of a section, and the row below the fixed part.    *)
(* As long as there is no register the tab says so and shows nothing else. *)
InSection(sec) == Cardinality({i \in DOMAIN cpu.entries : cpu.entries[i].key[1] = sec})
CpuReceived == cpu.entries # <<>>
Fixed ==
  IF CpuReceived THEN CpuEnd(info.emu_type = Z80, InSection("int"), InSection("state"))
  ELSE NoCpuEnd

StackDrawn(h) == CpuReceived /\ cpustack.has_data /\ HasRoom(Fixed, 5, h)
AfterStack(h) ==
  IF StackDrawn(h) THEN DetailEnd(Fixed + 4, cpustack.entry_count, h) ELSE Fixed

DisasmDrawn(h) == CpuReceived /\ disasm.count > 0 /\ HasRoom(AfterStack(h), 4, h)
AfterDisasm(h) ==
  IF DisasmDrawn(h) THEN DetailEnd(AfterStack(h) + 3, disasm.count, h) ELSE AfterStack(h)

(* The Info tab.                                                           *)
InfoFixed == InfoEnd(info.shown[<<"video", "mode">>] # NoVal, info.connected_time)
AfterInfo(h) == IF memflags = <<>> THEN InfoFixed ELSE InfoEndWithFlags(InfoFixed, h)
------------------------------------------------------------------------------
(* "The newest data is shown at the bottom" (README.md:168): of the        *)
(* entries of the IO tab the ones sent last are shown, as many as there    *)
(* are rows for, and the newest of all is the last.                        *)
NewestAtBottom ==
  \A h \in TabHeights :
    LET shown == IoShown(h)
    IN  /\ \A i \in 1..Len(shown) - 1 : shown[i].ts < shown[i + 1].ts
        /\ \A e \in ToSet(io.entries) \ ToSet(shown) :
             shown # <<>> /\ e.ts < shown[1].ts

(* So it is as long as there are no annunciators above the list; then the  *)
(* window is also used to the last row but one.                            *)
IoShowsLatest ==
  ~annunciator.has_data =>
    /\ NewestAtBottom
    /\ \A h \in TabHeights : Len(IoShown(h)) = Least(Len(io.entries), h - 3)

(* Where the fixed part of a tab fits the window, so does all of it, and   *)
(* what has a heading has at least one entry under it: the tests before    *)
(* the optional sections (ui_tabs.c:263, 512, 545, 882) leave room for     *)
(* what is drawn after them.                                               *)
TabsFit ==
  \A h \in TabHeights :
    /\ InfoFixed <= h => AfterInfo(h) <= h
    /\ Fixed <= h => AfterDisasm(h) <= h
    /\ StackDrawn(h) /\ cpustack.entry_count > 0 =>
         DetailShown(Fixed + 4, cpustack.entry_count, h) > 0
    /\ DisasmDrawn(h) => DetailShown(AfterStack(h) + 3, disasm.count, h) > 0
    /\ h > 4 => 4 + TextShown(TextRows, h) < h
==============================================================================
