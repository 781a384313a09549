------------------------------- MODULE Layout -------------------------------
(***************************************************************************)
(* Where the tabs put their rows (ui_tabs.c).  Rows are counted from 0, h   *)
(* is the height of the content window (content_height).  A function that  *)
(* draws moves y down; here the rows are given in closed form.             *)
(***************************************************************************)
EXTENDS Integers

CONSTANTS
  PageLines,  (* lines of a zero page or stack page dump, 16 in the code   *)
  MaxDetail   (* most stack entries or code lines shown, 8 in the code     *)

ASSUME LayoutSizes == PageLines \in Nat \ {0} /\ MaxDetail \in Nat \ {0}

Least(m, n) == IF m < n THEN m ELSE n
Positive(n) == IF n < 0 THEN 0 ELSE n
------------------------------------------------------------------------------
(* The IO tab: a list of n entries below its heading, and below the        *)
(* annunciators if there are any.                                          *)
IoTop(annunciators) == IF annunciators THEN 6 ELSE 2
display_lines(h) == h - 3

(* Mutant of start_idx: the list is shown from its beginning.               *)
ShowFromFirst(n, h) == 0

(* Drawn are the entries from start_idx on and before end_idx.              *)
start_idx(n, h) == Positive(n - display_lines(h))
end_idx(n, h, annunciators) ==
  Least(n, start_idx(n, h) + Positive(h - 1 - IoTop(annunciators)))
------------------------------------------------------------------------------
(* The Info tab: the row after its last one, with the sections on video    *)
(* and connection, which come and go.                                      *)
InfoEnd(video, connected) ==
  23 + (IF video THEN 3 ELSE 0) + (IF connected THEN 3 ELSE 0)

(* The same with the memory flags, shown if there is room.                 *)
InfoEndWithFlags(end, h) == IF end < h - 4 THEN end + 4 ELSE end

(* The CPU tab before anything has come for it.                            *)
NoCpuEnd == 3

(* The CPU tab: its four fixed sections.  A section without entries says   *)
(* so in one row.                                                          *)
RowsOf(n) == IF n = 0 THEN 1 ELSE n
CpuEnd(z80, interrupts, states) ==
  12 + (IF z80 THEN 4 ELSE 2) + RowsOf(interrupts) + RowsOf(states)

(* Mutant of HasRoom: y <= height - 5.                                      *)
HasRoomOnEdge(y, need, h) == y <= h - need

(* The stack (heading of 4 rows) and the disassembly (3 rows) below them,  *)
(* each only if there is room for its heading and an entry.                *)
HasRoom(y, need, h) == y < h - need
DetailShown(first, count, h) == Least(Least(h - first - 1, count), MaxDetail)
DetailEnd(first, count, h) ==
  LET shown == DetailShown(first, count, h)
  IN  first + shown + (IF count > shown THEN 1 ELSE 0)

(* The Text tab: rows of text from row 4, then a border.                   *)
TextShown(rows, h) == Least(rows, Positive(h - 6))
------------------------------------------------------------------------------
(* The Memory tab: flags, zero page and stack page above the dump.         *)
AfterFlags(flags) == IF flags THEN 3 ELSE 0
AfterPage(y, page, h) ==
  IF page THEN y + 3 + Least(PageLines, Positive(h - 4 - y)) ELSE y
DumpTop(flags, zero, stack, h) ==
  AfterPage(AfterPage(AfterFlags(flags), zero, h), stack, h)

(* The lines of the dump that the code draws, from scroll_pos on, and the  *)
(* row of each: those at h and beyond are outside the window.              *)
visible_lines(h) == h - 3
DumpDrawn(lines, scroll, h) == scroll .. Least(lines, scroll + visible_lines(h)) - 1
DumpRow(top, scroll, line) == top + 2 + line - scroll
==============================================================================
