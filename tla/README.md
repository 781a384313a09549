# A TLA+ model of the Retro Developer Environment Monitor

The program (`src/src/*.c`, about 4 500 lines of C) is a terminal monitor for emulators of
old computers.  It connects to an emulator over TCP, reads one JSON message per line, files
the messages in tables, and shows the tables in ncurses tabs.  It is one process with one
thread; what makes it hard is everything that happens around that thread: the emulator that
writes, closes and resets in fragments of its own choosing, signals at any instruction,
a clock that moves while `connect()` blocks, a user who types while the terminal is resized,
and tables of fixed size that are filled, overwritten, evicted and reset in any order.

File names below are relative to `src/src/` unless they start with `README.md`, which is the
repository's.

## 1. Inventory

| Component | Code | State | Operations | Talks to |
|---|---|---|---|---|
| network layer | `network.c` | socket, `connected`, 8 KiB receive buffer | connect, read a line, disconnect | kernel; called by the event loop |
| event loop, reconnection | `main.c` | `g_resize_pending`, `g_last_reconnect_attempt`, `g_disconnect_time`, `g_data_reset_done` | start-up, `try_connect`, `process_network_data`, reset after an outage, signal handlers, quit, snapshot | everything |
| IO table | `data_store.c:146-248` | unsorted array of entries with an order number | update, append, replace the oldest, clear, list | data store, IO tab, snapshot |
| memory map | `data_store.c:349-502, 656-720` | sorted, growing array of lines | dump, single byte, clear, scroll | data store, Memory tab, keys |
| the other tables and the routing | `data_store.c` | info, registers, zero page, stack page, flags, text screen, annunciators, disassembly, CPU stack, counters | `datastore_process`, `datastore_clear` | event loop, tabs |
| keyboard UI | `ui.c:440-642`, `ui_tabs.c:799-825` | current tab, mode, a search per tab, dialog window | keys, search dialog, scrolling | data store (scroll position), drawing |
| status UI | `ui.c:86-197, 591-668` | connection shown, emulator name, caps lock, status message, `needs_refresh` | `ui_set_connected`, `ui_mark_dirty`, `ui_update`, `ui_resize` | event loop |
| drawing | `ui_tabs.c` | none | one function per tab | reads the tables and the search, writes rows of a window |
| parser | `parser.c` (cJSON) | none | a line to a message | event loop |
| logger, snapshot | `logger.c`, `main.c:84-181` | open log file, its stdio buffer | start a file, write a line, close | event loop, file system |
| configuration | `config.c` | options, and which the command line has set | defaults, command line, file, default file | once, before the loop; file system |

How they interact.  `main()` runs passes: resize if SIGWINCH was seen, try to reconnect if
disconnected, wait at most 50 ms in `select()`, handle one key, drain the socket line by
line (parse, `datastore_process`, log), reset the data if the outage has lasted ten seconds,
repaint if `needs_refresh`.  All communication is by shared structures in that one thread;
signal handlers set flags only.  The network layer and the tables know nothing of each other.

What makes each component correct:

- network layer: lines come out in order, once, complete up to the documented cut, whatever
  the fragmentation; a partial line never survives into the next connection; the end of the
  connection is noticed; the reader never stalls.
- event loop: what the UI says of the connection is true; a reset happens only in a long
  outage, and then surely; attempts never stop; a stop request is obeyed; no resize is lost.
- IO table: one entry per key, order of arrival, the one dropped is the one written longest ago.
- memory map: the last byte of every address, whatever order dumps arrive in and whichever
  allocation fails.
- data store: a reset leaves nothing; what a table holds is not hidden by its flag or count
  (the CPU tab asks for a register first, which hides a disassembly that comes before one);
  data kept twice agrees, as far as each copy keeps it.
- keyboard UI: keys go to what is on the screen; the view that is painted is current, but for
  two things that change without a repaint (section 4); scrolling stays inside the data, and
  leads to lines that are inside the window.
- drawing: the newest entries are among those shown; what gets a heading gets its contents,
  and no optional part leaves the window.
- parser: a line is a message exactly if its five required members are strings; a value that
  is too long loses its end and nothing else.
- configuration: command line before local file before home file before defaults, option by
  option; what a user wrote into a file stays.
- logger, snapshot: a log is the beginning of what its run had to say, all of it after an
  orderly end; a file made earlier is not touched, unless its local time comes again.

What is hard to test is listed line by line under `hazards` in `PROJECT.json`, each with the
properties that cover it or the reason why none does.  Where a premise keeps the case itself
out of a property, the hazard does not name that property and its note says so.

## 2. Modules

```
 LineStream  <== implements ==  Network          (Lines: bytes, CR/LF, the cut)
                                   |  a line at a time
                                Monitor           event loop, signals, clock, status UI
                                   |  a line at a time
   Dictionary  <== implements == DataStore  EXTENDS  Parser     a line to a message
                                   ^        EXTENDS  IoTable    ==> RecencyTable
                                   |        EXTENDS  MemoryMap  ==> ByteMap
                                 Tabs       what is drawn of the tables
                                   |
                                 Layout     rows of the tabs, as operators
                                   |
                                  Ui        keys, tabs, search, scrolling, repaint

   Config (settings, as operators)  <--  Session   start, files, log, quit, crash, start again
```

| Module | Models | Correspondence |
|---|---|---|
| `Lines` | the line discipline of `network_read_line()` | `Cut` = cut at `max_len - 1`, then one CR removed; `HasLF`, `FirstLF` = the scan for the newline |
| `LineStream` | the promise of the network layer | lines written, lines delivered, up or not |
| `Network` | `network.c` and the loop of `process_network_data()` | `recv_buffer` is the first `buffer_len` bytes; `ReadOk`, `ReadNoData`, `ReadLost` are the three returns of `network_read_line()`, each with its `recv()`; `wire`, `peer` are the kernel and the emulator |
| `Monitor` | `main.c` and the status part of `ui.c` | `pc` names the stretch of `main()` that runs next; the variables are the globals; a `time_t` is kept as its age; `View` is what the tabs draw of them, the count of rejected lines included |
| `RecencyTable` | the promise of the IO table | values by key, and which key was written before which |
| `IoTable` | `process_io()` | `UpdateEntry`, `AddEntry`, `ReplaceOldest` are its three branches, `Above` its `qsort` comparison, `Wrap` the width of its counter |
| `ByteMap` | the promise of the memory map | a partial function from addresses to bytes |
| `MemoryMap` | dumps and bytes into the line array | `Search` is the binary search, `Probe` a pass of its loop, `Grown` the `realloc()`; `PutByte` is one byte of a message, a dump the function that puts its first `k` bytes |
| `Dictionary` | the promise of the register and flag tables | the first `Room` keys keep their place and their last value |
| `Parser` | `parser_parse_line()` | a line is the function of its JSON members; `Accepted` is the return value 0, `KeptBytes` what `copy_json_string()` leaves of a value |
| `DataStore` | `datastore_process()`, `datastore_clear()` and the remaining handlers | `ReceiveLine` is the body of the loop of `process_network_data()`; one disjunct per category, one operator per handler, named as in C; `Cut[n]` is `safe_strcpy()` into a field of `n` bytes, `Atoi` the library's `atoi()` |
| `Layout` | the row arithmetic of `ui_tabs.c` | what a drawing function leaves in its `y`, in closed form; the bounds of its loops |
| `Tabs` | the drawing functions over the tables | operators of the state of `DataStore`: which entries, sections and rows are drawn at a given height; `CpuReceived` is the CPU tab's early return |
| `Ui` | `ui_handle_input()`, repaints, resizes, scrolling, the status message | one action per key's branch; `painted` is the view at the last `ui_update()`; `message` is the seconds a status message has left; `ParseError` is a line that is counted without a repaint |
| `Config` | `config.c` | settings are pairs of key and text, in the command line and in a file; `LoadLines` and `config_parse_args` are the loops over them, as functions of the number of passes |
| `Session` | start and end of `main()`, `config.c` on files, `logger.c`, the file of a snapshot | `pc` is where `main()` is, "off" when there is no process; `LocalTime` is what `localtime()` and `strftime()` make of a second, `logs[f]` and `snaps[f]` are the files of name `f`; taking the time, opening and writing are steps of their own (`logger_init`, `OpenLog`, `FlushHeading`; `save_snapshot`, `OpenSnapshot`, `WriteSnapshot`); `stamp` is the time taken for a file in the making; `buffer` is the one of stdio |
| `*Proofs` | theorems about `Network`, `Monitor`, `IoTable`, `MemoryMap`, `DataStore` with `Tabs`, `Ui`, `Session` | section 5 |
| `NumberFacts` | lemmas about numbers that several proofs need | least elements, induction up to a bound, loops as functions, division |
| `MC*` | values of the constants for TLC | section 3 |

Composition.  `DataStore` extends `Parser`, `IoTable` and `MemoryMap`, so one line is parsed
and changes them and the other tables in one step, as the loop of `process_network_data()`
does.  `Tabs` extends it with what is drawn of that state, and `Layout` is shared by the
drawing in `Tabs` and the scrolling in `Ui`, which must agree on the rows of the window.  `Monitor` uses the network
layer through the promise of `LineStream`: lines come singly, in order, until the connection
is lost; `Network` is shown to keep that promise.  `Monitor` does not repeat the contents of
the tables: its `store` only says whether the tables hold messages of this connection, of
earlier ones, or none.  `Ui` sees the event loop as new lines, resets, repaints and resizes
that come between any two keys.  `Session` sees the event loop as lines, notes and snapshots
in any order, which is all the logger sees of it.

Abstractions worth knowing:

- Text is a model value, except bytes on the wire (LF, CR and others matter), hex data
  (sequences of byte values) and search terms (sequences of characters).
- An IO key is the pair of section-and-field and printed location; an address and an index
  that print the same are the same key, as in the code.
- `Monitor` merges stretches of `main()` in which no signal, clock tick or emulator step could
  make a difference.  `select()` with a key and a readable socket handles the key first.
- The rows of a tab are given in closed form where the code moves `y` down line by line.
- `Session` knows of a file name only which seconds have it: `LocalTime` is any function from
  seconds to names, so two seconds may share one, as they do in the hour repeated when the
  clocks are set back.  A snapshot is "empty" or "whole"; its tables are not written down.
- The text of a value is a model value; what a field keeps of it (`Cut`) and the number it
  begins with (`Atoi`) are functions given for each instance.
- Ages are counted up to the limit they are compared with, which loses nothing: the code
  only asks whether they have reached it.
- History variables (`io_last`, `mem_sent`, `cpu_sent`, `flag_sent`, `stream`, `delivered`,
  `outage`, `confirmed`, ...) record what was sent or done and decide nothing.  They let the
  abstract specifications see every message: an update that the program lost would otherwise
  be a stuttering step.
- Operators whose comment begins with "Mutant of" are plausible faulty versions of the
  definition they precede; no specification uses them.  `PROJECT.json` pairs each property
  with one that violates it, which shows that the property says something about the code.

## 3. Runs

Passing runs.

| Run | Configuration | Shows |
|---|---|---|
| `network` | `MCNetwork.cfg` | order, completeness and the cut (`ImplementsLineStream`, with its fairness: a written line on a connection that stays up is delivered), `NeverWedged`, `NothingParked`, `LossNoticed` |
| `monitor` | `MCMonitor.cfg` | `UiAgrees`, `ScreenCurrent`, `ResizeNotLost`, `OnlyLongOutagesReset`, and with fairness `StaleDataReset`, `KeepsTrying`, `StopObeyed` |
| `io_table` | `MCIoTable.cfg` | `KeysUnique`, `MostRecentLast`, and the refinement `KeepsRecency` of `RecencyTable` |
| `memory_map` | `MCMemoryMap.cfg` | `LinesSorted`, `ValidCounted`, `RangeCovers`, and the refinement `HoldsLastBytes` of `ByteMap`, every allocation free to fail |
| `data_store` | `MCDataStore.cfg` | `NothingLeftOver`, `NothingHidden`, `CopiesAgree`; of what is drawn, `IoShowsLatest` and `TabsFit`; and `TablesReplaced`, the refinements of `Dictionary` by the register and the flag table |
| `ui` | `MCUi.cfg` | `DialogFollowsMode`, `SomethingInView`, `PaintedIsCurrent`, `KeysStayInDialog`, `ScrollKeysShowLines` |
| `session` | `MCSession.cfg` | `SettingsInForce`, `LogTellsAll`, and the action properties `ConfigFilesKept`, `OldFilesKept` |

Each also checks the type invariant of its module.  Runs that find a counterexample: section 4.

Bounds, and why they are enough:

- `network`: buffer of 4 usable bytes, lines of at most 4 bytes with their LF, a cut at 2
  bytes, 7 bytes per connection.  A line can fill the buffer exactly, be cut, end in CR inside
  or at the cut, and share the buffer with the start of the next one; connections follow each
  other without limit.  What larger sizes could add is covered by the proofs.
- `monitor`: retry after 1, reset after 2, two emulators, two sizes, one line in flight, one
  rejected line counted between resets.  The
  reset time is longer than the retry interval, as in the code (3 s and 10 s), so attempts
  fail, block across the limit and succeed on either side of it.
- `io_table`: four keys, room for three, five messages between clears: update, append, evict,
  and evict a key that was updated.
- `memory_map`: lines of two bytes, first allocation one line, three start addresses, dumps of
  0 to 2 bytes: dumps within a line, across lines, before, between and after known ones; the
  array grows twice.  Addresses stay below the wrap at 2^32.
- `data_store`: a value that short fields cut, one whose number does not fit 8 bits and one
  that begins with none; tables with room for one to three entries, some forty lines that hit each
  handler in range, at the last index, past it and without the field it needs, an index as a
  number and as text, a dump one byte longer than the parser keeps, and lines that are no
  messages; four lines between resets (a register table of two needs three to overflow, and
  one more to see the effect).  What is drawn is checked at eleven heights, on both sides of
  every test for room.
- `ui`: two tabs, two heights (one and two visible lines), terms of one character, three
  lines: more than either window shows.  One section can stand above the dump, a message
  lasts one second, and one rejected line is counted.  The characters of a term are the ones that switch tabs.
- `session`: three seconds, of which the last has the name of the first (the clocks are set
  back) and the second one of its own; two lines, notes or snapshots per log; three command
  lines (none, `--help`, an option twice with another), two files (an option twice with an
  unknown key and a port that is no number; one that cannot be read) in either place; runs
  follow each other without limit within the three seconds.

Deadlock is checked everywhere but in `Monitor`, whose program exits.

Fairness.  `Network`: `WF(Reader)`; `main()` returns to `select()` on every pass and a
readable socket stays readable until it is read.  Nothing is assumed of the emulator or of
connection attempts.  `Monitor`: `WF(Main)`, since `select()` returns within 50 ms and the
kernel ends every `connect()`, and `WF(Tick)`, time passes.  The drain loop of
`process_network_data()` has no bound, so an emulator that writes faster than lines are
processed can keep `main()` in it; `StopObeyed` therefore has the premise that the loop
leaves it again and again.  Nothing else is fair: keys, signals and messages may stop.
`Ui`, for `message_stays` alone: `WF(Tick)` and `WF(ui_update)`, every pass paints if it is asked
to; the counterexample is one in which it is not asked.

## 4. Where code and text disagree

Each is a run whose property quotes the text and fails on the code's behaviour.

1. `network_lost`: with `log_all` "all received JSON data is recorded" (README.md:206), but
   complete lines in the receive buffer are dropped when `recv()` reports the end first
   (`network.c:142`).
2. `long_outage`: "Reset data after 10 seconds of disconnect" (`main.c:26`), but an attempt
   that succeeds before the check of that pass cancels the reset of an outage long enough.
3. `io_newest`: "the newest data is shown at the bottom" of the IO tab (README.md:168,
   `ui_tabs.c:333`), but with annunciators above it the list ends four rows early, so up to
   four of the newest entries are below the window (`ui_tabs.c:330`).  `IoShowsLatest` is the
   same without annunciators, and holds.
4. `message_stays`: a status message "will auto-clear after a few seconds" (`ui.h:193`), but
   its age is looked at only in a repaint (`ui.c:189`), and its expiry asks for none.
5. `search_cancel`: "ESC: Cancel" (`ui.c:177`), but opening the dialog has already emptied the
   term in force, and ESC leaves what was typed in force.

Known and without a run of their own:

- A line that is no message is counted without a repaint (`main.c:252`), so the Info tab's count
  (`ui_tabs.c:257-259`) is too low until something else repaints.  `ScreenCurrent` and
  `PaintedIsCurrent` have this count in their views and allow this lag only: it is never too
  high, so a reset is always seen.
- The CPU tab shows nothing until there is a register (`ui_tabs.c:376`): a disassembly received
  before the first message of category `cpu` is not shown, although README.md:180-181 lists
  stack and disassembly without that condition.  `NothingHidden` says of the disassembly only
  that its own count announces it.
- An annunciator is the number its value begins with, cut to 8 bits (`data_store.c:600`), while
  the IO table keeps the text: "on" and "256" are 0 in the one and themselves in the other.
  `CopiesAgree` compares the numbers.
- File names are local time without its zone (`logger.c:15`, `main.c:87-90`), and `fopen(..., "w")`
  empties what is there: a file is lost when its local time comes again, in the same second or in
  the hour repeated at the end of daylight saving.  `OldFilesKept` says that no other file is:
  one keeps what it holds as long as its name is not the local time of a second since the one the
  name in the making was taken from.
- `min_addr` is the "Minimum address seen" (`data_store.h:133`), but is 0 from the start until the
  first reset: `datastore_init()` leaves it so (`data_store.c:751`), `datastore_memory_clear()`
  sets it to 0xFFFFFFFF.  `RangeCovers` holds with both.
- The order counter of the IO table is an `int` that only a reset sets back (`data_store.c:188`):
  "most recent last" (`data_store.h:290`) holds until it overflows, after 2^31 messages.  The
  theorems on order carry the premise that it does not.
- A SIGTERM between `setup_signals()` and the end of `ui_init()` is undone by `ui_init()`, which
  sets `running` (`ui.c:369-371`), although the handler is "for graceful shutdown" (`main.c:66`).
- PgDn moves by one line more than the window shows (`ui.c:564`).
- With flags, zero page or stack page above it the dump is pushed down, while scrolling counts
  on the whole window: `ScrollKeysShowLines` needs its premise that nothing is above.
- On a terminal of 24 rows the Info tab (23 to 29 rows of content) does not fit, and the CPU tab
  has no room for stack and disassembly: `TabsFit` is about windows that hold the fixed part.
- A snapshot holds "all tabs" (README.md:201), but the code writes neither the Text tab nor
  pages, flags, disassembly and CPU stack (`main.c:107-175`).
- An empty value in a configuration file is read as a line break: `trim()` leaves the last
  character alone (`config.c:39`).

## 5. Proofs

TLC's instances are small; the theorems hold for every value of the constants that satisfies
the named assumptions.  Each proof module has one inductive invariant `IInv`, a lemma per
group of actions that keeps it, and theorems that draw the properties from it.

- `NetworkProofs` (assuming `RecvSizeIsSize`, `PeerLinesFit`: no line is longer than the
  buffer; and the assumptions of `Lines`).  `TypeOK` and `NothingParked` are not inductive:
  nothing in them says that what is in the buffer is what was written.  `Framed` says where
  the LFs of the stream are and that lines are short enough; `Placed` that the delivered
  lines, the buffer and the kernel queue are adjacent windows of the stream; `Control` relates
  the socket, the flags and the peer.  Then a line taken from the buffer is the next line
  written, and a full buffer, longer than any partial line, has an LF.  Proved: `TypeOK`,
  `NothingParked`, `NeverWedged`, and that every step is a step of `LineStream` or none.
- `MonitorProofs` (assuming `IntervalsArePositive`, `NoEmuIsNone`, `BoundsAreNat`).  Added
  to the properties are `Control`, where `main()` is against the connection, and `Timer`: the
  disconnect timer runs only while disconnected and never ahead of the outage.  Proved:
  `TypeOK`, `UiAgrees`, `ScreenCurrent`, `ResizeNotLost`, and the action property
  `OnlyLongOutagesReset`.
- `IoTableProofs` (assuming `NoLocIsNone`, `IoSizesAreNat`).  `KeysUnique` with the shape of
  the table is inductive by itself.  For the order it needs `Stamps`, that an entry's order is
  the number of the message that wrote it, which is true only while the counter has not
  overflowed: the theorems on order carry the premise `FewMessages` (no more messages between
  resets than `INT_MAX`).  Proved: `IoTypeOK`,
  `KeysUnique` without the premise; `MostRecentLast` and the refinement of `RecencyTable` with it.
- `UiProofs` (assuming `TabKeysSwitchTabs`, `UiSizes`: more than three rows of content).
  `SomethingInView` is not inductive: with no lines any position satisfies it, and the first
  line would then break it.  `TopWithoutLines` closes that gap: without lines the position is
  0, since a reset sets both.  `PaintedIsCurrent` says what may
  differ from the state and in which direction: a message whose time is over, and the count of
  rejected lines.  Proved: `UiTypeOK`, `DialogFollowsMode`, `SomethingInView`,
  `PaintedIsCurrent`, and the action properties `KeysStayInDialog` and `ScrollKeysShowLines`:
  the latter ties the clamping of `data_store.c` to the rows that `ui_tabs.c` draws.
- `SessionProofs` (assuming `SessionBounds` and `NamesTyped`, that every second has one name).  `LogTellsAll` says that the open log together
  with the buffer is what the run had to say, which is what makes it inductive: a crash may
  then cut the log anywhere and a prefix remains.  `OpenIsNotClean` keeps a log that is still
  written to apart from one that came to its end, and `Making` says that the time taken for a name is not in
  the future, so that the file opened is one of the names `OldFilesKept` excepts.  Proved:
  `LogTellsAll`, and the action property `OldFilesKept` for any `LocalTime`, repeating or not.

- `MemoryMapProofs` (assuming `MemorySizes`).  `MapOK` says that the lines are ascending,
  aligned, inside the array, and count their bytes.  It is inductive because an insertion goes
  where the binary search ended, and the search ends there because the lines are ascending:
  `ProbeNarrows` is its loop invariant (all lines below the range are lower, all above it
  higher), `SearchFinds` what follows when the passes are over.  `PutByteStores` says that one
  byte changes one address, if there is room for its line, and nothing else; `DumpStores` that
  a dump is its bytes one by one, those that found no room left out.  Proved: `MemTypeOK`,
  `LinesSorted`, `ValidCounted`, the refinement `HoldsLastBytes` of `ByteMap` with every
  allocation free to fail and dumps free to wrap; and `RangeCovers` with the premise `NoWrap`,
  that no message reaches the end of the address space (past it `addr + byte_count - 1` is a
  small number, `data_store.c:432`; the emulators' addresses have 16 bits of the 32).
- `DataStoreProofs` (assuming also `StoreSizes`, `StringsTyped`: what a short field keeps of a
  string is what it keeps of the string a longer one keeps; `MessagesTyped`, `TabSizes`, and `LayoutSizes`
  of `Layout`).  First, every step of the data store is a step of `IoTable` or none, and of
  `MemoryMap` or none (`ContainsIoTable`, `ContainsMemory`), so their theorems carry over.  The
  other tables have `TablesOK`: unique keys, counts and flags that agree with the contents,
  everything inside the arrays; each handler keeps its part, and a message runs at most one
  handler per table (`Handled`).  Proved: `DsTypeOK`, `NothingHidden`, `NothingLeftOver` (its
  inductive part `CountsOK`: the counters of a reset start again at 0), the refinements
  `TablesReplaced` of `Dictionary` by the register and the flag table, `TabsFit`;
  `CopiesAgree` with the premise `AnnunciatorsByIndex`, which is the emulators' format
  (`RetroDeveloperEnvironmentProject_OUTPUT_SPEC_V01.md:318-323`, no `addr`; with an address the IO
  table would file the message under another key than the annunciators do) and that the cut of the text
  to 255 characters leaves its number, as it does unless the number is longer; and `IoShowsLatest`
  with the premise `FewMessages` of the order counter: `qsort` is modelled by rank, an entry with
  `k - 1` others above it is the `k`-th, and `PlacesTaken` shows that every place is taken once.
- `SessionProofs`, second part (assuming `DefaultsAreWritten`: the default file says what the
  defaults are, `config.c:93-96, 195-201`; and `SettingsTyped`).  `SettingsInForce` speaks of
  the end of start-up; `StartUp` says what holds at each point before it, so that
  `SettingsInv` is inductive.  `LinesLoaded` and `ArgsParsed` say what the loops over lines and
  arguments leave, for any number of them.  Proved: `SettingsInForce`, `ConfigFilesKept`, and
  `SessionTypeOK` (with `Begun`: a log that says anything begins with its start).

Loops.  What a loop leaves after any number of passes needs induction, and the induction
theorems of the library take an operator, which the provers cannot instantiate.  `UpTo` in
`NumberFacts` states the principle for the set of good indices instead, and `LoopExists`, proved
from it, gives a recursive function of the number of passes its equation.  The loops proved about (`Search`,
`process_memory_dump`, `LoadLines`, `config_parse_args`) are therefore written as such functions.

Model-checked only: the liveness properties (`LossNoticed`, `StaleDataReset`, `KeepsTrying`,
`StopObeyed`) and the fairness part of `ImplementsLineStream`, for which the prover has no
rules.  Every other property of a passing run has a theorem.  That a growing `RecencyTable`, `ByteMap`
or `Dictionary` is itself sensible is a matter of reading them, as are the
assumptions on constants.  The assumptions on messages (`MessagesTyped`) are what the parser
lets through; TLC evaluates all of them on its instances.

## 6. Not modelled

- JSON itself (cJSON), and the timestamps and lengths of messages, which nothing reads.  The
  cut of strings other than values, and of IO keys at 95 characters: the emulators' names are
  shorter.  What `atoi()` makes of a number that is no `int`, and the cut of a row's address to
  16 bits.
- The contents of a snapshot and of what is drawn: formatted text of tables whose contents are
  modelled.  The marking of found text, colours, the caps lock detection (only that it may ask
  for a repaint), the wording of the status message.
- A write to a log or a snapshot that fails for want of space; the code does not look.
- A `time()` that is set back: ages and seconds only grow.  Local time may go back.
- The build.
- Memory safety of the C code; the models have the bounds tests and say what they protect.

## 7. Plan

Done: 1. receive path, 2. event loop, 3. IO table, 4. memory map, 5. parser and data store,
6. keys, search and status message, 7. the layout of the tabs, 8. configuration, log and
snapshot files over several runs, each with its abstract specification where it promises one;
proofs for all of them but what section 5 lists as model-checked.

Next, in this order:

1. `Monitor` over `LineStream` instead of a count of pending lines, so that the promise of the
   network layer is composed by instance and not by reading.
2. Lemmas about `Parser` that give the part of `MessagesTyped` about lengths (`KeptBytes`).
3. The marking of found text in a row, checked against a definition of a match.
