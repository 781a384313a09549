--------------------------------- MODULE Ui ---------------------------------
(***************************************************************************)
(* The keyboard side of the user interface (ui.c, ui_handle_input; the     *)
(* scroll functions of ui_tabs.c and data_store.c): the tabs, the search   *)
(* dialog with one search per tab, the scroll position of the Memory tab   *)
(* and the status message.  What is painted is a copy of the view taken by *)
(* ui_update().                                                            *)
(*                                                                         *)
(* Quitting, the connection and the clock are in module Monitor.           *)
(***************************************************************************)
EXTENDS Integers, Sequences, Layout

CONSTANTS
  Tabs,               (* the tabs,                                         *)
  TAB_INFO,           (* the first one                                     *)
  TAB_MEMORY,         (* and the one that scrolls                          *)
  Printable,          (* characters of a search term                       *)
  TabKey,             (* function: the characters that switch tabs         *)
  Heights,            (* content_height for the sizes of the terminal      *)
  MaxTerm,            (* longest term, 255 in the code                     *)
  Sections,           (* bound: what messages bring of "flags", "zero" and *)
                      (* "stack", the sections above the memory dump       *)
  MessageTime,        (* seconds a status message is shown, 5 in the code  *)
  MaxLines,           (* bound: lines of memory received                   *)
  MaxErrors           (* bound: rejected lines counted                     *)

ASSUME TabKeysSwitchTabs ==
  {TAB_INFO, TAB_MEMORY} \subseteq Tabs /\ DOMAIN TabKey \subseteq Printable
    /\ \A c \in DOMAIN TabKey : TabKey[c] \in Tabs
(* The Memory tab has room for at least one line (height - 3).             *)
ASSUME UiSizes ==
  /\ Heights \subseteq {h \in Nat : h > 3} /\ MaxTerm \in Nat /\ MaxLines \in Nat
  /\ MessageTime \in Nat \ {0} /\ MaxErrors \in Nat

VARIABLES
  current_tab, mode,  (* mode is "normal" or "search"                      *)
  search,             (* per tab: term, active, cursor_pos                 *)
  win_search,         (* the dialog window exists                          *)
  content_height,
  lines, scroll_pos,  (* MemoryData: count and scroll_pos                  *)
  sections,           (* what is shown above it: the tables with data      *)
  parse_errors,       (* DataStore's count of rejected lines               *)
  message,            (* the status message: seconds it has left, 0: none  *)
  needs_refresh,
  painted,            (* the view as of the last ui_update()               *)
  confirmed           (* history: the term last confirmed with Enter       *)

dialog == <<mode, search, win_search, confirmed>>
memory == <<lines, scroll_pos, sections>>
data == <<memory, parse_errors>>
vars == <<current_tab, dialog, content_height, data, message, needs_refresh, painted>>

NoSearch == [term |-> <<>>, active |-> FALSE, cursor_pos |-> 0]

(* What is painted: the tab, the term it highlights, the Memory tab from   *)
(* its first line on, the Info tab's count of rejected lines, and in the   *)
(* help bar the status message.                                            *)
Highlight(s) == IF s.active THEN s.term ELSE <<>>
ViewWith(shown) ==
  [tab |-> current_tab, highlight |-> Highlight(search[current_tab]),
   top |-> IF current_tab = TAB_MEMORY THEN scroll_pos ELSE 0,
   lines |-> IF current_tab = TAB_MEMORY THEN lines ELSE 0,
   sections |-> IF current_tab = TAB_MEMORY THEN sections ELSE {},
   errors |-> IF current_tab = TAB_INFO THEN parse_errors ELSE 0,
   height |-> content_height, message |-> shown]
View == ViewWith(message > 0)

Init ==
  /\ current_tab = TAB_INFO
  /\ mode = "normal" /\ win_search = FALSE
  /\ search = [t \in Tabs |-> NoSearch]
  /\ content_height \in Heights
  /\ lines = 0 /\ scroll_pos = 0 /\ sections = {} /\ message = 0
  /\ parse_errors = 0
  /\ needs_refresh = FALSE /\ painted = View
  /\ confirmed = [t \in Tabs |-> <<>>]
------------------------------------------------------------------------------
(* The search dialog.                                                      *)
Edited == search[current_tab]
Edit(term, pos) ==
  search' = [search EXCEPT
    ![current_tab] = [term |-> term, active |-> Edited.active, cursor_pos |-> pos]]

hide_search_dialog ==
  win_search' = FALSE /\ mode' = "normal" /\ needs_refresh' = TRUE

ui_show_search ==
  /\ mode' = "search" /\ win_search' = TRUE
  /\ Edit(<<>>, 0)
  /\ UNCHANGED <<current_tab, content_height, data, message,
                 needs_refresh, painted, confirmed>>

Cancel ==
  /\ mode = "search" /\ hide_search_dialog
  /\ UNCHANGED <<current_tab, search, content_height, data, message, painted, confirmed>>

Confirm ==
  /\ mode = "search" /\ hide_search_dialog
  /\ search' = [search EXCEPT ![current_tab].active = Edited.term # <<>>]
  /\ confirmed' = [confirmed EXCEPT ![current_tab] = Edited.term]
  /\ UNCHANGED <<current_tab, content_height, data, message, painted>>

(* Mutant of Backspace: the cursor moves, the character stays.              *)
BackspaceKeepsChar ==
  /\ mode = "search" /\ Edited.cursor_pos > 0
  /\ Edit(Edited.term, Edited.cursor_pos - 1)
  /\ win_search' = TRUE
  /\ UNCHANGED <<current_tab, mode, confirmed, content_height, data, message,
                 needs_refresh, painted>>

Backspace ==
  /\ mode = "search" /\ Edited.cursor_pos > 0
  /\ Edit(SubSeq(Edited.term, 1, Edited.cursor_pos - 1), Edited.cursor_pos - 1)
  /\ win_search' = TRUE
  /\ UNCHANGED <<current_tab, mode, confirmed, content_height, data, message,
                 needs_refresh, painted>>

(* Every printable character is text here, those that switch tabs too.     *)
Type(c) ==
  /\ mode = "search" /\ Edited.cursor_pos < MaxTerm
  /\ Edit(Append(SubSeq(Edited.term, 1, Edited.cursor_pos), c), Edited.cursor_pos + 1)
  /\ win_search' = TRUE
  /\ UNCHANGED <<current_tab, mode, confirmed, content_height, data, message,
                 needs_refresh, painted>>

ShowSearch == mode = "normal" /\ ui_show_search
------------------------------------------------------------------------------
(* Tabs and scrolling.                                                     *)
(* Mutant of ui_switch_tab: the keys of the tabs work in the dialog too.    *)
SwitchInAnyMode(tab) ==
  /\ tab # current_tab
  /\ current_tab' = tab /\ needs_refresh' = TRUE
  /\ UNCHANGED <<dialog, content_height, data, message, painted>>

ui_switch_tab(tab) ==
  /\ mode = "normal" /\ tab # current_tab
  /\ current_tab' = tab /\ needs_refresh' = TRUE
  /\ UNCHANGED <<dialog, content_height, data, message, painted>>

(* Mutant of Visible: all rows but the heading of the dump count.           *)
AllRows == content_height - 2

Visible == visible_lines(content_height)

ScrollTo(pos) ==
  /\ mode = "normal" /\ current_tab = TAB_MEMORY
  /\ scroll_pos' = pos /\ needs_refresh' = TRUE
  /\ UNCHANGED <<current_tab, dialog, content_height, lines, sections, parse_errors,
                 message, painted>>

LastTop == Positive(lines - Visible)

ScrollUp(n)   == ScrollTo(Positive(scroll_pos - n))
ScrollDown(n) == ScrollTo(Least(scroll_pos + n, LastTop))
Home          == ScrollTo(0)
End           == ScrollTo(LastTop)

Scroll ==
  \/ \E n \in {1, content_height - 2} : ScrollUp(n) \/ ScrollDown(n)
  \/ Home \/ End
------------------------------------------------------------------------------
(* The rest of the event loop, as far as the keyboard side sees it.        *)

(* A message that adds a line of memory (main.c: process, then mark dirty).*)
NewLine ==
  /\ lines < MaxLines /\ lines' = lines + 1 /\ needs_refresh' = TRUE
  /\ UNCHANGED <<current_tab, dialog, content_height, scroll_pos, sections, parse_errors,
                 message, painted>>

(* One for a table that is shown above the dump.                           *)
NewSection ==
  /\ \E s \in Sections : sections' = sections \union {s}
  /\ needs_refresh' = TRUE
  /\ UNCHANGED <<current_tab, dialog, content_height, lines, scroll_pos, parse_errors,
                 message, painted>>

(* A line that is no message is counted, and nobody asks for a repaint.    *)
ParseError ==
  /\ parse_errors < MaxErrors /\ parse_errors' = parse_errors + 1
  /\ UNCHANGED <<current_tab, dialog, content_height, memory, message, needs_refresh,
                 painted>>

(* Mutant of ui_set_status_message: the caller is left to ask for a repaint.*)
MessageNotPainted ==
  /\ message' = MessageTime
  /\ UNCHANGED <<current_tab, dialog, content_height, data, needs_refresh, painted>>

(* The event loop reports an attempt to connect, its result, a loss or a   *)
(* reset.                                                                  *)
ui_set_status_message ==
  /\ message' = MessageTime /\ needs_refresh' = TRUE
  /\ UNCHANGED <<current_tab, dialog, content_height, data, painted>>

(* A second passes: a message expires, and nobody asks for a repaint.      *)
Tick ==
  /\ message > 0 /\ message' = message - 1
  /\ UNCHANGED <<current_tab, dialog, content_height, data, needs_refresh, painted>>

(* Mutant of datastore_clear: the scroll position survives the lines.       *)
ClearKeepsScroll ==
  /\ lines' = 0 /\ sections' = {} /\ parse_errors' = 0 /\ needs_refresh' = TRUE
  /\ UNCHANGED <<current_tab, dialog, content_height, scroll_pos, message, painted>>

(* The reset after a long outage.                                          *)
datastore_clear ==
  /\ lines' = 0 /\ scroll_pos' = 0 /\ sections' = {} /\ parse_errors' = 0
  /\ needs_refresh' = TRUE
  /\ UNCHANGED <<current_tab, dialog, content_height, message, painted>>

(* Paint; in search mode the dialog is drawn, and made if it is missing.   *)
ui_update ==
  /\ needs_refresh
  /\ painted' = View /\ needs_refresh' = FALSE
  /\ win_search' = IF mode = "search" THEN TRUE ELSE win_search
  /\ UNCHANGED <<current_tab, mode, search, confirmed, content_height, data, message>>

(* Mutant of ui_resize: the dialog is not made again.                       *)
ResizeLosesDialog ==
  /\ \E h \in Heights : content_height' = h /\ painted' = [View EXCEPT !.height = h]
  /\ win_search' = FALSE
  /\ needs_refresh' = FALSE
  /\ UNCHANGED <<current_tab, mode, search, confirmed, data, message>>

(* create_windows() deletes every window, the dialog too; the repaint that *)
(* ui_resize() ends with makes it again.                                   *)
ui_resize ==
  /\ \E h \in Heights : content_height' = h /\ painted' = [View EXCEPT !.height = h]
  /\ win_search' = (mode = "search")
  /\ needs_refresh' = FALSE
  /\ UNCHANGED <<current_tab, mode, search, confirmed, data, message>>

ui_handle_input ==
  \/ Cancel \/ Confirm \/ Backspace \/ ShowSearch \/ Scroll
  \/ \E c \in Printable : Type(c)
  \/ \E c \in DOMAIN TabKey : ui_switch_tab(TabKey[c])

Next ==
  \/ ui_handle_input
  \/ NewLine \/ NewSection \/ ParseError \/ datastore_clear \/ ui_set_status_message \/ Tick
  \/ ui_update \/ ui_resize

Spec == Init /\ [][Next]_vars

(* Time passes, and every pass of the event loop paints if it is asked to. *)
FairSpec == Spec /\ WF_vars(Tick) /\ WF_vars(ui_update)
------------------------------------------------------------------------------
(* The search of each tab is a string inside its buffer, with the cursor   *)
(* at its end.                                                             *)
UiTypeOK ==
  /\ current_tab \in Tabs /\ mode \in {"normal", "search"}
  /\ win_search \in BOOLEAN /\ needs_refresh \in BOOLEAN
  /\ \A t \in Tabs : /\ search[t].term \in Seq(Printable)
                     /\ search[t].cursor_pos = Len(search[t].term)
                     /\ search[t].cursor_pos <= MaxTerm
                     /\ search[t].active \in BOOLEAN
  /\ content_height \in Heights /\ lines \in 0..MaxLines /\ scroll_pos \in Nat
  /\ sections \subseteq Sections /\ message \in 0..MessageTime
  /\ parse_errors \in 0..MaxErrors /\ painted.errors \in 0..MaxErrors

(* The dialog is on the screen exactly while keys go to it, whatever       *)
(* resizes and repaints happen meanwhile (ui.c:60, 201-212, 426-428).      *)
DialogFollowsMode == win_search <=> mode = "search"

(* Once there is memory to show, the position the Memory tab paints from   *)
(* is a line that exists: no sequence of keys, resizes, new lines and      *)
(* resets scrolls past the end (data_store.c:671-710, 776; ui_tabs.c:760). *)
SomethingInView == lines > 0 => scroll_pos < lines

(* The lines of memory on the screen.                                      *)
Seen ==
  LET top == DumpTop("flags" \in sections, "zero" \in sections, "stack" \in sections,
                     content_height)
  IN  {l \in DumpDrawn(lines, scroll_pos, content_height) :
         DumpRow(top, scroll_pos, l) < content_height}

(* "Home/End: go to the beginning/end" (README.md:146), and the keys that  *)
(* go down stop where the last line is on the last row (data_store.c:683): *)
(* as long as nothing is shown above the dump.                             *)
ScrollKeysShowLines ==
  [][sections = {} /\ lines > 0 =>
       /\ Home => 0 \in Seen'
       /\ End => lines - 1 \in Seen'
       /\ (\E n \in {1, content_height - 2} : ScrollDown(n)) =>
            Seen' = scroll_pos' .. scroll_pos' + Least(lines, Visible) - 1]_vars

Content(v) == <<v.tab, v.highlight, v.top, v.lines, v.sections, v.height>>

(* In normal mode, when no repaint is due, the tab, its highlighted term,  *)
(* the Memory tab and the size on the screen are those of the state.  Two  *)
(* things change without needs_refresh and may be out of date, each in one *)
(* direction: a status message may outlive its time (ui.c:188-194), and    *)
(* the Info tab's count of rejected lines may be too low (main.c:252).  A  *)
(* message in force is always there, and no count survives a reset.        *)
PaintedIsCurrent ==
  mode = "normal" /\ ~needs_refresh =>
    /\ Content(painted) = Content(View)
    /\ View.message => painted.message
    /\ painted.errors <= View.errors

(* "Message will auto-clear after a few seconds" (ui.h:193): a message     *)
(* whose time is over is taken off the screen, or replaced by another.     *)
MessageAutoClears ==
  painted.message /\ message = 0 ~> ~painted.message \/ message > 0

(* While the dialog is open keys are text: they neither switch the tab nor *)
(* scroll, and they touch no other tab's search.                           *)
KeysStayInDialog ==
  [][mode = "search" =>
       /\ UNCHANGED current_tab
       /\ scroll_pos' # scroll_pos => lines' = 0
       /\ \A t \in Tabs \ {current_tab} : search'[t] = search[t]]_vars

(* "Enter: Search | ESC: Cancel" (ui.c:177): outside the dialog a tab      *)
(* highlights the term that was last confirmed for it, and no other.       *)
CancelKeepsSearch ==
  mode = "normal" => \A t \in Tabs : Highlight(search[t]) = confirmed[t]
==============================================================================
