------------------------------ MODULE UiProofs ------------------------------
(***************************************************************************)
(* The safety properties of the keyboard side for every set of tabs, every *)
(* term length, every terminal size and every number of lines.             *)
(***************************************************************************)
EXTENDS Ui, TLAPS

(* search is a record for every tab.                                       *)
SearchShape ==
  search \in [Tabs -> [term: Seq(Printable), active: BOOLEAN, cursor_pos: Nat]]

(* Without lines there is nothing to scroll.                               *)
TopWithoutLines == lines = 0 => scroll_pos = 0

IInv ==
  /\ SearchShape /\ UiTypeOK
  /\ DialogFollowsMode
  /\ SomethingInView /\ TopWithoutLines
  /\ PaintedIsCurrent
-----------------------------------------------------------------------------
(* The conjuncts of UiTypeOK apart from those about search.                *)
Plain ==
  /\ current_tab \in Tabs /\ mode \in {"normal", "search"}
  /\ win_search \in BOOLEAN /\ needs_refresh \in BOOLEAN
  /\ content_height \in Heights /\ lines \in 0..MaxLines /\ scroll_pos \in Nat
  /\ sections \subseteq Sections /\ message \in 0..MessageTime
  /\ parse_errors \in 0..MaxErrors /\ painted.errors \in 0..MaxErrors

Terms ==
  \A t \in Tabs : /\ search[t].term \in Seq(Printable)
                  /\ search[t].cursor_pos = Len(search[t].term)
                  /\ search[t].cursor_pos <= MaxTerm
                  /\ search[t].active \in BOOLEAN

LEMMA TypeParts == UiTypeOK <=> Plain /\ Terms
  BY DEF UiTypeOK, Plain, Terms

LEMMA PartsType == ASSUME Plain', Terms' PROVE UiTypeOK'
  BY DEF UiTypeOK, Plain, Terms

(* A search whose term fits replaces the search of a tab.                  *)
LEMMA SearchReplaced ==
  ASSUME SearchShape, Terms, NEW t \in Tabs,
         NEW s \in [term: Seq(Printable), active: BOOLEAN, cursor_pos: Nat],
         s.cursor_pos = Len(s.term), s.cursor_pos <= MaxTerm,
         search' = [search EXCEPT ![t] = s]
  PROVE  SearchShape' /\ Terms'
<1>1. SearchShape'
  BY DEF SearchShape
<1>2. ASSUME NEW u \in Tabs PROVE search'[u] = IF u = t THEN s ELSE search[u]
  BY DEF SearchShape
<1>3. Terms'
  BY <1>2 DEF Terms
<1>4. QED
  BY <1>1, <1>3

LEMMA EditedShape ==
  ASSUME SearchShape, Terms, Plain
  PROVE  /\ Edited.term \in Seq(Printable)
         /\ Edited.active \in BOOLEAN
         /\ Edited.cursor_pos \in Nat
         /\ Edited.cursor_pos = Len(Edited.term)
         /\ Edited.cursor_pos <= MaxTerm
  BY DEF SearchShape, Terms, Plain, Edited

LEMMA EditKeepsShape ==
  ASSUME SearchShape, Terms, Plain, NEW term \in Seq(Printable),
         NEW pos \in Nat, pos = Len(term), pos <= MaxTerm, Edit(term, pos)
  PROVE  SearchShape' /\ Terms'
<1>1. current_tab \in Tabs
  BY DEF Plain
<1>2. QED
  BY <1>1, EditedShape, SearchReplaced DEF Edit

LEMMA DialogKeys ==
  ASSUME SearchShape, Terms, Plain,
         ui_show_search \/ Confirm \/ Backspace \/ (\E c \in Printable : Type(c))
  PROVE  SearchShape' /\ Terms'
<1>0. MaxTerm \in Nat
  BY UiSizes
<1>1. CASE ui_show_search
  <2>1. <<>> \in Seq(Printable) /\ Len(<<>>) = 0
    OBVIOUS
  <2>2. Edit(<<>>, 0)
    BY <1>1 DEF ui_show_search
  <2>3. 0 \in Nat /\ 0 <= MaxTerm
    BY <1>0
  <2>4. QED
    BY <2>1, <2>2, <2>3, EditKeepsShape
<1>2. CASE Confirm
  <2> DEFINE active == Edited.term # <<>>
             closed == [Edited EXCEPT !.active = active]
  <2>1. /\ current_tab \in Tabs
        /\ search \in [Tabs -> [term: Seq(Printable), active: BOOLEAN, cursor_pos: Nat]]
    BY DEF Plain, SearchShape
  <2>2. search' = [search EXCEPT ![current_tab].active = active]
    BY <1>2 DEF Confirm
  <2>3. search' = [search EXCEPT ![current_tab] = closed]
    BY <2>1, <2>2 DEF Edited
  <2>4. Edited \in [term: Seq(Printable), active: BOOLEAN, cursor_pos: Nat]
    BY <2>1 DEF Edited
  <2>5. active \in BOOLEAN
    OBVIOUS
  <2>6. /\ closed \in [term: Seq(Printable), active: BOOLEAN, cursor_pos: Nat]
        /\ closed.term = Edited.term /\ closed.cursor_pos = Edited.cursor_pos
    <3> HIDE DEF active
    <3> QED BY <2>4, <2>5
  <2>7. closed.cursor_pos = Len(closed.term) /\ closed.cursor_pos <= MaxTerm
    BY <2>6, EditedShape
  <2> HIDE DEF active, closed
  <2>8. QED
    BY <2>1, <2>3, <2>6, <2>7, SearchReplaced
<1>3. CASE Backspace
  <2> DEFINE pos == Edited.cursor_pos - 1
             shorter == SubSeq(Edited.term, 1, pos)
  <2>1. /\ shorter \in Seq(Printable) /\ Len(shorter) = pos
        /\ pos \in Nat /\ pos <= MaxTerm
    BY <1>0, <1>3, EditedShape DEF Backspace
  <2>2. Edit(shorter, pos)
    BY <1>3 DEF Backspace
  <2>3. QED
    BY <2>1, <2>2, EditKeepsShape
<1>4. CASE \E c \in Printable : Type(c)
  <2>1. PICK c \in Printable : Type(c)
    BY <1>4
  <2> DEFINE pos == Edited.cursor_pos + 1
             prefix == SubSeq(Edited.term, 1, Edited.cursor_pos)
             longer == Append(prefix, c)
  <2>2. prefix \in Seq(Printable) /\ Len(prefix) = Edited.cursor_pos
    BY EditedShape
  <2>3. longer \in Seq(Printable) /\ Len(longer) = pos
    BY <2>2
  <2>4. pos \in Nat /\ pos <= MaxTerm
    BY <1>0, <2>1, EditedShape DEF Type
  <2>5. Edit(longer, pos)
    BY <2>1 DEF Type
  <2>6. QED
    BY <2>3, <2>4, <2>5, EditKeepsShape
<1>5. QED
  BY <1>1, <1>2, <1>3, <1>4

LEMMA SearchUnchanged ==
  ASSUME SearchShape, Terms, UNCHANGED search PROVE SearchShape' /\ Terms'
  BY DEF SearchShape, Terms

(* A scroll position between 0 and LastTop is in view.                     *)
LEMMA ScrollFacts ==
  ASSUME Plain, SomethingInView, TopWithoutLines, Scroll
  PROVE  /\ scroll_pos' \in Nat
         /\ lines > 0 => scroll_pos' < lines
         /\ lines = 0 => scroll_pos' = 0
<1>0. /\ content_height \in Nat /\ content_height > 3
      /\ lines \in Nat /\ scroll_pos \in Nat
  BY UiSizes DEF Plain
<1>1. /\ LastTop \in Nat
      /\ lines > 0 => LastTop < lines
      /\ lines = 0 => LastTop = 0
  BY <1>0 DEF LastTop, Positive, Visible, visible_lines
<1>2. ASSUME NEW n \in {1, content_height - 2}, ScrollUp(n) \/ ScrollDown(n)
      PROVE  /\ scroll_pos' \in Nat
             /\ scroll_pos' <= scroll_pos \/ scroll_pos' <= LastTop
  BY <1>0, <1>1, <1>2 DEF ScrollUp, ScrollDown, ScrollTo, Positive, Least
<1>3. ASSUME Home \/ End
      PROVE  scroll_pos' \in Nat /\ scroll_pos' <= LastTop
  BY <1>0, <1>1, <1>3 DEF Home, End, ScrollTo
<1>4. scroll_pos' \in Nat /\ (scroll_pos' <= scroll_pos \/ scroll_pos' <= LastTop)
  BY <1>2, <1>3 DEF Scroll
<1>5. QED
  BY <1>0, <1>1, <1>4 DEF SomethingInView, TopWithoutLines

(* A view just painted is current.                                         *)
LEMMA ViewErrors ==
  ASSUME parse_errors \in 0..MaxErrors PROVE View.errors \in 0..MaxErrors
<1>1. 0 \in 0..MaxErrors /\ parse_errors \in 0..MaxErrors
  BY UiSizes
<1>2. QED
  BY <1>1 DEF View, ViewWith

LEMMA UpToDate == ASSUME Plain, painted = View PROVE PaintedIsCurrent
<1>1. View.errors <= View.errors
  BY ViewErrors, UiSizes DEF Plain
<1>2. QED
  BY <1>1 DEF PaintedIsCurrent

LEMMA UpToDateNext == ASSUME Plain', painted' = View' PROVE PaintedIsCurrent'
<1>1. parse_errors' \in Nat
  BY UiSizes DEF Plain
<1>2. View'.errors <= View'.errors
  BY <1>1 DEF View, ViewWith
<1>3. QED
  BY <1>2 DEF PaintedIsCurrent, Content

-----------------------------------------------------------------------------
LEMMA InitIInv == Init => IInv
<1> SUFFICES ASSUME Init PROVE IInv
  OBVIOUS
<1>0. <<>> \in Seq(Printable) /\ Len(<<>>) = 0 /\ MaxTerm \in Nat /\ MaxLines \in Nat
      /\ TAB_INFO \in Tabs
  BY UiSizes, TabKeysSwitchTabs
<1>1. SearchShape /\ Terms
  <2>1. NoSearch \in [term: Seq(Printable), active: BOOLEAN, cursor_pos: Nat]
    BY <1>0 DEF NoSearch
  <2>2. search = [t \in Tabs |-> NoSearch]
    BY DEF Init
  <2>3. SearchShape
    BY <2>1, <2>2 DEF SearchShape
  <2>4. ASSUME NEW t \in Tabs PROVE search[t] = NoSearch
    BY <2>2
  <2>5. /\ NoSearch.term = <<>> /\ NoSearch.cursor_pos = 0
        /\ NoSearch.active = FALSE
    BY DEF NoSearch
  <2>6. ASSUME NEW t \in Tabs
        PROVE  /\ search[t].term \in Seq(Printable)
               /\ search[t].cursor_pos = Len(search[t].term)
               /\ search[t].cursor_pos <= MaxTerm
               /\ search[t].active \in BOOLEAN
    <3>1. search[t].term = <<>> /\ search[t].cursor_pos = 0 /\ search[t].active = FALSE
      BY <2>4, <2>5
    <3>2. Len(search[t].term) = 0
      BY <1>0, <3>1
    <3>3. search[t].cursor_pos <= MaxTerm
      BY <1>0, <3>1
    <3>4. search[t].term \in Seq(Printable)
      BY <1>0, <3>1
    <3>5. QED
      BY <3>1, <3>2, <3>3, <3>4
  <2>7. Terms
    BY <2>6 DEF Terms
  <2>8. QED
    BY <2>3, <2>7
<1>2. Plain
  <2>1. /\ current_tab \in Tabs /\ mode \in {"normal", "search"}
        /\ win_search \in BOOLEAN /\ needs_refresh \in BOOLEAN
    BY <1>0 DEF Init
  <2>2. /\ content_height \in Heights /\ lines \in 0..MaxLines /\ scroll_pos \in Nat
        /\ sections \subseteq Sections /\ message \in 0..MessageTime
        /\ parse_errors \in 0..MaxErrors /\ painted.errors \in 0..MaxErrors
    BY <1>0, UiSizes DEF Init, View, ViewWith
  <2>3. QED
    BY <2>1, <2>2 DEF Plain
<1>3. DialogFollowsMode /\ SomethingInView /\ TopWithoutLines
  BY DEF Init, DialogFollowsMode, SomethingInView, TopWithoutLines
<1>5. PaintedIsCurrent
  BY <1>2, UpToDate DEF Init
<1>4. QED
  BY <1>1, <1>2, <1>3, <1>5, TypeParts DEF IInv

(* The keys of the search dialog, and f, which opens it.                   *)
LEMMA DialogKeepsIInv ==
  ASSUME IInv,
         Cancel \/ Confirm \/ Backspace \/ ShowSearch \/ (\E c \in Printable : Type(c))
  PROVE  IInv'
<1>1. SearchShape /\ Terms /\ Plain
  BY TypeParts DEF IInv
<1>2. SearchShape' /\ Terms'
  <2>1. CASE Cancel
    BY <1>1, <2>1, SearchUnchanged DEF Cancel
  <2>2. CASE ~Cancel
    BY <1>1, <2>2, DialogKeys DEF ShowSearch
  <2>3. QED
    BY <2>1, <2>2
<1>3. /\ UNCHANGED <<current_tab, content_height, lines, scroll_pos, sections, message,
                     parse_errors, painted>>
      /\ win_search' = (mode' = "search")
      /\ mode' \in {"normal", "search"}
      /\ \/ mode' = "normal" /\ needs_refresh' = TRUE
         \/ mode' = "search" /\ UNCHANGED needs_refresh
  BY DEF Cancel, Confirm, Backspace, ShowSearch, Type, ui_show_search,
         hide_search_dialog, data, memory
<1>4. Plain'
  BY <1>1, <1>3 DEF Plain
<1>5. DialogFollowsMode' /\ PaintedIsCurrent'
  BY <1>3 DEF DialogFollowsMode, PaintedIsCurrent
<1>6. SomethingInView' /\ TopWithoutLines'
  BY <1>3 DEF IInv, SomethingInView, TopWithoutLines
<1>7. QED
  BY <1>2, <1>4, <1>5, <1>6, PartsType DEF IInv

(* The keys of the normal mode that change what is shown, and the changes  *)
(* of the data, all of which ask for a repaint.                            *)
LEMMA ViewKeepsIInv ==
  ASSUME IInv,
         (\E c \in DOMAIN TabKey : ui_switch_tab(TabKey[c])) \/ Scroll
           \/ NewLine \/ NewSection \/ datastore_clear \/ ui_set_status_message
  PROVE  IInv'
<1>1. /\ SearchShape /\ Terms /\ Plain /\ DialogFollowsMode
      /\ SomethingInView /\ TopWithoutLines
  BY TypeParts DEF IInv
<1>2. /\ UNCHANGED <<mode, search, win_search, content_height>>
      /\ needs_refresh' = TRUE
  BY DEF ui_switch_tab, Scroll, ScrollUp, ScrollDown, Home, End, ScrollTo, NewLine,
         NewSection, datastore_clear, ui_set_status_message, dialog
<1>3. SearchShape' /\ Terms'
  BY <1>1, <1>2, SearchUnchanged
<1>4. DialogFollowsMode' /\ PaintedIsCurrent'
  BY <1>1, <1>2 DEF DialogFollowsMode, PaintedIsCurrent
<1>5. current_tab' \in Tabs
  BY <1>1, TabKeysSwitchTabs
  DEF Plain, ui_switch_tab, Scroll, ScrollUp, ScrollDown, Home, End, ScrollTo, NewLine,
      NewSection, datastore_clear, ui_set_status_message
<1>6. /\ lines' \in 0..MaxLines /\ scroll_pos' \in Nat
      /\ SomethingInView' /\ TopWithoutLines'
  <2>1. CASE \E c \in DOMAIN TabKey : ui_switch_tab(TabKey[c])
    BY <1>1, <2>1 DEF Plain, SomethingInView, TopWithoutLines, ui_switch_tab, data, memory
  <2>2. CASE Scroll
    <3>1. UNCHANGED lines
      BY <2>2 DEF Scroll, ScrollUp, ScrollDown, Home, End, ScrollTo
    <3>2. QED
      BY <1>1, <2>2, <3>1, ScrollFacts DEF Plain, SomethingInView, TopWithoutLines
  <2>3. CASE NewLine
    BY <1>1, <2>3, UiSizes DEF Plain, SomethingInView, TopWithoutLines, NewLine
  <2>4. CASE datastore_clear
    BY <2>4, UiSizes DEF SomethingInView, TopWithoutLines, datastore_clear
  <2>5. CASE NewSection \/ ui_set_status_message
    BY <1>1, <2>5 DEF Plain, SomethingInView, TopWithoutLines, NewSection,
                      ui_set_status_message, data, memory
  <2>6. QED
    BY <2>1, <2>2, <2>3, <2>4, <2>5
<1>7. /\ sections' \subseteq Sections /\ message' \in 0..MessageTime
      /\ parse_errors' \in 0..MaxErrors /\ UNCHANGED painted
  BY <1>1, UiSizes
  DEF Plain, ui_switch_tab, Scroll, ScrollUp, ScrollDown, Home, End, ScrollTo, NewLine,
      NewSection, datastore_clear, ui_set_status_message, data, memory
<1>8. Plain'
  BY <1>1, <1>2, <1>5, <1>6, <1>7 DEF Plain
<1>9. QED
  BY <1>3, <1>4, <1>6, <1>8, PartsType DEF IInv

(* Neither the clock nor a rejected line asks for a repaint: the message    *)
(* may expire and the count may grow, which the screen need not show.      *)
LEMMA UnseenKeepsIInv == ASSUME IInv, Tick \/ ParseError PROVE IInv'
<1>1. /\ SearchShape /\ Terms /\ Plain /\ DialogFollowsMode
      /\ SomethingInView /\ TopWithoutLines /\ PaintedIsCurrent
  BY TypeParts DEF IInv
<1>2. /\ UNCHANGED <<current_tab, mode, search, win_search, content_height, lines,
                     scroll_pos, sections, needs_refresh, painted>>
      /\ message' \in 0..MessageTime /\ parse_errors' \in 0..MaxErrors
      /\ message' > 0 => message > 0
      /\ parse_errors <= parse_errors'
  <2>1. CASE Tick
    BY <1>1, <2>1, UiSizes DEF Tick, Plain, dialog, data, memory
  <2>2. CASE ParseError
    BY <1>1, <2>2, UiSizes DEF ParseError, Plain, dialog, memory
  <2>3. QED
    BY <2>1, <2>2
<1>3. SearchShape' /\ Terms'
  BY <1>1, <1>2, SearchUnchanged
<1>4. Plain'
  BY <1>1, <1>2 DEF Plain
<1>5. DialogFollowsMode' /\ SomethingInView' /\ TopWithoutLines'
  BY <1>1, <1>2 DEF DialogFollowsMode, SomethingInView, TopWithoutLines
<1>6. PaintedIsCurrent'
  <2> SUFFICES ASSUME mode' = "normal", ~needs_refresh'
               PROVE  /\ Content(painted)' = Content(View)'
                      /\ View'.message => painted'.message
                      /\ painted'.errors <= View'.errors
    BY DEF PaintedIsCurrent
  <2>1. /\ Content(painted) = Content(View)
        /\ View.message => painted.message
        /\ painted.errors <= View.errors
    BY <1>1, <1>2 DEF PaintedIsCurrent
  <2>2. Content(painted)' = Content(painted) /\ Content(View)' = Content(View)
    BY <1>2 DEF Content, View, ViewWith
  <2>3. View'.message => View.message
    BY <1>2 DEF View, ViewWith
  <2>4. painted'.errors <= View'.errors
    <3>1. CASE current_tab = TAB_INFO
      <4>1. View.errors = parse_errors /\ View'.errors = parse_errors'
        BY <1>2, <3>1 DEF View, ViewWith
      <4>2. painted.errors <= parse_errors /\ painted'.errors = painted.errors
        BY <1>2, <2>1, <4>1
      <4>3. painted.errors \in Nat
        BY <1>1, UiSizes DEF Plain
      <4>4. QED
        BY <1>1, <1>2, <4>1, <4>2, <4>3, UiSizes DEF Plain
    <3>2. CASE current_tab # TAB_INFO
      <4>1. View'.errors = View.errors
        BY <1>2, <3>2 DEF View, ViewWith
      <4>2. QED
        BY <1>2, <2>1, <4>1
    <3>3. QED
      BY <3>1, <3>2
  <2>5. QED
    BY <1>2, <2>1, <2>2, <2>3, <2>4
<1>7. QED
  BY <1>3, <1>4, <1>5, <1>6, PartsType DEF IInv

(* Repaints, and steps of the rest of the program.                         *)
LEMMA PaintKeepsIInv ==
  ASSUME IInv, ui_update \/ ui_resize \/ UNCHANGED vars
  PROVE  IInv'
<1>1. /\ SearchShape /\ Terms /\ Plain /\ DialogFollowsMode
      /\ SomethingInView /\ TopWithoutLines /\ PaintedIsCurrent
  BY TypeParts DEF IInv
<1>2. UNCHANGED <<current_tab, mode, search, lines, scroll_pos, sections, message,
                  parse_errors>>
  BY DEF ui_update, ui_resize, vars, dialog, data, memory
<1>3. SearchShape' /\ Terms'
  BY <1>1, <1>2, SearchUnchanged
<1>4. SomethingInView' /\ TopWithoutLines'
  BY <1>1, <1>2 DEF SomethingInView, TopWithoutLines
<1>5. win_search' \in BOOLEAN /\ needs_refresh' \in BOOLEAN /\ content_height' \in Heights
  BY <1>1 DEF Plain, ui_update, ui_resize, vars, dialog
<1>a. painted'.errors \in 0..MaxErrors
  <2>1. View.errors \in 0..MaxErrors
    BY <1>1, ViewErrors DEF Plain
  <2>2. painted'.errors \in {View.errors, painted.errors}
    BY DEF ui_update, ui_resize, View, ViewWith, vars
  <2>3. QED
    BY <1>1, <2>1, <2>2 DEF Plain
<1>6. Plain'
  BY <1>1, <1>2, <1>5, <1>a DEF Plain
<1>7. DialogFollowsMode'
  <2>1. CASE ui_update
    BY <1>1, <1>2, <2>1 DEF DialogFollowsMode, ui_update
  <2>2. CASE ui_resize
    BY <1>2, <2>2 DEF DialogFollowsMode, ui_resize
  <2>3. CASE UNCHANGED vars
    BY <1>1, <2>3 DEF DialogFollowsMode, vars, dialog
  <2>4. QED
    BY <2>1, <2>2, <2>3
<1>8. PaintedIsCurrent'
  <2>1. CASE ui_update
    <3>1. painted' = View'
      BY <2>1 DEF View, ViewWith, ui_update, data, memory
    <3>2. QED
      BY <1>6, <3>1, UpToDateNext
  <2>2. CASE ui_resize
    <3>1. painted' = View'
      BY <1>2, <2>2 DEF View, ViewWith, ui_resize
    <3>2. QED
      BY <1>6, <3>1, UpToDateNext
  <2>3. CASE UNCHANGED vars
    BY <1>1, <2>3 DEF PaintedIsCurrent, Content, View, ViewWith, vars, dialog, data, memory
  <2>4. QED
    BY <2>1, <2>2, <2>3
<1>9. QED
  BY <1>3, <1>4, <1>6, <1>7, <1>8, PartsType DEF IInv

-----------------------------------------------------------------------------
(* The inductive invariant holds of every behaviour of ui.c's keyboard side.*)
THEOREM Invariance == Spec => []IInv
<1>1. Init => IInv
  BY InitIInv
<1>2. IInv /\ [Next]_vars => IInv'
  BY DialogKeepsIInv, ViewKeepsIInv, UnseenKeepsIInv, PaintKeepsIInv DEF Next, ui_handle_input
<1>3. QED
  BY <1>1, <1>2, PTL DEF Spec

(* The search term stays inside its 256 bytes with the cursor at its end.  *)
THEOREM TypeCorrect == Spec => []UiTypeOK
<1>1. IInv => UiTypeOK
  BY DEF IInv
<1>2. QED
  BY <1>1, Invariance, PTL

(* The search dialog has a window exactly in search mode.                  *)
THEOREM DialogShown == Spec => []DialogFollowsMode
<1>1. IInv => DialogFollowsMode
  BY DEF IInv
<1>2. QED
  BY <1>1, Invariance, PTL

(* The Memory tab paints from a line that exists.                          *)
THEOREM LineInView == Spec => []SomethingInView
<1>1. IInv => SomethingInView
  BY DEF IInv
<1>2. QED
  BY <1>1, Invariance, PTL

(* In normal mode no change of the content goes unpainted, no message in   *)
(* force goes unseen, and no count of rejected lines is shown too high.    *)
THEOREM ViewPainted == Spec => []PaintedIsCurrent
<1>1. IInv => PaintedIsCurrent
  BY DEF IInv
<1>2. QED
  BY <1>1, Invariance, PTL

(* Keys typed into the dialog reach nothing but the current tab's search.  *)
THEOREM DialogTakesKeys == Spec => KeysStayInDialog
<1> DEFINE A == mode = "search" =>
                  /\ UNCHANGED current_tab
                  /\ scroll_pos' # scroll_pos => lines' = 0
                  /\ \A t \in Tabs \ {current_tab} : search'[t] = search[t]
<1>1. IInv /\ [Next]_vars => [A]_vars
  <2> SUFFICES ASSUME IInv, [Next]_vars, mode = "search"
               PROVE  /\ UNCHANGED current_tab
                      /\ scroll_pos' # scroll_pos => lines' = 0
                      /\ \A t \in Tabs \ {current_tab} : search'[t] = search[t]
    OBVIOUS
  <2>1. CASE Confirm \/ Backspace \/ (\E c \in Printable : Type(c))
    <3>1. \E s : search' = [search EXCEPT ![current_tab] = s]
      BY <2>1 DEF Confirm, Backspace, Type, Edit
    <3>2. UNCHANGED <<current_tab, scroll_pos>>
      BY <2>1 DEF Confirm, Backspace, Type, data, memory
    <3>3. QED
      BY <3>1, <3>2 DEF IInv, SearchShape
  <2>2. CASE \/ Cancel \/ NewLine \/ NewSection \/ ui_set_status_message \/ Tick
             \/ ParseError \/ ui_update \/ ui_resize \/ UNCHANGED vars
    BY <2>2 DEF Cancel, NewLine, NewSection, ParseError, ui_set_status_message, Tick,
                ui_update, ui_resize, vars, dialog, data, memory
  <2>3. CASE datastore_clear
    BY <2>3 DEF datastore_clear, dialog
  <2>4. ~ShowSearch /\ ~Scroll /\ \A c \in DOMAIN TabKey : ~ui_switch_tab(TabKey[c])
    BY DEF ShowSearch, Scroll, ScrollUp, ScrollDown, Home, End, ScrollTo, ui_switch_tab
  <2>5. QED
    BY <2>1, <2>2, <2>3, <2>4 DEF Next, ui_handle_input
<1>2. QED
  BY <1>1, Invariance, PTL DEF Spec, KeysStayInDialog

(* With nothing above the dump, Home and End show its ends, and the other   *)
(* keys that go down fill the window.                                      *)
THEOREM ScrollKeysShow == Spec => ScrollKeysShowLines
<1> DEFINE A == sections = {} /\ lines > 0 =>
                  /\ Home => 0 \in Seen'
                  /\ End => lines - 1 \in Seen'
                  /\ (\E n \in {1, content_height - 2} : ScrollDown(n)) =>
                       Seen' = scroll_pos' .. scroll_pos' + Least(lines, Visible) - 1
<1>1. IInv /\ [Next]_vars => [A]_vars
  <2> SUFFICES ASSUME IInv, sections = {}, lines > 0
               PROVE  /\ Home => 0 \in Seen'
                      /\ End => lines - 1 \in Seen'
                      /\ (\E n \in {1, content_height - 2} : ScrollDown(n)) =>
                           Seen' = scroll_pos' .. scroll_pos' + Least(lines, Visible) - 1
    OBVIOUS
  <2>0. /\ content_height \in Nat /\ content_height > 3
        /\ lines \in Nat /\ scroll_pos \in Nat
    <3>1. Plain
      BY TypeParts DEF IInv
    <3>2. QED
      BY <3>1, UiSizes DEF Plain
  <2>1. ASSUME NEW p \in Nat, p <= LastTop, ScrollTo(p)
        PROVE  /\ Seen' = p .. Least(lines, p + content_height - 3) - 1
               /\ scroll_pos' = p
    <3>1. /\ scroll_pos' = p
          /\ UNCHANGED <<lines, content_height, sections>>
      BY <2>1 DEF ScrollTo
    <3>2. DumpTop("flags" \in sections, "zero" \in sections, "stack" \in sections,
                  content_height) = 0
      BY DEF DumpTop, AfterFlags, AfterPage
    <3>3. Seen' = {l \in DumpDrawn(lines, p, content_height) :
                     DumpRow(0, p, l) < content_height}
      BY <3>1, <3>2 DEF Seen
    <3>4. QED
      BY <2>0, <3>1, <3>3 DEF DumpDrawn, DumpRow, visible_lines, Least
  <2>2. /\ LastTop \in Nat
        /\ LastTop = IF lines > content_height - 3 THEN lines - (content_height - 3) ELSE 0
    BY <2>0 DEF LastTop, Positive, Visible, visible_lines
  <2>3. ASSUME Home PROVE 0 \in Seen'
    BY <2>0, <2>1, <2>2, <2>3 DEF Home, Least
  <2>4. ASSUME End PROVE lines - 1 \in Seen'
    BY <2>0, <2>1, <2>2, <2>4 DEF End, Least
  <2>5. ASSUME NEW n \in {1, content_height - 2}, ScrollDown(n)
        PROVE  Seen' = scroll_pos' .. scroll_pos' + Least(lines, Visible) - 1
    <3> DEFINE p == Least(scroll_pos + n, LastTop)
    <3>1. p \in Nat /\ p <= LastTop
      BY <2>0, <2>2 DEF Least
    <3>2. Seen' = p .. Least(lines, p + content_height - 3) - 1 /\ scroll_pos' = p
      BY <2>1, <2>5, <3>1 DEF ScrollDown
    <3>3. Least(lines, p + content_height - 3) - 1 = p + Least(lines, Visible) - 1
      BY <2>0, <2>2, <3>1 DEF Least, Visible, visible_lines
    <3>4. QED
      BY <3>2, <3>3
  <2>6. QED
    BY <2>3, <2>4, <2>5
<1>2. QED
  BY <1>1, Invariance, PTL DEF Spec, ScrollKeysShowLines
==============================================================================
