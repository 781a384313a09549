---------------------------- MODULE MonitorProofs ----------------------------
(***************************************************************************)
(* The safety properties of the event loop for every retry interval, reset *)
(* time, set of emulators and number of lines in flight.                   *)
(***************************************************************************)
EXTENDS Monitor, TLAPS

(* Where main() is decides whether there is a connection.                   *)
Control ==
  /\ pc = "net" => connected
  /\ pc \in {"boot", "try", "first_try"} \union Connecting => ~connected

(* The disconnect timer runs only while disconnected, and never ahead of    *)
(* the outage it measures.                                                 *)
Timer ==
  /\ connected => loss_age = NoTimer
  /\ loss_age <= outage

(* A redraw brings the screen up to date, rejected lines included.          *)
LEMMA ViewTyped ==
  ASSUME FlagType, StateType, CountType
  PROVE  View \in [connected : BOOLEAN, emu : Emus \union {NoEmu},
                   store : SUBSET {"this", "earlier"}, errors : 0..MaxErrors]
  BY DEF View, FlagType, StateType, CountType

LEMMA RedrawnIsCurrent ==
  ASSUME shown' = View', CountType' PROVE ScreenCurrent'
<1>1. shown'.errors = parse_errors' /\ parse_errors' \in Nat
  BY BoundsAreNat DEF View, CountType
<1>2. shown' = [shown' EXCEPT !.errors = shown'.errors]
  BY DEF View
<1>3. QED
  BY <1>1, <1>2 DEF ScreenCurrent

IInv == TypeOK /\ Control /\ Timer /\ UiAgrees /\ ScreenCurrent /\ ResizeNotLost

LEMMA InitIInv == Init => IInv
<1> SUFFICES ASSUME Init PROVE IInv
  OBVIOUS
<1> USE DEF Init, Connecting, NoTimer
<1>1. FlagType /\ StateType
  BY DEF FlagType, StateType
<1>a. CountType
  BY IntervalsArePositive, BoundsAreNat DEF CountType
<1>b. ShownType
  <2>1. 0 \in 0..MaxErrors
    BY BoundsAreNat
  <2>2. QED
    BY <2>1 DEF ShownType
<1>2. Control /\ Timer
  BY DEF Control, Timer
<1>3. UiAgrees /\ ScreenCurrent /\ ResizeNotLost
  BY DEF UiAgrees, ScreenCurrent, ResizeNotLost
<1>4. QED
  BY <1>1, <1>a, <1>b, <1>2, <1>3 DEF IInv, TypeOK

(* What the environment does between two steps of main().                   *)
LEMMA EnvironmentKeepsIInv ==
  ASSUME IInv, Environment PROVE IInv'
<1> USE DEF IInv, TypeOK, Connecting, NoTimer, signals, link, timers, data, screen
<1>1. CASE Tick
  <2> USE <1>1, IntervalsArePositive DEF Tick, Older
  <2>1. FlagType' /\ Control'
    BY DEF FlagType, Control
  <2>2. StateType'
    BY DEF StateType
  <2>3. CountType' /\ Timer'
    BY DEF CountType, Control, Timer
  <2>4. ShownType' /\ UiAgrees'
    BY DEF ShownType, View, UiAgrees, Control, FlagType, StateType
  <2>5. ScreenCurrent' /\ ResizeNotLost'
    BY DEF ScreenCurrent, View, ResizeNotLost
  <2>6. QED
    BY <2>1, <2>2, <2>3, <2>4, <2>5
<1>2. CASE sigterm_handler
  <2> USE <1>2 DEF sigterm_handler, Interrupt
  <2>1. FlagType' /\ Control'
    BY DEF FlagType, Control
  <2>2. StateType'
    BY DEF StateType
  <2>3. CountType' /\ Timer'
    BY DEF CountType, Control, Timer
  <2>4. ShownType' /\ UiAgrees'
    BY DEF ShownType, View, UiAgrees, Control, FlagType, StateType
  <2>5. ScreenCurrent' /\ ResizeNotLost'
    BY DEF ScreenCurrent, View, ResizeNotLost
  <2>6. QED
    BY <2>1, <2>2, <2>3, <2>4, <2>5
<1>3. CASE sigwinch_handler
  <2> USE <1>3 DEF sigwinch_handler, Interrupt
  <2>1. FlagType' /\ Control'
    BY DEF FlagType, Control
  <2>2. StateType'
    BY DEF StateType
  <2>3. CountType' /\ Timer'
    BY DEF CountType, Control, Timer
  <2>4. ShownType' /\ UiAgrees'
    BY DEF ShownType, View, UiAgrees, Control, FlagType, StateType
  <2>5. ScreenCurrent' /\ ResizeNotLost'
    BY DEF ScreenCurrent, View, ResizeNotLost
  <2>6. QED
    BY <2>1, <2>2, <2>3, <2>4, <2>5
<1>4. CASE PeerLine
  <2> USE <1>4, BoundsAreNat DEF PeerLine
  <2>1. FlagType' /\ Control'
    BY DEF FlagType, Control
  <2>2. StateType'
    BY DEF StateType
  <2>3. CountType' /\ Timer'
    BY DEF CountType, Control, Timer
  <2>4. ShownType' /\ UiAgrees'
    BY DEF ShownType, View, UiAgrees, Control, FlagType, StateType
  <2>5. ScreenCurrent' /\ ResizeNotLost'
    BY DEF ScreenCurrent, View, ResizeNotLost
  <2>6. QED
    BY <2>1, <2>2, <2>3, <2>4, <2>5
<1>5. CASE PeerGone
  <2> USE <1>5 DEF PeerGone
  <2>1. FlagType' /\ Control'
    BY DEF FlagType, Control
  <2>2. StateType'
    BY DEF StateType
  <2>3. CountType' /\ Timer'
    BY DEF CountType, Control, Timer
  <2>4. ShownType' /\ UiAgrees'
    BY DEF ShownType, View, UiAgrees, Control, FlagType, StateType
  <2>5. ScreenCurrent' /\ ResizeNotLost'
    BY DEF ScreenCurrent, View, ResizeNotLost
  <2>6. QED
    BY <2>1, <2>2, <2>3, <2>4, <2>5
<1>6. QED
  BY <1>1, <1>2, <1>3, <1>4, <1>5 DEF Environment

(* The steps of main(): a conjunct at a time, for every action.             *)
LEMMA MainKeepsIInv ==
  ASSUME IInv, Main PROVE IInv'
<1> USE DEF IInv, TypeOK, Connecting, NoTimer, signals, link, timers, data, screen
<1>1. CASE StartUi
  <2> USE <1>1 DEF StartUi, Goto
  <2>1. FlagType' /\ Control'
    BY DEF FlagType, Control
  <2>2. StateType'
    BY DEF StateType
  <2>3. CountType' /\ Timer'
    BY DEF CountType, Control, Timer
  <2>4. ShownType' /\ UiAgrees'
    <3>1. View.store \in SUBSET {"this", "earlier"} /\ View.errors \in 0..MaxErrors
      BY DEF View, StateType, CountType
    <3>2. shown' = [connected |-> FALSE, emu |-> NoEmu, store |-> View.store,
                    errors |-> View.errors]
      BY DEF View
    <3>3. ShownType'
      BY <3>1, <3>2 DEF ShownType
    <3>4. QED
      BY <3>3 DEF UiAgrees, Control, FlagType, StateType
  <2>5. ScreenCurrent' /\ ResizeNotLost'
    BY DEF ScreenCurrent, View, ResizeNotLost
  <2>6. QED
    BY <2>1, <2>2, <2>3, <2>4, <2>5
<1>2. CASE TryTooSoon
  <2> USE <1>2 DEF TryTooSoon
  <2>1. FlagType' /\ Control'
    BY DEF FlagType, Control
  <2>2. StateType'
    BY DEF StateType
  <2>3. CountType' /\ Timer'
    BY DEF CountType, Control, Timer
  <2>4. ShownType' /\ UiAgrees'
    BY DEF ShownType, View, UiAgrees, Control, FlagType, StateType
  <2>5. ScreenCurrent' /\ ResizeNotLost'
    BY DEF ScreenCurrent, View, ResizeNotLost
  <2>6. QED
    BY <2>1, <2>2, <2>3, <2>4, <2>5
<1>3. CASE TryConnect
  <2> USE <1>3, IntervalsArePositive, BoundsAreNat DEF TryConnect, ui_mark_dirty
  <2>1. FlagType' /\ Control'
    BY DEF FlagType, Control
  <2>2. StateType'
    BY DEF StateType
  <2>3. CountType' /\ Timer'
    BY DEF CountType, Control, Timer
  <2>4. ShownType' /\ UiAgrees'
    BY DEF ShownType, View, UiAgrees, Control, FlagType, StateType
  <2>5. ScreenCurrent' /\ ResizeNotLost'
    BY DEF ScreenCurrent, View, ResizeNotLost
  <2>6. QED
    BY <2>1, <2>2, <2>3, <2>4, <2>5
<1>4. CASE ConnectOk
  <2> USE <1>4, IntervalsArePositive DEF ConnectOk, ui_set_connected, ui_mark_dirty, After
  <2>1. FlagType' /\ Control'
    BY DEF FlagType, Control
  <2>2. StateType'
    BY DEF StateType
  <2>3. CountType' /\ Timer'
    BY DEF CountType, Control, Timer
  <2>4. ShownType' /\ UiAgrees'
    BY DEF ShownType, View, UiAgrees, Control, FlagType, StateType
  <2>5. ScreenCurrent' /\ ResizeNotLost'
    BY DEF ScreenCurrent, View, ResizeNotLost
  <2>6. QED
    BY <2>1, <2>2, <2>3, <2>4, <2>5
<1>5. CASE ConnectFails
  <2> USE <1>5 DEF ConnectFails, ui_mark_dirty, After
  <2>1. FlagType' /\ Control'
    BY DEF FlagType, Control
  <2>2. StateType'
    BY DEF StateType
  <2>3. CountType' /\ Timer'
    BY DEF CountType, Control, Timer
  <2>4. ShownType' /\ UiAgrees'
    BY DEF ShownType, View, UiAgrees, Control, FlagType, StateType
  <2>5. ScreenCurrent' /\ ResizeNotLost'
    BY DEF ScreenCurrent, View, ResizeNotLost
  <2>6. QED
    BY <2>1, <2>2, <2>3, <2>4, <2>5
<1>6. CASE Quit
  <2> USE <1>6, BoundsAreNat DEF Quit, Goto
  <2>1. FlagType' /\ Control'
    BY DEF FlagType, Control
  <2>2. StateType'
    BY DEF StateType
  <2>3. CountType' /\ Timer'
    BY DEF CountType, Control, Timer
  <2>4. ShownType' /\ UiAgrees'
    BY DEF ShownType, View, UiAgrees, Control, FlagType, StateType
  <2>5. ScreenCurrent' /\ ResizeNotLost'
    BY DEF ScreenCurrent, View, ResizeNotLost
  <2>6. QED
    BY <2>1, <2>2, <2>3, <2>4, <2>5
<1>7. CASE TakeResize
  <2> USE <1>7 DEF TakeResize, Goto
  <2>1. FlagType' /\ Control'
    BY DEF FlagType, Control
  <2>2. StateType'
    BY DEF StateType
  <2>3. CountType' /\ Timer'
    BY DEF CountType, Control, Timer
  <2>4. ShownType' /\ UiAgrees'
    BY DEF ShownType, View, UiAgrees, Control, FlagType, StateType
  <2>5. ScreenCurrent' /\ ResizeNotLost'
    BY DEF ScreenCurrent, View, ResizeNotLost
  <2>6. QED
    BY <2>1, <2>2, <2>3, <2>4, <2>5
<1>8. CASE NoResize
  <2> USE <1>8 DEF NoResize, Goto
  <2>1. FlagType' /\ Control'
    BY DEF FlagType, Control
  <2>2. StateType'
    BY DEF StateType
  <2>3. CountType' /\ Timer'
    BY DEF CountType, Control, Timer
  <2>4. ShownType' /\ UiAgrees'
    BY DEF ShownType, View, UiAgrees, Control, FlagType, StateType
  <2>5. ScreenCurrent' /\ ResizeNotLost'
    BY DEF ScreenCurrent, View, ResizeNotLost
  <2>6. QED
    BY <2>1, <2>2, <2>3, <2>4, <2>5
<1>9. CASE ui_resize
  <2> USE <1>9 DEF ui_resize, Goto, Redraw
  <2>1. FlagType' /\ Control'
    BY DEF FlagType, Control
  <2>2. StateType'
    BY DEF StateType
  <2>3. CountType' /\ Timer'
    BY DEF CountType, Control, Timer
  <2>4. ShownType' /\ UiAgrees'
    BY ViewTyped DEF ShownType, UiAgrees, Control
  <2>5. ScreenCurrent' /\ ResizeNotLost'
    <3>1. shown' = View'
      BY DEF View
    <3>2. QED
      BY <2>3, <3>1, RedrawnIsCurrent DEF ResizeNotLost
  <2>6. QED
    BY <2>1, <2>2, <2>3, <2>4, <2>5
<1>10. CASE ui_update_caps_lock
  <2> USE <1>10 DEF ui_update_caps_lock
  <2>1. FlagType' /\ Control'
    BY DEF FlagType, Control
  <2>2. StateType'
    BY DEF StateType
  <2>3. CountType' /\ Timer'
    BY DEF CountType, Control, Timer
  <2>4. ShownType' /\ UiAgrees'
    BY DEF ShownType, View, UiAgrees, Control, FlagType, StateType
  <2>5. ScreenCurrent' /\ ResizeNotLost'
    BY DEF ScreenCurrent, View, ResizeNotLost
  <2>6. QED
    BY <2>1, <2>2, <2>3, <2>4, <2>5
<1>11. ASSUME NEW key \in Key, SelectReturns(key) PROVE IInv'
  <2> USE <1>11 DEF SelectReturns, Readable
  <2>1. FlagType' /\ Control'
    BY DEF FlagType, Control
  <2>2. StateType'
    BY DEF StateType
  <2>3. CountType' /\ Timer'
    BY DEF CountType, Control, Timer
  <2>4. ShownType' /\ UiAgrees'
    BY DEF ShownType, View, UiAgrees, Control, FlagType, StateType
  <2>5. ScreenCurrent' /\ ResizeNotLost'
    BY DEF ScreenCurrent, View, ResizeNotLost
  <2>6. QED
    BY <2>1, <2>2, <2>3, <2>4, <2>5
<1>12. ASSUME NEW emu \in {peer_emu, NoEmu}, Message(emu) PROVE IInv'
  <2> USE <1>12, BoundsAreNat DEF Message, ui_set_connected, ui_mark_dirty
  <2>1. FlagType' /\ Control'
    BY DEF FlagType, Control
  <2>2. StateType'
    BY DEF StateType
  <2>3. CountType' /\ Timer'
    BY DEF CountType, Control, Timer
  <2>4. ShownType' /\ UiAgrees'
    BY DEF ShownType, View, UiAgrees, Control, FlagType, StateType
  <2>5. ScreenCurrent' /\ ResizeNotLost'
    BY DEF ScreenCurrent, View, ResizeNotLost
  <2>6. QED
    BY <2>1, <2>2, <2>3, <2>4, <2>5
<1>13. CASE ParseError
  <2> USE <1>13, BoundsAreNat DEF ParseError
  <2>1. FlagType' /\ Control'
    BY DEF FlagType, Control
  <2>2. StateType'
    BY DEF StateType
  <2>3. CountType' /\ Timer'
    BY DEF CountType, Control, Timer
  <2>4. ShownType' /\ UiAgrees'
    BY DEF ShownType, View, UiAgrees, Control, FlagType, StateType
  <2>5. ScreenCurrent' /\ ResizeNotLost'
    <3>1. shown.errors \in Nat /\ parse_errors \in Nat
      BY DEF ShownType, CountType
    <3>2. ScreenCurrent'
      BY <3>1 DEF ScreenCurrent, View
    <3>3. QED
      BY <3>2 DEF ResizeNotLost
  <2>6. QED
    BY <2>1, <2>2, <2>3, <2>4, <2>5
<1>14. CASE NoMoreData
  <2> USE <1>14 DEF NoMoreData, Goto
  <2>1. FlagType' /\ Control'
    BY DEF FlagType, Control
  <2>2. StateType'
    BY DEF StateType
  <2>3. CountType' /\ Timer'
    BY DEF CountType, Control, Timer
  <2>4. ShownType' /\ UiAgrees'
    BY DEF ShownType, View, UiAgrees, Control, FlagType, StateType
  <2>5. ScreenCurrent' /\ ResizeNotLost'
    BY DEF ScreenCurrent, View, ResizeNotLost
  <2>6. QED
    BY <2>1, <2>2, <2>3, <2>4, <2>5
<1>15. CASE ConnectionLost
  <2> USE <1>15, IntervalsArePositive, BoundsAreNat DEF ConnectionLost, Goto, ui_set_connected, ui_mark_dirty
  <2>1. FlagType' /\ Control'
    BY DEF FlagType, Control
  <2>2. StateType'
    BY DEF StateType
  <2>3. CountType' /\ Timer'
    BY DEF CountType, Control, Timer
  <2>4. ShownType' /\ UiAgrees'
    BY DEF ShownType, View, UiAgrees, Control, FlagType, StateType
  <2>5. ScreenCurrent' /\ ResizeNotLost'
    BY DEF ScreenCurrent, View, ResizeNotLost
  <2>6. QED
    BY <2>1, <2>2, <2>3, <2>4, <2>5
<1>16. CASE CheckReset
  <2> USE <1>16, BoundsAreNat DEF CheckReset, Goto, ui_mark_dirty
  <2>1. FlagType' /\ Control'
    BY DEF FlagType, Control
  <2>2. StateType'
    BY DEF StateType
  <2>3. CountType' /\ Timer'
    BY DEF CountType, Control, Timer
  <2>4. ShownType' /\ UiAgrees'
    BY DEF ShownType, View, UiAgrees, Control, FlagType, StateType
  <2>5. ScreenCurrent' /\ ResizeNotLost'
    BY DEF ScreenCurrent, View, ResizeNotLost
  <2>6. QED
    BY <2>1, <2>2, <2>3, <2>4, <2>5
<1>17. CASE ui_update
  <2> USE <1>17 DEF ui_update, Goto, Redraw
  <2>1. FlagType' /\ Control'
    BY DEF FlagType, Control
  <2>2. StateType'
    BY DEF StateType
  <2>3. CountType' /\ Timer'
    BY DEF CountType, Control, Timer
  <2>4. ShownType' /\ UiAgrees'
    <3>1. ShownType'
      <4>1. CASE needs_refresh
        <5>1. shown' = View
          BY <4>1
        <5>2. QED
          BY <5>1, ViewTyped DEF ShownType
      <4>2. CASE ~needs_refresh
        BY <4>2 DEF ShownType
      <4>3. QED
        BY <4>1, <4>2
    <3>2. UiAgrees'
      BY DEF UiAgrees
    <3>3. QED
      BY <3>1, <3>2
  <2>5. ScreenCurrent' /\ ResizeNotLost'
    <3>1. CASE needs_refresh
      <4>1. shown' = View'
        BY <3>1 DEF View
      <4>2. QED
        BY <2>3, <4>1, RedrawnIsCurrent DEF ResizeNotLost
    <3>2. CASE ~needs_refresh
      BY <3>2 DEF ScreenCurrent, View, ResizeNotLost
    <3>3. QED
      BY <3>1, <3>2
  <2>6. QED
    BY <2>1, <2>2, <2>3, <2>4, <2>5
<1>18. QED
  BY <1>1, <1>2, <1>3, <1>4, <1>5, <1>6, <1>7, <1>8, <1>9, <1>10, <1>11, <1>12, <1>13, <1>14, <1>15, <1>16, <1>17 DEF Main

LEMMA StutterKeepsIInv ==
  ASSUME IInv, UNCHANGED vars PROVE IInv'
<1> USE DEF IInv, TypeOK, vars, signals, link, timers, data, screen
<1>1. FlagType' /\ StateType' /\ CountType' /\ ShownType'
  BY DEF FlagType, StateType, CountType, ShownType
<1>2. Control' /\ Timer'
  BY DEF Control, Timer
<1>3. UiAgrees' /\ ScreenCurrent' /\ ResizeNotLost'
  BY DEF UiAgrees, ScreenCurrent, View, ResizeNotLost
<1>4. QED
  BY <1>1, <1>2, <1>3

(* The inductive invariant of the event loop.                               *)
THEOREM Invariance == Spec => []IInv
<1>1. IInv /\ [Next]_vars => IInv'
  BY EnvironmentKeepsIInv, MainKeepsIInv, StutterKeepsIInv DEF Next
<1>2. QED
  BY <1>1, InitIInv, PTL DEF Spec, SafeSpec

(* Every variable of the loop keeps its type.                               *)
THEOREM TypeCorrect == Spec => []TypeOK
<1>1. IInv => TypeOK
  BY DEF IInv
<1>2. QED
  BY <1>1, Invariance, PTL

(* The screen's connection and emulator are those of the network layer.     *)
THEOREM UiAlwaysAgrees == Spec => []UiAgrees
<1>1. IInv => UiAgrees
  BY DEF IInv
<1>2. QED
  BY <1>1, Invariance, PTL

(* No change of the connection, the emulator or the data goes without a     *)
(* redraw; the one thing that does, the count of rejected lines, is never   *)
(* shown too high.                                                         *)
THEOREM ScreenAlwaysCurrent == Spec => []ScreenCurrent
<1>1. IInv => ScreenCurrent
  BY DEF IInv
<1>2. QED
  BY <1>1, Invariance, PTL

(* No change of the terminal's size goes unnoticed, whenever it comes.      *)
THEOREM ResizeNeverLost == Spec => []ResizeNotLost
<1>1. IInv => ResizeNotLost
  BY DEF IInv
<1>2. QED
  BY <1>1, Invariance, PTL

(* Data is discarded only in an outage that has lasted ResetAfter, for any  *)
(* order of losses, attempts, blocking connects, lines and clock ticks.     *)
THEOREM ResetOnlyInLongOutages == Spec => OnlyLongOutagesReset
<1>1. IInv /\ [Next]_vars
        => [store # {} /\ store' = {} => ~connected /\ outage >= ResetAfter]_vars
  <2> SUFFICES ASSUME IInv, Next, store # {}, store' = {}
               PROVE  ~connected /\ outage >= ResetAfter
    OBVIOUS
  <2>1. ~Environment
    BY DEF data, Environment, Tick, sigterm_handler, sigwinch_handler, PeerLine, PeerGone
  <2>2. CheckReset
    <3>1. ~ConnectOk
      BY DEF ConnectOk
    <3>2. \A emu \in {peer_emu, NoEmu} : ~Message(emu)
      BY DEF Message
    <3>3. QED
      BY <2>1, <3>1, <3>2
         DEF data, Next, Main, StartUi, TryTooSoon, TryConnect, ConnectFails, Quit, TakeResize,
             ui_resize, NoResize, ui_update_caps_lock, SelectReturns, ParseError,
             NoMoreData, ConnectionLost, ui_update
  <2>3. loss_age >= ResetAfter
    BY <2>2 DEF CheckReset, ResetDue, data
  <2>4. QED
    BY <2>3, IntervalsArePositive DEF IInv, TypeOK, CountType, Timer, NoTimer
<1>2. QED
  BY <1>1, Invariance, PTL DEF Spec, SafeSpec, OnlyLongOutagesReset
==============================================================================
