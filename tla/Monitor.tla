------------------------------- MODULE Monitor -------------------------------
(***************************************************************************)
(* main.c: start-up, the event loop, reconnection, the reset of the data   *)
(* after a long disconnect, the signal handlers, and the part of UIContext *)
(* and DataStore the loop decides about.                                   *)
(*                                                                         *)
(* One step per stretch of main() between two points where a signal        *)
(* handler, the clock or the emulator can make a difference.  The clock is *)
(* seen through ages: seconds since a time_t was taken, counted up to the  *)
(* limit it is compared with.                                              *)
(***************************************************************************)
EXTENDS Integers

CONSTANTS
  RetryInterval,  (* RECONNECT_INTERVAL_SEC                                *)
  ResetAfter,     (* DISCONNECT_RESET_SEC                                  *)
  Emus,           (* emulator types, the "emu" of a message                *)
  NoEmu,          (* the empty emu_type                                    *)
  Sizes,          (* terminal sizes                                        *)
  MaxPending,     (* bound of the model: lines waiting in the socket       *)
  MaxErrors       (* bound of the model: rejected lines counted            *)

ASSUME IntervalsArePositive ==
  /\ RetryInterval \in Nat /\ RetryInterval > 0
  /\ ResetAfter \in Nat /\ ResetAfter > 0
ASSUME NoEmuIsNone == NoEmu \notin Emus
ASSUME BoundsAreNat == MaxPending \in Nat /\ MaxErrors \in Nat

NoTimer == -1     (* g_disconnect_time == 0                                *)

VARIABLES
  pc,              (* where main() is                                      *)
  running,         (* g_ui.running                                         *)
  resize_pending,  (* g_resize_pending                                     *)
  term_size,       (* the terminal's size (external)                       *)
  ui_size,         (* the size the windows were created for                *)
  connected,       (* g_network.connected                                  *)
  peer,            (* the emulator's end: "none", "open" or "gone"         *)
  peer_emu,        (* which emulator it is                                 *)
  pending,         (* lines of it not read yet                             *)
  attempt_age,     (* age of g_last_reconnect_attempt                      *)
  loss_age,        (* age of g_disconnect_time, or NoTimer                 *)
  data_reset_done, (* g_data_reset_done                                    *)
  store,           (* whose messages the DataStore holds: this and/or      *)
                   (* earlier connections                                  *)
  parse_errors,    (* its count of rejected lines                          *)
  ui_connected,    (* g_ui.connected                                       *)
  emu_type,        (* g_ui.emu_type                                        *)
  needs_refresh,   (* g_ui.needs_refresh                                   *)
  shown,           (* what the last redraw put on the screen               *)
  outage           (* history: length of the last (or current) outage      *)

signals == <<running, resize_pending, term_size, ui_size>>
link == <<connected, peer, peer_emu, pending>>
timers == <<attempt_age, loss_age, data_reset_done, outage>>
data == <<store, parse_errors>>
screen == <<ui_connected, emu_type, needs_refresh, shown>>
vars == <<pc, signals, link, timers, data, screen>>

(* What a redraw shows of this state: the header's connection and emulator,  *)
(* the tabs' data and, on the Info tab, the number of rejected lines.        *)
View == [connected |-> ui_connected, emu |-> emu_type, store |-> store,
         errors |-> parse_errors]

(* Init is the state setup_signals() leaves: g_ui is still all zero.        *)
Init ==
  /\ pc = "boot"
  /\ running = FALSE /\ resize_pending = FALSE
  /\ term_size \in Sizes /\ ui_size = term_size
  /\ connected = FALSE /\ peer = "none" /\ peer_emu \in Emus /\ pending = 0
  /\ attempt_age = RetryInterval /\ loss_age = NoTimer
  /\ data_reset_done = FALSE /\ outage = 0
  /\ store = {} /\ parse_errors = 0
  /\ ui_connected = FALSE /\ emu_type = NoEmu /\ needs_refresh = FALSE
  /\ shown = [connected |-> FALSE, emu |-> NoEmu, store |-> {}, errors |-> 0]

(***************************************************************************)
(* The environment: clock, signals, emulator.                              *)
(***************************************************************************)
Older(age, limit) == IF age < limit THEN age + 1 ELSE age

Tick ==
  /\ pc # "exit"
  /\ attempt_age' = Older(attempt_age, RetryInterval)
  /\ loss_age' = IF loss_age = NoTimer THEN NoTimer ELSE Older(loss_age, ResetAfter)
  /\ outage' = IF connected THEN outage ELSE Older(outage, ResetAfter)
  /\ UNCHANGED <<pc, signals, link, data_reset_done, data, screen>>

(* A signal may end the select() it interrupts with EINTR.                  *)
Interrupt == pc' \in IF pc = "select" THEN {"select", "check"} ELSE {pc}

sigterm_handler ==
  /\ pc # "exit"
  /\ running' = FALSE
  /\ Interrupt
  /\ UNCHANGED <<resize_pending, term_size, ui_size, link, timers, data, screen>>

sigwinch_handler ==
  /\ pc # "exit"
  /\ term_size' \in Sizes
  /\ resize_pending' = TRUE
  /\ Interrupt
  /\ UNCHANGED <<running, ui_size, link, timers, data, screen>>

PeerLine ==
  /\ peer = "open" /\ pending < MaxPending
  /\ pending' = pending + 1
  /\ UNCHANGED <<pc, signals, connected, peer, peer_emu, timers, data, screen>>

PeerGone ==
  /\ peer = "open"
  /\ peer' = "gone"
  /\ UNCHANGED <<pc, signals, connected, peer_emu, pending, timers, data, screen>>

(***************************************************************************)
(* Parts of the UI the loop calls.                                         *)
(***************************************************************************)
Goto(from, to) == pc = from /\ pc' = to

ui_mark_dirty == needs_refresh' = TRUE /\ UNCHANGED shown

ui_set_connected(up, emu) ==
  /\ ui_connected' = up
  /\ emu_type' = emu
  /\ ui_mark_dirty

Redraw ==
  /\ shown' = View
  /\ needs_refresh' = FALSE
  /\ UNCHANGED <<ui_connected, emu_type>>

(***************************************************************************)
(* ui_init() clears the whole UIContext, sets running and draws once; main *)
(* then marks the UI disconnected and makes the first connection attempt.  *)
(***************************************************************************)
StartUi ==
  /\ Goto("boot", "first_try")
  /\ running' = TRUE
  /\ ui_size' = term_size
  /\ ui_connected' = FALSE /\ emu_type' = NoEmu
  /\ needs_refresh' = TRUE
  /\ shown' = [View EXCEPT !.connected = FALSE, !.emu = NoEmu]
  /\ UNCHANGED <<resize_pending, term_size, link, timers, data>>

(* try_connect() is called before the loop and at the top of each pass:     *)
(* where it returns to, and where it waits in connect().                    *)
After(wait) == IF wait = "first_connecting" THEN "top" ELSE "select"


TryTooSoon ==
  /\ pc \in {"try", "first_try"}
  /\ attempt_age < RetryInterval
  /\ pc' = IF pc = "try" THEN "select" ELSE "top"
  /\ UNCHANGED <<signals, link, timers, data, screen>>

TryConnect ==
  /\ pc \in {"try", "first_try"}
  /\ attempt_age >= RetryInterval
  /\ attempt_age' = 0
  /\ peer' = "none" /\ pending' = 0
  /\ ui_mark_dirty
  /\ pc' = IF pc = "try" THEN "connecting" ELSE "first_connecting"
  /\ UNCHANGED <<signals, connected, peer_emu, loss_age, data_reset_done, outage, data,
                 ui_connected, emu_type>>

Connecting == {"connecting", "first_connecting"}

(* Mutants of ConnectOk: the disconnect timer goes on running; the reset of *)
(* the last outage is not forgotten.                                        *)
ConnectWith(timer, done) ==
  /\ pc \in Connecting
  /\ connected' = TRUE
  /\ peer' = "open" /\ peer_emu' \in Emus
  /\ ui_set_connected(TRUE, NoEmu)
  /\ loss_age' = timer /\ data_reset_done' = done
  /\ store' = IF store = {} THEN {} ELSE {"earlier"}
  /\ pc' = After(pc)
  /\ UNCHANGED <<signals, pending, attempt_age, outage, parse_errors>>
ConnectKeepsTimer == ConnectWith(loss_age, FALSE)
ConnectKeepsDone == ConnectWith(NoTimer, data_reset_done)

ConnectOk ==
  /\ pc \in Connecting
  /\ connected' = TRUE
  /\ peer' = "open" /\ peer_emu' \in Emus
  /\ ui_set_connected(TRUE, NoEmu)
  /\ loss_age' = NoTimer
  /\ data_reset_done' = FALSE
  /\ store' = IF store = {} THEN {} ELSE {"earlier"}
  /\ pc' = After(pc)
  /\ UNCHANGED <<signals, pending, attempt_age, outage, parse_errors>>

ConnectFails ==
  /\ pc \in Connecting
  /\ ui_mark_dirty
  /\ pc' = After(pc)
  /\ UNCHANGED <<signals, link, timers, data, ui_connected, emu_type>>

(***************************************************************************)
(* One pass of the loop.                                                   *)
(***************************************************************************)
Quit ==
  /\ Goto("top", "exit")
  /\ ~running
  /\ connected' = FALSE /\ peer' = "none" /\ pending' = 0
  /\ UNCHANGED <<signals, peer_emu, timers, data, screen>>

(* The flag is cleared first, the size is read afterwards.                  *)
TakeResize ==
  /\ Goto("top", "resize")
  /\ running /\ resize_pending
  /\ resize_pending' = FALSE
  /\ UNCHANGED <<running, term_size, ui_size, link, timers, data, screen>>

(* Mutants of ui_resize: ncurses is not made to look at the new size; the  *)
(* context is initialised again, running included.                      *)
ResizeToOldSize ==
  /\ Goto("resize", "caps")
  /\ Redraw
  /\ UNCHANGED <<signals, link, timers, data>>
ResizeRestarts ==
  /\ Goto("resize", "caps")
  /\ ui_size' = term_size /\ running' = TRUE
  /\ Redraw
  /\ UNCHANGED <<resize_pending, term_size, link, timers, data>>

ui_resize ==
  /\ Goto("resize", "caps")
  /\ ui_size' = term_size
  /\ Redraw
  /\ UNCHANGED <<running, resize_pending, term_size, link, timers, data>>

NoResize ==
  /\ Goto("top", "caps")
  /\ running /\ ~resize_pending
  /\ UNCHANGED <<signals, link, timers, data, screen>>

(* Mutant of ui_update_caps_lock (of the test that follows it in main): the *)
(* socket, still open after a loss, is taken for a connection.              *)
CapsThenOpenSocket ==
  /\ pc = "caps"
  /\ needs_refresh' \in {needs_refresh, TRUE}
  /\ pc' = IF peer # "none" THEN "select" ELSE "try"
  /\ UNCHANGED <<signals, link, timers, data, ui_connected, emu_type, shown>>

(* The state of the caps lock key only decides whether a redraw is due.     *)
ui_update_caps_lock ==
  /\ pc = "caps"
  /\ needs_refresh' \in {needs_refresh, TRUE}
  /\ pc' = IF connected THEN "select" ELSE "try"
  /\ UNCHANGED <<signals, link, timers, data, ui_connected, emu_type, shown>>

Readable == connected /\ (pending > 0 \/ peer = "gone")

(* select() returns: a key (or none) is handled before the network.         *)
SelectReturns(key) ==
  /\ pc = "select"
  /\ running' = IF key = "q" THEN FALSE ELSE running
  /\ needs_refresh' \in IF key = "view" THEN {needs_refresh, TRUE} ELSE {needs_refresh}
  /\ pc' = IF Readable THEN "net" ELSE "check"
  /\ UNCHANGED <<resize_pending, term_size, ui_size, link, timers, data,
                 ui_connected, emu_type, shown>>

(* process_network_data(): one line, in one of the three ways it can be     *)
(* taken.  A message may come without a name of its emulator.               *)
Message(emu) ==
  /\ pc = "net" /\ pending > 0
  /\ pending' = pending - 1
  /\ store' = store \union {"this"}
  /\ IF emu_type = NoEmu /\ emu # NoEmu
     THEN ui_set_connected(TRUE, emu)
     ELSE ui_mark_dirty /\ UNCHANGED <<ui_connected, emu_type>>
  /\ UNCHANGED <<pc, signals, connected, peer, peer_emu, timers, parse_errors>>

(* Mutant of ParseError: a line is taken although none has come.            *)
ParseErrorAnyway ==
  /\ pc = "net" /\ parse_errors < MaxErrors
  /\ pending' = pending - 1
  /\ parse_errors' = parse_errors + 1
  /\ UNCHANGED <<pc, signals, connected, peer, peer_emu, timers, store, screen>>

(* The line is counted; unlike after a message, no repaint is asked for.     *)
ParseError ==
  /\ pc = "net" /\ pending > 0 /\ parse_errors < MaxErrors
  /\ pending' = pending - 1
  /\ parse_errors' = parse_errors + 1
  /\ UNCHANGED <<pc, signals, connected, peer, peer_emu, timers, store, screen>>

NoMoreData ==
  /\ Goto("net", "check")
  /\ pending = 0 /\ peer = "open"
  /\ UNCHANGED <<signals, link, timers, data, screen>>

(* Mutant of ConnectionLost: the UI is repainted but not told.              *)
LossNotShown ==
  /\ Goto("net", "check") /\ peer = "gone"
  /\ connected' = FALSE /\ pending' = 0
  /\ ui_mark_dirty /\ UNCHANGED <<ui_connected, emu_type>>
  /\ loss_age' = IF loss_age = NoTimer THEN 0 ELSE loss_age
  /\ outage' = 0
  /\ UNCHANGED <<signals, peer, peer_emu, attempt_age, data_reset_done, data>>

(* The read reports the loss; lines still unread are gone.                  *)
ConnectionLost ==
  /\ Goto("net", "check")
  /\ peer = "gone"
  /\ connected' = FALSE
  /\ pending' = 0
  /\ ui_set_connected(FALSE, NoEmu)
  /\ loss_age' = IF loss_age = NoTimer THEN 0 ELSE loss_age
  /\ outage' = 0
  /\ UNCHANGED <<signals, peer, peer_emu, attempt_age, data_reset_done, data>>

ResetDue == loss_age >= ResetAfter /\ ~data_reset_done

(* Mutant of CheckReset: no repaint after the reset.                        *)
ResetUnseen ==
  /\ Goto("check", "draw")
  /\ IF ResetDue THEN store' = {} /\ parse_errors' = 0 /\ data_reset_done' = TRUE
     ELSE UNCHANGED <<data, data_reset_done>>
  /\ UNCHANGED <<signals, link, attempt_age, loss_age, outage, screen>>

CheckReset ==
  /\ Goto("check", "draw")
  /\ IF ResetDue
     THEN store' = {} /\ parse_errors' = 0 /\ data_reset_done' = TRUE /\ ui_mark_dirty
     ELSE UNCHANGED <<data, data_reset_done, needs_refresh, shown>>
  /\ UNCHANGED <<signals, link, attempt_age, loss_age, outage, ui_connected, emu_type>>

ui_update ==
  /\ Goto("draw", "top")
  /\ IF needs_refresh THEN Redraw ELSE UNCHANGED screen
  /\ UNCHANGED <<signals, link, timers, data>>

Key == {"none", "q", "s", "view"}

Environment == Tick \/ sigterm_handler \/ sigwinch_handler \/ PeerLine \/ PeerGone
Main ==
  \/ StartUi \/ TryTooSoon \/ TryConnect \/ ConnectOk \/ ConnectFails
  \/ Quit \/ TakeResize \/ ui_resize \/ NoResize \/ ui_update_caps_lock
  \/ (\E key \in Key : SelectReturns(key))
  \/ (\E emu \in {peer_emu, NoEmu} : Message(emu)) \/ ParseError
  \/ NoMoreData \/ ConnectionLost
  \/ CheckReset \/ ui_update
Next == Environment \/ Main

SafeSpec == Init /\ [][Next]_vars

(* main() keeps running (select() returns within 50 ms and the kernel ends *)
(* every connect()), and time passes.                                      *)
Spec == SafeSpec /\ WF_vars(Main) /\ WF_vars(Tick)

(***************************************************************************)
(* Properties                                                              *)
(***************************************************************************)
FlagType ==
  /\ running \in BOOLEAN /\ resize_pending \in BOOLEAN
  /\ connected \in BOOLEAN /\ data_reset_done \in BOOLEAN
  /\ ui_connected \in BOOLEAN /\ needs_refresh \in BOOLEAN
StateType ==
  /\ pc \in {"boot", "first_try", "first_connecting", "top", "resize", "caps", "try",
             "connecting", "select", "net", "check", "draw", "exit"}
  /\ term_size \in Sizes /\ ui_size \in Sizes
  /\ peer \in {"none", "open", "gone"} /\ peer_emu \in Emus
  /\ store \subseteq {"this", "earlier"}
  /\ emu_type \in Emus \union {NoEmu}
CountType ==
  /\ pending \in 0..MaxPending /\ parse_errors \in 0..MaxErrors
  /\ attempt_age \in 0..RetryInterval
  /\ loss_age \in NoTimer..ResetAfter
  /\ outage \in 0..ResetAfter
ShownType ==
  shown \in [connected : BOOLEAN, emu : Emus \union {NoEmu},
             store : SUBSET {"this", "earlier"}, errors : 0..MaxErrors]

TypeOK == FlagType /\ StateType /\ CountType /\ ShownType

(* Data is thrown away only while disconnected, and only after a whole      *)
(* DISCONNECT_RESET_SEC of it: never the data of a live connection.         *)
OnlyLongOutagesReset ==
  [][store # {} /\ store' = {} => ~connected /\ outage >= ResetAfter]_vars

(* Whatever happens in a pass, the screen's idea of the connection and of   *)
(* the emulator is that of the network layer once the reading is over.      *)
UiAgrees ==
  /\ pc # "exit" => ui_connected = connected
  /\ pc # "exit" /\ emu_type # NoEmu => connected /\ emu_type = peer_emu

(* When no redraw is due, the connection, the emulator and the data on the  *)
(* screen are those a redraw would show.  The number of rejected lines on   *)
(* the Info tab (ui_tabs.c:259) is the exception: main.c:252 counts them    *)
(* without ui_mark_dirty(), so it may be too low, but it is never one that  *)
(* a reset has taken back.                                                 *)
ScreenCurrent ==
  pc # "boot" /\ ~needs_refresh =>
    /\ shown = [View EXCEPT !.errors = shown.errors]
    /\ shown.errors <= parse_errors

(* A resize that comes while an earlier one is handled is not lost.         *)
ResizeNotLost ==
  pc \notin {"boot", "resize"} /\ ui_size # term_size => resize_pending

(* Data of a connection that stays lost is eventually thrown away.          *)
StaleDataReset == ~connected /\ store # {} ~> connected \/ store = {} \/ pc = "exit"

(* A disconnected monitor keeps attempting to connect.                      *)
KeepsTrying == ~connected /\ pc = "top" ~> pc \in Connecting \/ connected \/ pc = "exit"

(* Unless the emulator keeps process_network_data() reading for ever, a     *)
(* request to stop the event loop (q, SIGINT, SIGTERM) is obeyed.           *)
StopObeyed ==
  []<>(pc # "net") => ((pc # "boot" /\ ~running) ~> pc = "exit")

(* main.c: data is reset after 10 seconds of disconnect.  After an outage   *)
(* that long nothing of an earlier connection may be left.                  *)
LongOutageResets == connected /\ outage >= ResetAfter => "earlier" \notin store
==============================================================================
