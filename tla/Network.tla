------------------------------- MODULE Network -------------------------------
(***************************************************************************)
(* network.c and its only reader, process_network_data() of main.c: one    *)
(* TCP connection to the emulator, a receive buffer of NETWORK_RECV_       *)
(* BUFFER_SIZE bytes, and the loop that drains it line by line.            *)
(*                                                                         *)
(* wire is the kernel's receive queue of our socket; peer is what the      *)
(* emulator did with its end.  Both are the environment (external).        *)
(* stream, ends and delivered are history variables of one connection:     *)
(* every byte the emulator wrote, the positions of its LFs, and the lines  *)
(* network_read_line() returned with NETWORK_OK.                           *)
(***************************************************************************)
EXTENDS Lines

CONSTANTS
  RecvSize,     (* NETWORK_RECV_BUFFER_SIZE; one byte is kept for the NUL   *)
  PeerMaxLine,  (* longest line the emulator writes, its LF included        *)
  MaxBytes      (* bound of the model: bytes written in one connection      *)

Capacity == RecvSize - 1

ASSUME RecvSizeIsSize == RecvSize \in Nat /\ RecvSize > 1
(* No line outgrows the buffer: JSON lines of the emulators are far shorter *)
(* than 8191 bytes.  NeverWedged fails without it.                          *)
ASSUME PeerLinesFit == PeerMaxLine \in Nat /\ PeerMaxLine > 0 /\ PeerMaxLine <= Capacity
ASSUME MaxBytesIsNat == MaxBytes \in Nat

VARIABLES
  sockfd,       (* ctx->sockfd >= 0                                        *)
  connected,    (* ctx->connected                                          *)
  recv_buffer,  (* the first ctx->buffer_len bytes of ctx->recv_buffer     *)
  pc,           (* "select": in main's loop; "drain": in the while of      *)
                (* process_network_data()                                  *)
  peer,         (* "none", "open", "closed" (FIN) or "reset" (RST)         *)
  wire, stream, ends, delivered

local == <<sockfd, connected, recv_buffer, pc>>
history == <<stream, ends, delivered>>
vars == <<sockfd, connected, recv_buffer, pc, peer, wire, stream, ends, delivered>>

Init ==
  /\ sockfd = FALSE
  /\ connected = FALSE
  /\ recv_buffer = <<>>
  /\ pc = "select"
  /\ peer = "none"
  /\ wire = <<>>
  /\ stream = <<>>
  /\ ends = <<>>
  /\ delivered = <<>>

(***************************************************************************)
(* The emulator's end of the connection.                                   *)
(***************************************************************************)
(* How many bytes the first k lines of the stream take.                     *)
EndOf(k) == IF k = 0 THEN 0 ELSE ends[k]

PeerSend(b) ==
  /\ peer = "open"
  /\ Len(stream) < MaxBytes
  /\ b # LF => Len(stream) + 1 - EndOf(Len(ends)) < PeerMaxLine
  /\ wire' = Append(wire, b)
  /\ stream' = Append(stream, b)
  /\ ends' = IF b = LF THEN Append(ends, Len(stream) + 1) ELSE ends
  /\ UNCHANGED <<local, peer, delivered>>

PeerClose ==
  /\ peer = "open"
  /\ peer' = "closed"
  /\ UNCHANGED <<local, wire, history>>

(* An RST may destroy what was queued.                                      *)
PeerReset ==
  /\ peer = "open"
  /\ peer' = "reset"
  /\ wire' \in {wire, <<>>}
  /\ UNCHANGED <<local, history>>

(***************************************************************************)
(* network_connect(), called by try_connect() when not connected.  A       *)
(* socket that survived the loss of the connection is closed first.        *)
(***************************************************************************)
NewConnection ==
  /\ wire' = <<>>
  /\ stream' = <<>>
  /\ ends' = <<>>
  /\ delivered' = <<>>

(* Mutant of ConnectOk: the partial line of the old connection is kept.     *)
ConnectKeepsBuffer ==
  /\ pc = "select" /\ ~connected
  /\ sockfd' = TRUE /\ connected' = TRUE
  /\ peer' = "open"
  /\ NewConnection
  /\ UNCHANGED <<recv_buffer, pc>>

ConnectOk ==
  /\ pc = "select"
  /\ ~connected
  /\ sockfd' = TRUE
  /\ connected' = TRUE
  /\ recv_buffer' = <<>>
  /\ peer' = "open"
  /\ NewConnection
  /\ UNCHANGED pc

ConnectFails ==
  /\ pc = "select"
  /\ ~connected
  /\ sockfd' = FALSE
  /\ recv_buffer' = IF sockfd THEN <<>> ELSE recv_buffer
  /\ peer' = "none"
  /\ NewConnection
  /\ UNCHANGED <<connected, pc>>

(***************************************************************************)
(* main's select() reports the socket readable and main enters             *)
(* process_network_data(); the socket is watched only while connected.     *)
(***************************************************************************)
SelectReadable ==
  /\ pc = "select"
  /\ sockfd /\ connected
  /\ wire # <<>> \/ peer \in {"closed", "reset"}
  /\ pc' = "drain"
  /\ UNCHANGED <<sockfd, connected, recv_buffer, peer, wire, history>>

(***************************************************************************)
(* network_read_line().  recv() is called only if the buffer has room: it  *)
(* takes n bytes, none with EAGAIN, and reports the end of the stream only *)
(* once the queue is empty.                                                *)
(***************************************************************************)
(* Mutant of Room: what the buffer already holds is forgotten.              *)
WholeBuffer == Capacity

Room == Capacity - Len(recv_buffer)

RecvCounts ==
  IF Room <= 0 \/ (wire = <<>> /\ peer = "open") THEN {0}
  ELSE {n \in 1..Len(wire) : n <= Room}

Received(n) == recv_buffer \o SubSeq(wire, 1, n)

(* Mutant of ReadLost: recv() = 0 is taken for "no data".                   *)
EofIsNoData ==
  /\ pc = "drain" /\ Room > 0
  /\ wire = <<>> /\ peer \in {"closed", "reset"}
  /\ pc' = "select"
  /\ UNCHANGED <<sockfd, connected, recv_buffer, peer, wire, history>>

(* recv() fails with 0 (FIN) or an error (RST).  What the buffer holds is   *)
(* not looked at: complete lines in it are never returned.                 *)
ReadLost ==
  /\ pc = "drain"
  /\ Room > 0
  /\ wire = <<>>
  /\ peer \in {"closed", "reset"}
  /\ connected' = FALSE
  /\ pc' = "select"
  /\ UNCHANGED <<sockfd, recv_buffer, peer, wire, history>>

Take(n) == wire' = SubSeq(wire, n + 1, Len(wire))

(* Mutants of ReadOk: the LF stays in the buffer and ends one line more;    *)
(* the caller reads one line per select() instead of draining.              *)
TakeLine(n, kept) ==
  LET got == Received(n)
  IN  /\ Take(n) /\ HasLF(got)
      /\ delivered' = Append(delivered, Cut(SubSeq(got, 1, FirstLF(got) - 1)))
      /\ recv_buffer' = SubSeq(got, FirstLF(got) + kept, Len(got))
ReadKeepsLF ==
  /\ pc = "drain" /\ \E n \in RecvCounts : TakeLine(n, 0)
  /\ UNCHANGED <<sockfd, connected, pc, peer, stream, ends>>
ReadOneLine ==
  /\ pc = "drain" /\ \E n \in RecvCounts : TakeLine(n, 1)
  /\ pc' = "select"
  /\ UNCHANGED <<sockfd, connected, peer, stream, ends>>

(* NETWORK_OK: the loop body uses the line and calls again.                 *)
ReadOk ==
  /\ pc = "drain"
  /\ \E n \in RecvCounts :
       /\ Take(n)
       /\ HasLF(Received(n))
       /\ LET got == Received(n)
              newline == FirstLF(got)
          IN /\ delivered' = Append(delivered, Cut(SubSeq(got, 1, newline - 1)))
             /\ recv_buffer' = SubSeq(got, newline + 1, Len(got))
  /\ UNCHANGED <<sockfd, connected, pc, peer, stream, ends>>

(* NETWORK_NO_DATA: the loop ends, the partial line stays in the buffer.    *)
ReadNoData ==
  /\ pc = "drain"
  /\ \E n \in RecvCounts :
       /\ Take(n)
       /\ ~HasLF(Received(n))
       /\ recv_buffer' = Received(n)
  /\ pc' = "select"
  /\ UNCHANGED <<sockfd, connected, peer, history>>

Peer == (\E b \in Byte : PeerSend(b)) \/ PeerClose \/ PeerReset
Reader == SelectReadable \/ ReadLost \/ ReadOk \/ ReadNoData
Next == Peer \/ ConnectOk \/ ConnectFails \/ Reader

SafeSpec == Init /\ [][Next]_vars

(* main's loop never stops selecting and draining; the peer owes nothing,  *)
(* and neither does a connection attempt.                                  *)
Spec == SafeSpec /\ WF_vars(Reader)

(***************************************************************************)
(* Properties                                                              *)
(***************************************************************************)
TypeOK ==
  /\ sockfd \in BOOLEAN
  /\ connected \in BOOLEAN
  /\ recv_buffer \in Seq(Byte) /\ Len(recv_buffer) <= Capacity
  /\ pc \in {"select", "drain"}
  /\ peer \in {"none", "open", "closed", "reset"}
  /\ wire \in Seq(Byte)
  /\ stream \in Seq(Byte) /\ Len(stream) <= MaxBytes
  /\ ends \in Seq(1..Len(stream))
  /\ delivered \in Seq(Seq(Byte))

(* network_read_line() skips recv() when the buffer is full, so a full      *)
(* buffer without a LF would end every call with NO_DATA for ever: no more  *)
(* data, and not even the loss of the connection would be noticed.          *)
NeverWedged == connected /\ Len(recv_buffer) = Capacity => HasLF(recv_buffer)

(* main waits in select() on the socket alone, so no complete line may be  *)
(* parked in recv_buffer while it waits: nothing would wake the loop for it.*)
NothingParked == pc = "select" /\ connected => ~HasLF(recv_buffer)

(* When the emulator's end is gone, the monitor notices.                   *)
LossNoticed == peer \in {"closed", "reset"} ~> ~connected

(* The lines the emulator completed on this connection.                     *)
Written ==
  [k \in 1..Len(ends) |-> SubSeq(stream, EndOf(k - 1) + 1, EndOf(k) - 1)]

Line == UNION {[1..n -> Byte \ {LF}] : n \in 0..(PeerMaxLine - 1)}

(* The receive path implements the promise of LineStream.                  *)
LS == INSTANCE LineStream WITH written <- Written, up <- connected

ImplementsLineStream == LS!Spec

(* README: with log_all every JSON line that was received is recorded.  A   *)
(* line in recv_buffer has been received; it can only be logged by being   *)
(* delivered, so none may be left there when the connection is given up.   *)
ReceivedLinesAreRecorded == ~connected => ~HasLF(recv_buffer)
==============================================================================
