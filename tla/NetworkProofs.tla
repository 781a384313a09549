---------------------------- MODULE NetworkProofs ----------------------------
(***************************************************************************)
(* Network for every buffer size, line limit and bound: the inductive      *)
(* invariant of the receive path, the invariants it implies, and the step  *)
(* simulation of LineStream.                                               *)
(***************************************************************************)
EXTENDS Network, SequenceTheorems, TLAPS

(* s holds the bytes of the stream that follow position base.               *)
Window(s, base) ==
  /\ base + Len(s) <= Len(stream)
  /\ \A i \in 1..Len(s) : s[i] = stream[base + i]

(* The bytes of the lines handed out so far.                                *)
Pos == EndOf(Len(delivered))

(* ends marks the LFs of the stream, and no line is longer than promised.   *)
Framed ==
  /\ \A k \in 1..Len(ends) :
       /\ EndOf(k - 1) < ends[k] /\ ends[k] <= EndOf(k - 1) + PeerMaxLine
       /\ stream[ends[k]] = LF
       /\ \A i \in (EndOf(k - 1) + 1)..(ends[k] - 1) : stream[i] # LF
  /\ EndOf(Len(ends)) <= Len(stream)
  /\ Len(stream) < EndOf(Len(ends)) + PeerMaxLine
  /\ \A i \in (EndOf(Len(ends)) + 1)..Len(stream) : stream[i] # LF

(* recv_buffer and wire are adjacent windows after the delivered lines.     *)
Placed ==
  /\ Len(delivered) <= Len(ends)
  /\ Window(recv_buffer, Pos)
  /\ Window(wire, Pos + Len(recv_buffer))
  /\ peer = "open" => Pos + Len(recv_buffer) + Len(wire) = Len(stream)

Control ==
  /\ peer = "open" => connected
  /\ connected => sockfd
  /\ pc = "drain" => connected
  /\ ~sockfd => recv_buffer = <<>>

IInv == TypeOK /\ Framed /\ Placed /\ Control /\ NothingParked

-----------------------------------------------------------------------------
(* The end positions are numbers within the stream.                         *)
LEMMA EndOfType ==
  ASSUME TypeOK, NEW k \in 0..Len(ends)
  PROVE  /\ EndOf(k) \in Nat
         /\ k > 0 => EndOf(k) = ends[k] /\ ends[k] \in 1..Len(stream)
<1>1. k > 0 => ends[k] \in 1..Len(stream)
  BY ElementOfSeq DEF TypeOK
<1>2. QED
  BY <1>1 DEF EndOf, TypeOK

(* Dropping the first m bytes of a window moves it by m.                    *)
LEMMA WindowDrop ==
  ASSUME NEW s \in Seq(Byte), NEW base \in Nat, stream \in Seq(Byte),
         NEW m \in 0..Len(s), Window(s, base)
  PROVE  LET t == SubSeq(s, m + 1, Len(s))
         IN /\ t \in Seq(Byte)
            /\ Len(t) = Len(s) - m
            /\ Window(t, base + m)
<1> DEFINE t == SubSeq(s, m + 1, Len(s))
<1>0. Len(s) \in Nat /\ Len(stream) \in Nat
  OBVIOUS
<1>1. \A i \in (m + 1)..Len(s) : s[i] \in Byte
  BY <1>0, ElementOfSeq
<1>2. /\ t \in Seq(Byte)
      /\ Len(t) = Len(s) - m
      /\ \A i \in 1..(Len(s) - m) : t[i] = s[m + i]
  <2>1. /\ t \in Seq(Byte)
        /\ Len(t) = IF m + 1 <= Len(s) THEN Len(s) - (m + 1) + 1 ELSE 0
        /\ \A i \in 1..(Len(s) - (m + 1) + 1) : t[i] = s[(m + 1) + i - 1]
    <3> HIDE DEF t
    <3>1. m + 1 \in Int /\ Len(s) \in Int
      BY <1>0
    <3>2. QED
      BY <1>1, <3>1, SubSeqProperties DEF t
  <2> HIDE DEF t
  <2>2. QED
    BY <1>0, <2>1
<1> HIDE DEF t
<1>3. Window(t, base + m)
  BY <1>0, <1>2 DEF Window
<1>4. QED
  BY <1>2, <1>3 DEF t

(* What one recv() leaves in the buffer and in the queue.                   *)
LEMMA ReceiveFacts ==
  ASSUME TypeOK, NEW n \in RecvCounts
  PROVE  /\ n \in 0..Len(wire)
         /\ Len(recv_buffer) + n <= Capacity
         /\ Received(n) \in Seq(Byte)
         /\ Len(Received(n)) = Len(recv_buffer) + n
         /\ \A i \in 1..(Len(recv_buffer) + n) :
              Received(n)[i] = IF i <= Len(recv_buffer) THEN recv_buffer[i]
                               ELSE wire[i - Len(recv_buffer)]
<1>1. /\ recv_buffer \in Seq(Byte) /\ wire \in Seq(Byte)
      /\ Len(recv_buffer) \in Nat /\ Len(wire) \in Nat /\ Capacity \in Nat
      /\ Len(recv_buffer) <= Capacity
  BY RecvSizeIsSize DEF TypeOK, Capacity
<1>2. n \in 0..Len(wire) /\ Len(recv_buffer) + n <= Capacity
  BY <1>1 DEF RecvCounts, Room
<1> DEFINE head == SubSeq(wire, 1, n)
<1>3. \A i \in 1..n : wire[i] \in Byte
  BY <1>1, <1>2, ElementOfSeq
<1>4. /\ head \in Seq(Byte)
      /\ Len(head) = n
      /\ \A i \in 1..n : head[i] = wire[i]
  <2>1. /\ head \in Seq(Byte)
        /\ Len(head) = IF 1 <= n THEN n - 1 + 1 ELSE 0
        /\ \A i \in 1..(n - 1 + 1) : head[i] = wire[1 + i - 1]
    <3> HIDE DEF head
    <3>1. n \in Int
      BY <1>2
    <3>2. QED
      BY <1>3, <3>1, SubSeqProperties DEF head
  <2> HIDE DEF head
  <2>2. QED
    BY <1>2, <2>1
<1> HIDE DEF head
<1>5. /\ recv_buffer \o head \in Seq(Byte)
      /\ Len(recv_buffer \o head) = Len(recv_buffer) + Len(head)
      /\ \A i \in 1..(Len(recv_buffer) + Len(head)) :
           (recv_buffer \o head)[i] = IF i <= Len(recv_buffer) THEN recv_buffer[i]
                                     ELSE head[i - Len(recv_buffer)]
  BY <1>1, <1>4, ConcatProperties
<1>6. Received(n) = recv_buffer \o head
  BY DEF Received, head
<1>7. QED
  BY <1>1, <1>2, <1>4, <1>5, <1>6
(* recv() moves the border between buffer and queue and nothing else.       *)
LEMMA ReceiveWindows ==
  ASSUME TypeOK, Placed, NEW n \in RecvCounts
  PROVE  LET rest == SubSeq(wire, n + 1, Len(wire))
         IN /\ Window(Received(n), Pos)
            /\ rest \in Seq(Byte)
            /\ Len(rest) = Len(wire) - n
            /\ Window(rest, Pos + Len(Received(n)))
<1>1. /\ stream \in Seq(Byte) /\ wire \in Seq(Byte) /\ recv_buffer \in Seq(Byte)
      /\ Len(stream) \in Nat /\ Len(wire) \in Nat /\ Len(recv_buffer) \in Nat
      /\ Len(delivered) \in Nat
  BY DEF TypeOK
<1>2. Pos \in Nat
  BY <1>1, EndOfType DEF Pos, Placed
<1>3. /\ n \in 0..Len(wire)
      /\ Len(Received(n)) = Len(recv_buffer) + n
      /\ \A i \in 1..(Len(recv_buffer) + n) :
           Received(n)[i] = IF i <= Len(recv_buffer) THEN recv_buffer[i]
                            ELSE wire[i - Len(recv_buffer)]
  BY ReceiveFacts
<1>4. Window(Received(n), Pos)
  <2>1. /\ Pos + Len(recv_buffer) <= Len(stream)
        /\ \A i \in 1..Len(recv_buffer) : recv_buffer[i] = stream[Pos + i]
        /\ Pos + Len(recv_buffer) + Len(wire) <= Len(stream)
        /\ \A i \in 1..Len(wire) : wire[i] = stream[Pos + Len(recv_buffer) + i]
    BY DEF Placed, Window
  <2>2. ASSUME NEW i \in 1..(Len(recv_buffer) + n)
        PROVE  Received(n)[i] = stream[Pos + i]
    <3>1. CASE i <= Len(recv_buffer)
      BY <1>1, <1>3, <2>1, <3>1
    <3>2. CASE i > Len(recv_buffer)
      <4> DEFINE j == i - Len(recv_buffer)
      <4>1. j \in 1..Len(wire) /\ Pos + Len(recv_buffer) + j = Pos + i
        BY <1>1, <1>2, <1>3, <3>2
      <4>2. Received(n)[i] = wire[j]
        BY <1>1, <1>3, <3>2
      <4> HIDE DEF j
      <4>3. QED
        BY <2>1, <4>1, <4>2
    <3>3. QED
      BY <1>1, <1>3, <3>1, <3>2
  <2>3. Pos + Len(Received(n)) <= Len(stream)
    BY <1>1, <1>2, <1>3, <2>1
  <2>4. QED
    BY <1>3, <2>2, <2>3 DEF Window
<1>5. Window(wire, Pos + Len(recv_buffer)) /\ Pos + Len(recv_buffer) \in Nat
  BY <1>1, <1>2 DEF Placed
<1> DEFINE rest == SubSeq(wire, n + 1, Len(wire))
<1>6. /\ rest \in Seq(Byte)
      /\ Len(rest) = Len(wire) - n
      /\ Window(rest, Pos + Len(recv_buffer) + n)
  BY <1>1, <1>3, <1>5, WindowDrop
<1> HIDE DEF rest
<1>7. Pos + Len(Received(n)) = Pos + Len(recv_buffer) + n
  BY <1>1, <1>2, <1>3
<1>8. QED
  BY <1>4, <1>6, <1>7 DEF rest

(* The first LF of a window after the delivered lines ends the next line    *)
(* the emulator completed, and the bytes before it are that line.           *)
LEMMA FirstLineOfWindow ==
  ASSUME TypeOK, Framed, Len(delivered) <= Len(ends),
         NEW s \in Seq(Byte), Window(s, Pos), HasLF(s)
  PROVE  /\ Len(delivered) + 1 \in 1..Len(ends)
         /\ FirstLF(s) \in 1..Len(s)
         /\ FirstLF(s) = EndOf(Len(delivered) + 1) - Pos
         /\ SubSeq(s, 1, FirstLF(s) - 1) \in Seq(Byte)
         /\ SubSeq(s, 1, FirstLF(s) - 1) = Written[Len(delivered) + 1]
<1> DEFINE d == Len(delivered)
           p == EndOf(d + 1) - Pos
<1>1. /\ d \in Nat /\ Len(ends) \in Nat /\ Len(stream) \in Nat /\ Len(s) \in Nat
      /\ stream \in Seq(Byte) /\ PeerMaxLine \in Nat
  BY PeerLinesFit DEF TypeOK
<1>2. Pos = EndOf(d) /\ Pos \in Nat
  BY <1>1, EndOfType DEF Pos
<1>3. PICK i \in 1..Len(s) : s[i] = LF
  BY DEF HasLF
<1>4. stream[Pos + i] = LF /\ Pos + i <= Len(stream)
  BY <1>1, <1>2, <1>3 DEF Window
<1>5. d + 1 \in 1..Len(ends)
  <2>1. SUFFICES ASSUME d = Len(ends) PROVE FALSE
    BY <1>1
  <2>2. QED
    BY <1>1, <1>2, <1>4, <2>1 DEF Framed
<1>6. /\ EndOf(d + 1) = ends[d + 1] /\ ends[d + 1] \in 1..Len(stream)
      /\ EndOf(d) < ends[d + 1]
      /\ stream[ends[d + 1]] = LF
      /\ \A j \in (EndOf(d) + 1)..(ends[d + 1] - 1) : stream[j] # LF
  <2>1. (d + 1) - 1 = d /\ d + 1 > 0 /\ d + 1 \in 0..Len(ends)
    BY <1>1, <1>5
  <2>2. EndOf(d + 1) = ends[d + 1] /\ ends[d + 1] \in 1..Len(stream)
    BY <2>1, EndOfType
  <2>3. QED
    BY <1>5, <2>1, <2>2 DEF Framed
<1> HIDE DEF d
<1> DEFINE e == ends[d + 1]
<1>a. /\ e \in Nat /\ Pos < e /\ p = e - Pos /\ stream[e] = LF
      /\ \A j \in (Pos + 1)..(e - 1) : stream[j] # LF
  BY <1>1, <1>2, <1>6
<1>b. \A j \in 1..Len(s) : s[j] = stream[Pos + j]
  BY DEF Window
<1> HIDE DEF e, p
<1>7. p \in 1..i
  <2>1. ~ (Pos + i \in (Pos + 1)..(e - 1))
    BY <1>4, <1>a
  <2>2. Len(s) \in Nat /\ Pos \in Nat /\ i \in 1..Len(s)
    BY <1>1, <1>2, <1>3
  <2>3. e \in Nat /\ Pos < e /\ p = e - Pos
    BY <1>a
  <2>4. QED
    BY ONLY <2>1, <2>2, <2>3
<1>8. /\ p \in 1..Len(s)
      /\ s[p] = LF
      /\ \A j \in 1..(p - 1) : s[j] # LF
  <2>1. p \in 1..Len(s) /\ Pos + p = e
    BY <1>1, <1>2, <1>7, <1>a
  <2>2. ASSUME NEW j \in 1..(p - 1) PROVE s[j] # LF
    <3>1. j \in 1..Len(s) /\ Pos + j \in (Pos + 1)..(e - 1)
      <4>1. Len(s) \in Nat /\ Pos \in Nat /\ e \in Nat /\ p \in 1..Len(s) /\ Pos + p = e
        BY <1>1, <1>2, <1>a, <2>1
      <4>2. QED
        BY ONLY <4>1, j \in 1..(p - 1)
    <3>2. QED
      BY <1>a, <1>b, <3>1
  <2>3. QED
    BY <1>a, <1>b, <2>1, <2>2
<1>9. FirstLF(s) = p
  <2>1. FirstLF(s) \in 1..Len(s) /\ s[FirstLF(s)] = LF
        /\ \A j \in 1..(FirstLF(s) - 1) : s[j] # LF
    BY <1>8 DEF FirstLF
  <2>2. QED
    BY <1>1, <1>8, <2>1
<1>10. /\ SubSeq(s, 1, p - 1) \in Seq(Byte)
       /\ Len(SubSeq(s, 1, p - 1)) = p - 1
       /\ \A j \in 1..(p - 1) : SubSeq(s, 1, p - 1)[j] = s[j]
  <2>1. \A j \in 1..(p - 1) : s[j] \in Byte
    BY <1>1, <1>8, ElementOfSeq
  <2> DEFINE q == p - 1
  <2>2. q \in Int
    BY <1>8
  <2>3. \A j \in 1..q : s[j] \in Byte
    BY <2>1
  <2> HIDE DEF q
  <2>4. /\ SubSeq(s, 1, q) \in Seq(Byte)
        /\ Len(SubSeq(s, 1, q)) = IF 1 <= q THEN q - 1 + 1 ELSE 0
        /\ \A j \in 1..(q - 1 + 1) : SubSeq(s, 1, q)[j] = s[1 + j - 1]
    BY <2>2, <2>3, SubSeqProperties
  <2>5. q \in Nat
    BY <1>8 DEF q
  <2>6. /\ SubSeq(s, 1, q) \in Seq(Byte)
        /\ Len(SubSeq(s, 1, q)) = q
        /\ \A j \in 1..q : SubSeq(s, 1, q)[j] = s[j]
    BY <2>4, <2>5
  <2>7. QED
    BY <2>6 DEF q
<1> DEFINE w == SubSeq(stream, EndOf(d) + 1, EndOf(d + 1) - 1)
<1>11. /\ w \in Seq(Byte)
       /\ Len(w) = p - 1
       /\ \A j \in 1..(p - 1) : w[j] = stream[Pos + j]
  <2> DEFINE a == EndOf(d) + 1
             b == EndOf(d + 1) - 1
  <2>0. /\ EndOf(d) \in Nat /\ EndOf(d) = Pos
        /\ EndOf(d + 1) \in 1..Len(stream)
        /\ p = EndOf(d + 1) - EndOf(d) /\ p \in Nat /\ p > 0
    BY <1>1, <1>2, <1>6, <1>8 DEF p
  <2>1. a = Pos + 1 /\ b = Pos + p - 1 /\ a \in Int /\ b \in Int /\ p \in Nat /\ p > 0
        /\ b <= Len(stream) /\ a > 0
    <3>1. a = Pos + 1 /\ b = Pos + p - 1
      BY <1>2, <2>0
    <3>2. b <= Len(stream) /\ b \in Int
      BY <1>1, <2>0
    <3> HIDE DEF a, b
    <3>3. Pos \in Nat /\ p \in Nat /\ p > 0
      BY <1>2, <2>0
    <3>4. a \in Int /\ a > 0
      BY ONLY <3>1, <3>3
    <3>5. QED
      BY <3>1, <3>2, <3>3, <3>4
  <2>2. \A j \in a..b : stream[j] \in Byte
    <3> HIDE DEF a, b
    <3>1. QED
      BY <1>1, <2>1, ElementOfSeq
  <2> HIDE DEF a, b
  <2>3. /\ SubSeq(stream, a, b) \in Seq(Byte)
        /\ Len(SubSeq(stream, a, b)) = IF a <= b THEN b - a + 1 ELSE 0
        /\ \A j \in 1..(b - a + 1) : SubSeq(stream, a, b)[j] = stream[a + j - 1]
    BY <2>1, <2>2, SubSeqProperties
  <2>4. /\ SubSeq(stream, a, b) \in Seq(Byte)
        /\ Len(SubSeq(stream, a, b)) = p - 1
        /\ \A j \in 1..(p - 1) : SubSeq(stream, a, b)[j] = stream[Pos + j]
    <3>1. b - a + 1 = p - 1 /\ (a <= b <=> p > 1)
      <4>1. a = Pos + 1 /\ b = Pos + p - 1 /\ p \in Nat /\ Pos \in Nat
        BY <1>2, <2>1
      <4> HIDE DEF p, a, b
      <4>2. QED
        BY ONLY <4>1
    <3>2. \A j \in 1..(p - 1) : a + j - 1 = Pos + j
      BY <1>2, <2>1
    <3>3. Len(SubSeq(stream, a, b)) = p - 1
      BY <2>1, <2>3, <3>1
    <3>4. QED
      BY <2>3, <3>1, <3>2, <3>3
  <2>5. QED
    BY <2>4 DEF a, b
<1> HIDE DEF w
<1>12. \A j \in 1..(p - 1) : s[j] = stream[Pos + j]
  BY <1>1, <1>8 DEF Window
<1>13. SubSeq(s, 1, p - 1) = w
  <2>1. \A j \in 1..Len(SubSeq(s, 1, p - 1)) : SubSeq(s, 1, p - 1)[j] = w[j]
    BY <1>10, <1>11, <1>12
  <2>2. QED
    BY <1>10, <1>11, <2>1, SeqEqual
<1>14. Written[d + 1] = w
  <2>1. (d + 1) - 1 = d
    BY <1>1
  <2>2. QED
    BY <1>5, <2>1 DEF Written, w, d
<1>15. QED
  BY <1>5, <1>8, <1>9, <1>10, <1>13, <1>14 DEF d, p
-----------------------------------------------------------------------------
(* The invariant is preserved by every action; one lemma for each action    *)
(* that changes the stream or the buffer.                                   *)
LEMMA PeerSendKeepsIInv ==
  ASSUME IInv, NEW b \in Byte, PeerSend(b)
  PROVE  IInv'
<1> DEFINE L == Len(stream)
           E == Len(ends)
<1>1. /\ stream \in Seq(Byte) /\ wire \in Seq(Byte) /\ recv_buffer \in Seq(Byte)
      /\ ends \in Seq(1..L) /\ delivered \in Seq(Seq(Byte))
      /\ L \in Nat /\ E \in Nat /\ Len(wire) \in Nat /\ Len(recv_buffer) \in Nat
      /\ Len(delivered) \in Nat /\ PeerMaxLine \in Nat /\ PeerMaxLine > 0
      /\ L <= MaxBytes /\ MaxBytes \in Nat
  BY PeerLinesFit, MaxBytesIsNat DEF IInv, TypeOK
<1>2. /\ stream' \in Seq(Byte) /\ Len(stream') = L + 1
      /\ \A i \in 1..L : stream'[i] = stream[i]
      /\ stream'[L + 1] = b
  BY <1>1, AppendProperties DEF PeerSend
<1>3. /\ wire' \in Seq(Byte) /\ Len(wire') = Len(wire) + 1
      /\ \A i \in 1..Len(wire) : wire'[i] = wire[i]
      /\ wire'[Len(wire) + 1] = b
  BY <1>1, AppendProperties DEF PeerSend
<1>4. ends \in Seq(1..(L + 1))
  <2>1. 1..L \subseteq 1..(L + 1)
    BY <1>1
  <2>2. QED
    BY <1>1, <2>1, SeqMonotonic
<1>5. /\ ends' \in Seq(1..Len(stream'))
      /\ b = LF => /\ Len(ends') = E + 1 /\ ends'[E + 1] = L + 1
                   /\ \A k \in 1..E : ends'[k] = ends[k]
      /\ b # LF => ends' = ends
  <2>1. CASE b = LF
    <3>1. ends' = Append(ends, L + 1) /\ L + 1 \in 1..(L + 1)
      BY <1>1, <2>1 DEF PeerSend
    <3>2. QED
      BY <1>2, <1>4, <2>1, <3>1, AppendProperties
  <2>2. CASE b # LF
    BY <1>2, <1>4, <2>2 DEF PeerSend
  <2>3. QED
    BY <2>1, <2>2
<1>6. TypeOK'
  <2>1. Len(stream') <= MaxBytes
    BY <1>1, <1>2 DEF PeerSend
  <2>2. QED
    BY <1>2, <1>3, <1>5, <2>1 DEF IInv, TypeOK, PeerSend, local
<1>7. \A k \in 0..E : EndOf(k)' = EndOf(k) /\ EndOf(k) \in Nat
  <2>1. \A k \in 0..E : EndOf(k) \in Nat
    BY EndOfType DEF IInv
  <2>2. \A k \in 1..E : ends'[k] = ends[k]
    BY <1>5
  <2>3. QED
    BY <1>1, <2>1, <2>2 DEF EndOf
<1>8. /\ \A k \in 1..E :
            /\ EndOf(k - 1) < ends[k] /\ ends[k] <= EndOf(k - 1) + PeerMaxLine
            /\ ends[k] \in 1..L
            /\ stream[ends[k]] = LF
            /\ \A i \in (EndOf(k - 1) + 1)..(ends[k] - 1) : stream[i] # LF
      /\ EndOf(E) <= L /\ L < EndOf(E) + PeerMaxLine
      /\ \A i \in (EndOf(E) + 1)..L : stream[i] # LF
  <2>1. \A k \in 1..E : ends[k] \in 1..L
    BY <1>1, ElementOfSeq
  <2>2. QED
    BY <2>1 DEF IInv, Framed
<1>9. \A k \in 1..E :
        /\ EndOf(k - 1)' < ends'[k] /\ ends'[k] <= EndOf(k - 1)' + PeerMaxLine
        /\ stream'[ends'[k]] = LF
        /\ \A i \in (EndOf(k - 1)' + 1)..(ends'[k] - 1) : stream'[i] # LF
  <2>1. SUFFICES ASSUME NEW k \in 1..E
        PROVE  /\ EndOf(k - 1) < ends[k] /\ ends[k] <= EndOf(k - 1) + PeerMaxLine
               /\ stream'[ends[k]] = LF
               /\ \A i \in (EndOf(k - 1) + 1)..(ends[k] - 1) : stream'[i] # LF
    <3>1. \A k \in 1..E : k - 1 \in 0..E /\ ends'[k] = ends[k]
      BY <1>1, <1>5
    <3>2. \A k \in 1..E : EndOf(k - 1)' = EndOf(k - 1)
      BY <1>7, <3>1
    <3>3. QED
      BY <3>1, <3>2
  <2>2. EndOf(k - 1) \in Nat /\ ends[k] \in 1..L
    <3>1. k - 1 \in 0..E
      BY <1>1
    <3>2. QED
      BY <1>7, <1>8, <3>1
  <2>3. \A i \in (EndOf(k - 1) + 1)..(ends[k] - 1) : i \in 1..L
    BY <1>1, <2>2
  <2>4. QED
    BY <1>2, <1>8, <2>2, <2>3
<1>10. Framed'
  <2>1. CASE b = LF
    <3>1. /\ Len(ends') = E + 1 /\ ends'[E + 1] = L + 1
          /\ EndOf(E) \in Nat /\ E + 1 # 0
      <4>1. E \in 0..E
        BY <1>1
      <4>2. QED
        BY <1>1, <1>5, <1>7, <2>1, <4>1
    <3>2. \A i \in (EndOf(E) + 1)..L : stream'[i] # LF
      <4>1. \A i \in (EndOf(E) + 1)..L : i \in 1..L
        BY <1>1, <3>1
      <4>2. QED
        BY <1>2, <1>8, <4>1
    <3>3. /\ EndOf(E) < L + 1 /\ L + 1 <= EndOf(E) + PeerMaxLine
          /\ stream'[L + 1] = LF
          /\ \A i \in (EndOf(E) + 1)..((L + 1) - 1) : stream'[i] # LF
      BY <1>1, <1>2, <1>8, <2>1, <3>1, <3>2
    <3>4. /\ Len(ends)' = E + 1 /\ Len(stream)' = L + 1
          /\ EndOf(Len(ends))' = L + 1
      BY <1>2, <3>1 DEF EndOf
    <3>5. ASSUME NEW k \in 1..Len(ends')
          PROVE  /\ EndOf(k - 1)' < ends'[k] /\ ends'[k] <= EndOf(k - 1)' + PeerMaxLine
                 /\ stream'[ends'[k]] = LF
                 /\ \A i \in (EndOf(k - 1)' + 1)..(ends'[k] - 1) : stream'[i] # LF
      <4>1. CASE k \in 1..E
        BY <1>9, <4>1
      <4>2. CASE k = E + 1
        <5>1. k - 1 = E /\ k - 1 \in 0..E
          BY <1>1, <4>2
        <5>2. EndOf(k - 1)' = EndOf(E)
          BY <1>7, <5>1
        <5>3. QED
          BY <3>1, <3>3, <4>2, <5>2
      <4>3. QED
        BY <1>1, <3>1, <4>1, <4>2
    <3>6. L + 1 <= L + 1 /\ L + 1 < (L + 1) + PeerMaxLine
          /\ \A i \in ((L + 1) + 1)..(L + 1) : stream'[i] # LF
      BY <1>1
    <3>7. QED
      BY <3>4, <3>5, <3>6 DEF Framed
  <2>2. CASE b # LF
    <3>1. ends' = ends /\ Len(ends') = E /\ EndOf(E)' = EndOf(E) /\ EndOf(E) \in Nat
      BY <1>1, <1>5, <1>7, <2>2
    <3>2. EndOf(E) <= L + 1 /\ L + 1 < EndOf(E) + PeerMaxLine
      <4>1. L + 1 - EndOf(E) < PeerMaxLine
        BY <2>2 DEF PeerSend
      <4>2. QED
        BY <1>1, <1>8, <3>1, <4>1
    <3>3. \A i \in (EndOf(E) + 1)..(L + 1) : stream'[i] # LF
      <4>1. \A i \in (EndOf(E) + 1)..(L + 1) : i = L + 1 \/ (i \in 1..L /\ i \in (EndOf(E) + 1)..L)
        BY <1>1, <3>1
      <4>2. QED
        BY <1>2, <1>8, <2>2, <4>1
    <3>4. EndOf(Len(ends))' = EndOf(E) /\ Len(stream)' = L + 1
      BY <1>2, <3>1 DEF EndOf
    <3>5. QED
      BY <1>9, <3>1, <3>2, <3>3, <3>4 DEF Framed
  <2>3. QED
    BY <2>1, <2>2
<1>11. Pos' = Pos /\ Pos \in Nat
  <2>1. delivered' = delivered /\ Len(delivered) \in 0..E
    BY <1>1 DEF IInv, Placed, PeerSend
  <2>2. QED
    BY <1>7, <2>1 DEF Pos, EndOf
<1>12. Placed'
  <2>1. /\ Pos + Len(recv_buffer) + Len(wire) = L
        /\ \A i \in 1..Len(recv_buffer) : recv_buffer[i] = stream[Pos + i]
        /\ \A i \in 1..Len(wire) : wire[i] = stream[Pos + Len(recv_buffer) + i]
        /\ Len(delivered) <= E
    BY DEF IInv, Placed, PeerSend, Window
  <2>2. recv_buffer' = recv_buffer /\ delivered' = delivered
    BY DEF PeerSend, local
  <2>3. \A i \in 1..Len(recv_buffer) : recv_buffer[i] = stream'[Pos + i]
    <3>1. \A i \in 1..Len(recv_buffer) : Pos + i \in 1..L
      BY <1>1, <1>11, <2>1
    <3>2. QED
      BY <1>2, <2>1, <3>1
  <2>4. \A i \in 1..(Len(wire) + 1) : wire'[i] = stream'[Pos + Len(recv_buffer) + i]
    <3>1. \A i \in 1..Len(wire) : Pos + Len(recv_buffer) + i \in 1..L
      BY <1>1, <1>11, <2>1
    <3>2. Pos + Len(recv_buffer) + (Len(wire) + 1) = L + 1
      BY <1>1, <1>11, <2>1
    <3>3. \A i \in 1..(Len(wire) + 1) : i = Len(wire) + 1 \/ i \in 1..Len(wire)
      BY <1>1
    <3>4. QED
      BY <1>2, <1>3, <2>1, <3>1, <3>2, <3>3
  <2>5. Len(delivered) <= Len(ends')
    BY <1>1, <1>5, <2>1
  <2>6. /\ Pos + Len(recv_buffer) <= L + 1
        /\ Pos + Len(recv_buffer) + (Len(wire) + 1) = L + 1
    <3>1. Pos + Len(recv_buffer) + Len(wire) = L
      BY <2>1
    <3>2. Pos \in Nat /\ Len(recv_buffer) \in Nat /\ Len(wire) \in Nat /\ L \in Nat
      BY <1>1, <1>11
    <3> HIDE DEF L
    <3>3. QED
      BY ONLY <3>1, <3>2
  <2>7. Window(recv_buffer, Pos)'
    BY <1>2, <1>11, <2>2, <2>3, <2>6 DEF Window
  <2>8. Window(wire, Pos + Len(recv_buffer))'
    BY <1>1, <1>2, <1>3, <1>11, <2>2, <2>4, <2>6 DEF Window
  <2>9. QED
    BY <1>2, <1>3, <1>11, <2>2, <2>5, <2>6, <2>7, <2>8 DEF Placed
<1>13. Control' /\ NothingParked'
  BY DEF IInv, Control, NothingParked, PeerSend, local
<1>14. QED
  BY <1>6, <1>10, <1>12, <1>13 DEF IInv
LEMMA CutType ==
  ASSUME NEW l \in Seq(Byte)
  PROVE  Cut(l) \in Seq(Byte)
<1>1. ASSUME NEW s \in Seq(Byte), NEW n \in Int, n <= Len(s)
      PROVE  SubSeq(s, 1, n) \in Seq(Byte)
  <2>1. \A i \in 1..n : s[i] \in Byte
    BY <1>1, ElementOfSeq, LenProperties
  <2>2. QED
    BY <2>1, SubSeqProperties
<1>2. Truncate(l) \in Seq(Byte)
  <2>1. Len(l) >= MaxLine => MaxLine - 1 \in Int /\ MaxLine - 1 <= Len(l)
    BY MaxLineIsSize
  <2>2. QED
    BY <1>1, <2>1 DEF Truncate
<1>3. ASSUME NEW s \in Seq(Byte) PROVE StripCR(s) \in Seq(Byte)
  <2>1. Len(s) - 1 \in Int /\ Len(s) - 1 <= Len(s)
    BY <1>3
  <2>2. QED
    BY <1>1, <2>1 DEF StripCR
<1>4. QED
  BY <1>2, <1>3 DEF Cut

(* A line is returned: it is the next line the emulator completed, and the  *)
(* buffer goes on right behind its LF.                                      *)
LEMMA ReadOkStep ==
  ASSUME IInv, ReadOk
  PROVE  /\ IInv'
         /\ Len(delivered) + 1 \in 1..Len(ends)
         /\ delivered' = Append(delivered, Cut(Written[Len(delivered) + 1]))
<1> DEFINE d == Len(delivered)
<1>1. PICK n \in RecvCounts :
        /\ Take(n)
        /\ HasLF(Received(n))
        /\ delivered' = Append(delivered,
                              Cut(SubSeq(Received(n), 1, FirstLF(Received(n)) - 1)))
        /\ recv_buffer' = SubSeq(Received(n), FirstLF(Received(n)) + 1, Len(Received(n)))
  BY DEF ReadOk
<1> DEFINE got == Received(n)
           f == FirstLF(got)
<1>2. /\ TypeOK /\ Framed /\ Placed /\ d <= Len(ends)
      /\ stream \in Seq(Byte) /\ Len(ends) \in Nat /\ d \in Nat
      /\ delivered \in Seq(Seq(Byte))
  BY DEF IInv, TypeOK, Placed
<1>3. /\ got \in Seq(Byte) /\ Len(got) <= Capacity /\ Window(got, Pos)
      /\ Len(got) = Len(recv_buffer) + n /\ n \in 0..Len(wire)
      /\ wire' \in Seq(Byte)
      /\ Len(wire') = Len(wire) - n
      /\ Window(wire', Pos + Len(got))
  BY <1>1, <1>2, ReceiveFacts, ReceiveWindows DEF Take
<1> HIDE DEF got
<1>4. /\ d + 1 \in 1..Len(ends)
      /\ f \in 1..Len(got)
      /\ f = EndOf(d + 1) - Pos
      /\ SubSeq(got, 1, f - 1) \in Seq(Byte)
      /\ SubSeq(got, 1, f - 1) = Written[d + 1]
  BY <1>1, <1>2, <1>3, FirstLineOfWindow DEF got
<1>5. delivered' = Append(delivered, Cut(Written[d + 1]))
  BY <1>1, <1>4 DEF got
<1>6. /\ delivered' \in Seq(Seq(Byte)) /\ Len(delivered') = d + 1
  <2>1. Cut(Written[d + 1]) \in Seq(Byte)
    BY <1>4, CutType
  <2>2. QED
    BY <1>2, <1>5, <2>1, AppendProperties
<1>7. Pos \in Nat /\ EndOf(d + 1) \in Nat /\ Pos + f = EndOf(d + 1)
  <2>1. d \in 0..Len(ends) /\ d + 1 \in 0..Len(ends)
    BY <1>2, <1>4
  <2>2. Pos \in Nat /\ EndOf(d + 1) \in Nat
    BY <1>2, <2>1, EndOfType DEF Pos
  <2>3. QED
    BY <1>4, <2>2
<1>8. Pos' = Pos + f
  <2>1. Len(delivered)' = d + 1 /\ ends' = ends
    BY <1>6 DEF ReadOk
  <2>2. Pos' = EndOf(d + 1)
    BY <1>2, <2>1 DEF Pos, EndOf
  <2>3. QED
    BY <1>7, <2>2
<1> HIDE DEF f
<1>9. /\ recv_buffer' \in Seq(Byte)
      /\ Len(recv_buffer') = Len(got) - f
      /\ Window(recv_buffer', Pos + f)
  <2>1. recv_buffer' = SubSeq(got, f + 1, Len(got)) /\ f \in 0..Len(got)
    BY <1>1, <1>4 DEF got, f
  <2>2. QED
    BY <1>2, <1>3, <1>7, <2>1, WindowDrop
<1>10. stream' = stream /\ ends' = ends /\ UNCHANGED <<sockfd, connected, pc, peer>>
  BY DEF ReadOk
<1>11. TypeOK'
  <2>1. Len(got) \in Nat /\ Len(got) <= Capacity /\ f \in 1..Len(got)
    BY <1>3, <1>4
  <2>2. Capacity \in Int /\ Len(recv_buffer') = Len(got) - f
    BY <1>9, RecvSizeIsSize DEF Capacity
  <2>3. Len(recv_buffer') <= Capacity
    BY ONLY <2>1, <2>2
  <2>4. QED
    BY <1>2, <1>3, <1>6, <1>9, <1>10, <2>3 DEF TypeOK
<1>12. Placed'
  <2>1. Pos' + Len(recv_buffer') = Pos + Len(got)
    BY <1>3, <1>4, <1>7, <1>8, <1>9
  <2>2. Window(recv_buffer, Pos)' /\ Window(wire, Pos + Len(recv_buffer))'
    BY <1>3, <1>8, <1>9, <1>10, <2>1 DEF Window
  <2>3. peer' = "open" => Pos' + Len(recv_buffer') + Len(wire') = Len(stream')
    <3>1. peer = "open" => Pos + Len(recv_buffer) + Len(wire) = Len(stream)
      BY <1>2 DEF Placed
    <3>2. Len(recv_buffer) \in Nat /\ Len(wire) \in Nat
      BY <1>2 DEF TypeOK
    <3>3. Pos + Len(got) + Len(wire') = Pos + Len(recv_buffer) + Len(wire)
      BY <1>3, <1>7, <3>2
    <3>4. QED
      BY <1>10, <2>1, <3>1, <3>3
  <2>4. QED
    BY <1>4, <1>6, <1>10, <2>2, <2>3 DEF Placed
<1>13. Framed'
  BY <1>2, <1>10 DEF Framed, EndOf
<1>14. Control' /\ NothingParked'
  BY <1>10 DEF IInv, Control, NothingParked, ReadOk
<1>15. QED
  BY <1>4, <1>5, <1>11, <1>12, <1>13, <1>14 DEF IInv

LEMMA ReadNoDataKeepsIInv ==
  ASSUME IInv, ReadNoData
  PROVE  IInv'
<1>1. PICK n \in RecvCounts :
        Take(n) /\ ~HasLF(Received(n)) /\ recv_buffer' = Received(n)
  BY DEF ReadNoData
<1>2. TypeOK /\ Framed /\ Placed
  BY DEF IInv
<1>3. /\ recv_buffer' \in Seq(Byte) /\ Len(recv_buffer') <= Capacity
      /\ Len(recv_buffer') = Len(recv_buffer) + n /\ n \in 0..Len(wire)
      /\ Window(recv_buffer', Pos)
      /\ wire' \in Seq(Byte)
      /\ Len(wire') = Len(wire) - n
      /\ Window(wire', Pos + Len(recv_buffer'))
  BY <1>1, <1>2, ReceiveFacts, ReceiveWindows DEF Take
<1>4. UNCHANGED <<sockfd, connected, peer, stream, ends, delivered>> /\ pc' = "select"
  BY DEF ReadNoData, history
<1>5. Pos' = Pos /\ Pos \in Nat
  <2>1. Len(delivered) \in 0..Len(ends)
    BY <1>2 DEF TypeOK, Placed
  <2>2. QED
    BY <1>2, <1>4, <2>1, EndOfType DEF Pos, EndOf
<1>6. TypeOK'
  BY <1>2, <1>3, <1>4 DEF TypeOK
<1>7. Framed'
  BY <1>2, <1>4 DEF Framed, EndOf
<1>8. Placed'
  <2>1. Len(recv_buffer) \in Nat /\ Len(wire) \in Nat
    BY <1>2 DEF TypeOK
  <2>2. Pos + Len(recv_buffer') + Len(wire') = Pos + Len(recv_buffer) + Len(wire)
    BY <1>3, <1>5, <2>1
  <2>3. Window(recv_buffer, Pos)' /\ Window(wire, Pos + Len(recv_buffer))'
    BY <1>3, <1>4, <1>5 DEF Window
  <2>4. QED
    BY <1>2, <1>4, <1>5, <2>2, <2>3 DEF Placed
<1>9. Control' /\ NothingParked'
  BY <1>1, <1>4 DEF IInv, Control, NothingParked, HasLF, ReadNoData
<1>10. QED
  BY <1>6, <1>7, <1>8, <1>9 DEF IInv
(* Nothing written, nothing received, nothing delivered.                    *)
LEMMA FreshConnection ==
  ASSUME wire = <<>>, stream = <<>>, ends = <<>>, delivered = <<>>, recv_buffer = <<>>
  PROVE  Framed /\ Placed
<1>1. Len(ends) = 0 /\ Len(stream) = 0 /\ Len(wire) = 0 /\ Len(recv_buffer) = 0
      /\ Len(delivered) = 0
  OBVIOUS
<1>2. Framed
  BY <1>1, PeerLinesFit DEF Framed, EndOf
<1>3. Placed
  BY <1>1 DEF Placed, Pos, EndOf, Window
<1>4. QED
  BY <1>2, <1>3

LEMMA InitIInv == Init => IInv
<1> SUFFICES ASSUME Init PROVE IInv
  OBVIOUS
<1>1. Framed /\ Placed
  BY FreshConnection DEF Init
<1>2. TypeOK
  <2>1. <<>> \in Seq(Byte) /\ <<>> \in Seq(1..0) /\ <<>> \in Seq(Seq(Byte)) /\ Len(<<>>) = 0
    BY EmptySeq
  <2>2. Capacity \in Nat /\ MaxBytes \in Nat
    BY RecvSizeIsSize, MaxBytesIsNat DEF Capacity
  <2>3. sockfd \in BOOLEAN /\ connected \in BOOLEAN /\ pc \in {"select", "drain"}
        /\ peer \in {"none", "open", "closed", "reset"}
    BY DEF Init
  <2>4. recv_buffer = <<>> /\ wire = <<>> /\ stream = <<>> /\ ends = <<>> /\ delivered = <<>>
    BY DEF Init
  <2>5. QED
    BY <2>1, <2>2, <2>3, <2>4 DEF TypeOK
<1>3. Control /\ NothingParked
  BY DEF Init, Control, NothingParked
<1>4. QED
  BY <1>1, <1>2, <1>3 DEF IInv

LEMMA ConnectKeepsIInv ==
  ASSUME IInv, ConnectOk \/ ConnectFails
  PROVE  IInv'
<1>1. /\ wire' = <<>> /\ stream' = <<>> /\ ends' = <<>> /\ delivered' = <<>>
      /\ pc' = pc /\ pc = "select" /\ ~connected
  BY DEF ConnectOk, ConnectFails, NewConnection
<1>2. recv_buffer' = <<>>
  BY DEF ConnectOk, ConnectFails, IInv, Control
<1>3. TypeOK'
  <2>1. <<>> \in Seq(Byte) /\ <<>> \in Seq(1..0) /\ <<>> \in Seq(Seq(Byte)) /\ Len(<<>>) = 0
    BY EmptySeq
  <2>2. Capacity \in Nat /\ MaxBytes \in Nat
    BY RecvSizeIsSize, MaxBytesIsNat DEF Capacity
  <2>3. sockfd' \in BOOLEAN /\ connected' \in BOOLEAN /\ pc' \in {"select", "drain"}
        /\ peer' \in {"none", "open", "closed", "reset"}
    BY DEF IInv, TypeOK, ConnectOk, ConnectFails
  <2>4. QED
    BY <1>1, <1>2, <2>1, <2>2, <2>3 DEF TypeOK
<1>4. Framed'
  <2>1. Len(ends') = 0 /\ Len(stream') = 0
    BY <1>1
  <2>2. QED
    BY <2>1, PeerLinesFit DEF Framed, EndOf
<1>5. Placed'
  BY <1>1, <1>2 DEF Placed, Pos, EndOf, Window
<1>6. Control' /\ NothingParked'
  <2>1. ~HasLF(recv_buffer')
    BY <1>2 DEF HasLF
  <2>2. QED
    BY <1>1, <1>2, <2>1 DEF Control, NothingParked, HasLF, ConnectOk, ConnectFails
<1>7. QED
  BY <1>3, <1>4, <1>5, <1>6 DEF IInv

LEMMA PeerResetKeepsIInv ==
  ASSUME IInv, PeerReset
  PROVE  IInv'
<1>1. /\ UNCHANGED <<sockfd, connected, recv_buffer, pc, stream, ends, delivered>>
      /\ peer' = "reset" /\ wire' \in {wire, <<>>}
  BY DEF PeerReset, local, history
<1>2. TypeOK'
  <2>1. wire' \in Seq(Byte)
    BY <1>1, EmptySeq DEF IInv, TypeOK
  <2>2. QED
    BY <1>1, <2>1 DEF IInv, TypeOK
<1>3. Framed'
  BY <1>1 DEF IInv, Framed, EndOf
<1>4. Placed'
  <2>1. Pos' = Pos
    BY <1>1 DEF Pos, EndOf
  <2>2. Window(recv_buffer, Pos)'
    BY <1>1, <2>1 DEF IInv, Placed, Window
  <2>3. Window(wire, Pos + Len(recv_buffer))'
    <3>1. CASE wire' = wire
      BY <1>1, <2>1, <3>1 DEF IInv, Placed, Window
    <3>2. CASE wire' = <<>>
      <4>1. Len(delivered) \in 0..Len(ends)
        BY DEF IInv, TypeOK, Placed
      <4>2. Pos \in Nat /\ Len(recv_buffer) \in Nat
        BY <4>1, EndOfType DEF IInv, TypeOK, Pos
      <4>3. Pos + Len(recv_buffer) + 0 <= Len(stream)
        BY <4>2 DEF IInv, Placed, Window
      <4>4. Len(wire') = 0
        BY <3>2
      <4>5. QED
        BY <1>1, <2>1, <4>3, <4>4 DEF Window
    <3>3. QED
      BY <1>1, <3>1, <3>2
  <2>4. QED
    BY <1>1, <2>2, <2>3 DEF IInv, Placed
<1>5. Control' /\ NothingParked'
  BY <1>1 DEF IInv, Control, NothingParked, HasLF
<1>6. QED
  BY <1>2, <1>3, <1>4, <1>5 DEF IInv

(* Steps that touch neither the stream nor the bytes in flight.             *)
LEMMA ControlStepKeepsIInv ==
  ASSUME IInv, PeerClose \/ SelectReadable \/ ReadLost \/ UNCHANGED vars
  PROVE  IInv'
<1>1. UNCHANGED <<recv_buffer, wire, stream, ends, delivered>>
  BY DEF PeerClose, SelectReadable, ReadLost, vars, local, history
<1>2. TypeOK'
  BY <1>1 DEF IInv, TypeOK, PeerClose, SelectReadable, ReadLost, vars, local
<1>3. Framed'
  BY <1>1 DEF IInv, Framed, EndOf
<1>4. Placed'
  <2>1. peer' = "open" => peer = "open"
    BY DEF PeerClose, SelectReadable, ReadLost, vars
  <2>2. QED
    BY <1>1, <2>1 DEF IInv, Placed, Pos, EndOf, Window
<1>5. Control' /\ NothingParked'
  BY <1>1 DEF IInv, Control, NothingParked, HasLF, PeerClose, SelectReadable, ReadLost,
              vars, local
<1>6. QED
  BY <1>2, <1>3, <1>4, <1>5 DEF IInv

-----------------------------------------------------------------------------
(* The inductive invariant of the receive path.                             *)
THEOREM Invariance == Spec => []IInv
<1>1. Init => IInv
  BY InitIInv
<1>2. IInv /\ [Next]_vars => IInv'
  <2> SUFFICES ASSUME IInv, [Next]_vars PROVE IInv'
    OBVIOUS
  <2>1. ASSUME NEW b \in Byte, PeerSend(b) PROVE IInv'
    BY <2>1, PeerSendKeepsIInv
  <2>2. CASE PeerReset
    BY <2>2, PeerResetKeepsIInv
  <2>3. CASE ConnectOk \/ ConnectFails
    BY <2>3, ConnectKeepsIInv
  <2>4. CASE ReadOk
    BY <2>4, ReadOkStep
  <2>5. CASE ReadNoData
    BY <2>5, ReadNoDataKeepsIInv
  <2>6. CASE PeerClose \/ SelectReadable \/ ReadLost \/ UNCHANGED vars
    BY <2>6, ControlStepKeepsIInv
  <2>7. QED
    BY <2>1, <2>2, <2>3, <2>4, <2>5, <2>6 DEF Next, Peer, Reader
<1>3. QED
  BY <1>1, <1>2, PTL DEF Spec, SafeSpec

(* Every variable of network.c and of the wire keeps its type; the buffer   *)
(* never holds more than NETWORK_RECV_BUFFER_SIZE - 1 bytes.                *)
THEOREM TypeCorrect == Spec => []TypeOK
<1>1. IInv => TypeOK
  BY DEF IInv
<1>2. QED
  BY <1>1, Invariance, PTL

(* main waits in select() only when no complete line is in the buffer.      *)
THEOREM NeverParks == Spec => []NothingParked
<1>1. IInv => NothingParked
  BY DEF IInv
<1>2. QED
  BY <1>1, Invariance, PTL

(* A full buffer always holds a line to return, for every buffer size at    *)
(* least as large as the longest line of the emulator.                      *)
THEOREM NeverWedges == Spec => []NeverWedged
<1>1. IInv => NeverWedged
  <2> SUFFICES ASSUME IInv, Len(recv_buffer) = Capacity PROVE HasLF(recv_buffer)
    BY DEF NeverWedged
  <2> DEFINE d == Len(delivered)
  <2>1. /\ d \in Nat /\ Len(ends) \in Nat /\ d <= Len(ends) /\ Len(stream) \in Nat
        /\ Capacity \in Nat /\ PeerMaxLine \in Nat /\ PeerMaxLine <= Capacity
    BY PeerLinesFit, RecvSizeIsSize DEF IInv, TypeOK, Placed, Capacity
  <2>2. Pos = EndOf(d) /\ Pos \in Nat
    BY <2>1, EndOfType DEF IInv, Pos
  <2>3. /\ Pos + Capacity <= Len(stream)
        /\ \A i \in 1..Capacity : recv_buffer[i] = stream[Pos + i]
    BY DEF IInv, Placed, Window
  <2>4. d # Len(ends)
    <3>1. SUFFICES ASSUME d = Len(ends) PROVE FALSE
      OBVIOUS
    <3>2. Len(stream) < Pos + PeerMaxLine
      BY <2>2, <3>1 DEF IInv, Framed
    <3>3. QED
      BY <2>1, <2>2, <2>3, <3>2
  <2>5. d + 1 \in 1..Len(ends) /\ (d + 1) - 1 = d
    BY <2>1, <2>4
  <2>6. /\ EndOf(d) < ends[d + 1] /\ ends[d + 1] <= EndOf(d) + PeerMaxLine
        /\ stream[ends[d + 1]] = LF
    BY <2>5 DEF IInv, Framed
  <2>7. ends[d + 1] \in Nat
    BY <2>5, EndOfType DEF IInv
  <2> DEFINE e == ends[d + 1]
             p == e - Pos
  <2> HIDE DEF e
  <2>8. e \in Nat /\ Pos < e /\ e <= Pos + PeerMaxLine /\ stream[e] = LF
    BY <2>2, <2>6, <2>7 DEF e
  <2>9. p \in 1..Capacity /\ Pos + p = e
    BY <2>1, <2>2, <2>8
  <2>10. QED
    BY <2>3, <2>8, <2>9 DEF HasLF
<1>2. QED
  BY <1>1, Invariance, PTL
-----------------------------------------------------------------------------
LEMMA SubSeqOfAppend ==
  ASSUME NEW s \in Seq(Byte), NEW e \in Byte, NEW a \in Int, NEW z \in Int,
         a >= 1, z <= Len(s)
  PROVE  /\ SubSeq(Append(s, e), a, z) = SubSeq(s, a, z)
         /\ SubSeq(s, a, z) \in Seq(Byte)
         /\ Len(SubSeq(s, a, z)) = IF a <= z THEN z - a + 1 ELSE 0
         /\ \A i \in 1..(z - a + 1) : SubSeq(s, a, z)[i] = s[a + i - 1]
<1> DEFINE t == Append(s, e)
<1>1. t \in Seq(Byte) /\ \A i \in 1..Len(s) : t[i] = s[i]
  BY AppendProperties
<1>2. \A i \in a..z : i \in 1..Len(s) /\ s[i] \in Byte
  BY ElementOfSeq, LenProperties
<1> HIDE DEF t
<1>3. \A i \in a..z : t[i] = s[i] /\ t[i] \in Byte
  BY <1>1, <1>2
<1>4. /\ SubSeq(s, a, z) \in Seq(Byte)
      /\ Len(SubSeq(s, a, z)) = IF a <= z THEN z - a + 1 ELSE 0
      /\ \A i \in 1..(z - a + 1) : SubSeq(s, a, z)[i] = s[a + i - 1]
  BY <1>2, SubSeqProperties
<1>5. /\ SubSeq(t, a, z) \in Seq(Byte)
      /\ Len(SubSeq(t, a, z)) = IF a <= z THEN z - a + 1 ELSE 0
      /\ \A i \in 1..(z - a + 1) : SubSeq(t, a, z)[i] = t[a + i - 1]
  BY <1>3, SubSeqProperties
<1>6. SubSeq(t, a, z) = SubSeq(s, a, z)
  <2>1. \A i \in 1..(z - a + 1) : a + i - 1 \in a..z
    OBVIOUS
  <2>2. \A i \in 1..Len(SubSeq(t, a, z)) : SubSeq(t, a, z)[i] = SubSeq(s, a, z)[i]
    BY <1>3, <1>4, <1>5, <2>1
  <2>3. QED
    BY <1>4, <1>5, <2>2, SeqEqual
<1>7. QED
  BY <1>4, <1>6 DEF t

(* An emulator's byte either extends the line it is writing or completes    *)
(* it: the lines completed before stay what they were.                      *)
LEMMA PeerSendWritten ==
  ASSUME IInv, NEW b \in Byte, PeerSend(b)
  PROVE  \/ Written' = Written
         \/ \E l \in Line : Written' = Append(Written, l)
<1> DEFINE L == Len(stream)
           E == Len(ends)
<1>1. /\ stream \in Seq(Byte) /\ ends \in Seq(1..L) /\ L \in Nat /\ E \in Nat
      /\ stream' = Append(stream, b)
  BY DEF IInv, TypeOK, PeerSend
<1>2. \A k \in 0..E : EndOf(k) \in Nat /\ EndOf(k) <= L
  <2>1. \A k \in 0..E : EndOf(k) \in Nat /\ (k > 0 => EndOf(k) \in 1..L)
    BY EndOfType DEF IInv
  <2>2. EndOf(0) = 0
    BY DEF EndOf
  <2>3. QED
    BY <1>1, <2>1, <2>2
<1>3. ASSUME NEW k \in 1..E
      PROVE  /\ SubSeq(stream', EndOf(k - 1) + 1, EndOf(k) - 1)
                   = SubSeq(stream, EndOf(k - 1) + 1, EndOf(k) - 1)
             /\ SubSeq(stream, EndOf(k - 1) + 1, EndOf(k) - 1) \in Seq(Byte)
  <2> DEFINE a == EndOf(k - 1) + 1
             z == EndOf(k) - 1
  <2>1. k - 1 \in 0..E /\ k \in 0..E
    BY <1>1
  <2>2. a \in Int /\ z \in Int /\ a >= 1 /\ z <= Len(stream)
    <3>1. EndOf(k - 1) \in Nat /\ EndOf(k) \in Nat /\ EndOf(k) <= L /\ L \in Nat
      BY <1>1, <1>2, <2>1
    <3>2. QED
      BY ONLY <3>1
  <2> HIDE DEF a, z
  <2>3. SubSeq(stream', a, z) = SubSeq(stream, a, z) /\ SubSeq(stream, a, z) \in Seq(Byte)
    BY <1>1, <2>2, SubSeqOfAppend
  <2>4. QED
    BY <2>3 DEF a, z
<1>4. CASE b # LF
  <2>1. ends' = ends
    BY <1>4 DEF PeerSend
  <2>2. Written' = [k \in 1..E |-> SubSeq(stream', EndOf(k - 1) + 1, EndOf(k) - 1)]
    BY <2>1 DEF Written, EndOf
  <2>3. Written = [k \in 1..E |-> SubSeq(stream, EndOf(k - 1) + 1, EndOf(k) - 1)]
    BY DEF Written
  <2> HIDE DEF E
  <2>4. QED
    BY <1>3, <2>2, <2>3
<1>5. CASE b = LF
  <2> DEFINE l == SubSeq(stream, EndOf(E) + 1, L)
  <2>1. /\ ends' = Append(ends, L + 1)
        /\ Len(ends') = E + 1 /\ ends'[E + 1] = L + 1
        /\ \A k \in 1..E : ends'[k] = ends[k]
    <3>1. ends \in Seq(Nat) /\ L + 1 \in Nat
      <4>1. 1..L \subseteq Nat
        BY <1>1
      <4>2. QED
        BY <1>1, <4>1, SeqMonotonic
    <3>2. ends' = Append(ends, L + 1)
      BY <1>5 DEF PeerSend
    <3>3. QED
      BY <3>1, <3>2, AppendProperties
  <2>2. /\ SubSeq(stream', EndOf(E) + 1, L) = l
        /\ l \in Seq(Byte)
        /\ Len(l) = L - EndOf(E)
        /\ \A i \in 1..(L - EndOf(E)) : l[i] = stream[EndOf(E) + i]
    <3> DEFINE a == EndOf(E) + 1
    <3>1. EndOf(E) \in Nat /\ EndOf(E) <= L /\ a \in Int /\ L \in Int /\ a >= 1
      <4>1. E \in 0..E
        BY <1>1
      <4>2. QED
        BY <1>1, <1>2, <4>1
    <3>2. /\ SubSeq(stream', a, L) = SubSeq(stream, a, L)
          /\ SubSeq(stream, a, L) \in Seq(Byte)
          /\ Len(SubSeq(stream, a, L)) = IF a <= L THEN L - a + 1 ELSE 0
          /\ \A i \in 1..(L - a + 1) : SubSeq(stream, a, L)[i] = stream[a + i - 1]
      <4> HIDE DEF a
      <4>1. QED
        BY <1>1, <3>1, SubSeqOfAppend
    <3>3. /\ L - a + 1 = L - EndOf(E)
          /\ (IF a <= L THEN L - a + 1 ELSE 0) = L - EndOf(E)
          /\ \A i \in 1..(L - EndOf(E)) : a + i - 1 = EndOf(E) + i
      BY ONLY <3>1
    <3>4. QED
      BY <3>2, <3>3
  <2> HIDE DEF l
  <2>3. l \in Line
    <3>1. EndOf(E) \in Nat /\ EndOf(E) <= L /\ L < EndOf(E) + PeerMaxLine
      <4>1. E \in 0..E
        BY <1>1
      <4>2. QED
        BY <1>1, <1>2, <4>1 DEF IInv, Framed
    <3>2. \A i \in (EndOf(E) + 1)..L : stream[i] # LF
      BY DEF IInv, Framed
    <3>3. \A i \in 1..Len(l) : l[i] \in Byte \ {LF}
      <4>1. \A i \in 1..Len(l) : l[i] \in Byte
        BY <2>2, ElementOfSeq
      <4>2. \A i \in 1..(L - EndOf(E)) : EndOf(E) + i \in (EndOf(E) + 1)..L
        BY <1>1, <3>1
      <4>3. QED
        BY <2>2, <3>2, <4>1, <4>2
    <3>4. Len(l) \in 0..(PeerMaxLine - 1)
      BY <1>1, <2>2, <3>1, PeerLinesFit
    <3>5. l \in [1..Len(l) -> Byte \ {LF}]
      BY <2>2, <3>3, LenProperties
    <3>6. QED
      BY <3>4, <3>5 DEF Line
  <2>4. Written \in Seq(Seq(Byte)) /\ Len(Written) = E
    BY <1>1, <1>3 DEF Written
  <2>5. Written' = [k \in 1..(E + 1) |->
                     IF k = E + 1 THEN l
                     ELSE SubSeq(stream, EndOf(k - 1) + 1, EndOf(k) - 1)]
    <3>1. Written' = [k \in 1..(E + 1) |->
                       SubSeq(stream', EndOf(k - 1)' + 1, EndOf(k)' - 1)]
      BY <2>1 DEF Written
    <3>2. ASSUME NEW k \in 1..(E + 1)
          PROVE  SubSeq(stream', EndOf(k - 1)' + 1, EndOf(k)' - 1)
                  = IF k = E + 1 THEN l
                    ELSE SubSeq(stream, EndOf(k - 1) + 1, EndOf(k) - 1)
      <4>0. \A j \in 0..E : EndOf(j)' = EndOf(j)
        BY <1>1, <2>1 DEF EndOf
      <4>1. k - 1 \in 0..E
        BY <1>1
      <4>2. CASE k = E + 1
        <5>1. k - 1 = E /\ EndOf(k - 1)' = EndOf(k - 1)
          BY <1>1, <4>0, <4>1, <4>2
        <5>2. EndOf(k)' = L + 1 /\ (L + 1) - 1 = L
          BY <1>1, <2>1, <4>2 DEF EndOf
        <5>3. QED
          BY <2>2, <4>2, <5>1, <5>2
      <4>3. CASE k # E + 1
        <5>1. k \in 1..E /\ k \in 0..E
          BY <1>1, <4>3
        <5>2. QED
          BY <1>3, <4>0, <4>1, <4>3, <5>1
      <4>4. QED
        BY <4>2, <4>3
    <3> HIDE DEF E
    <3>3. QED
      BY <3>1, <3>2
  <2>6. Append(Written, l) = [k \in 1..(E + 1) |->
                               IF k = E + 1 THEN l
                               ELSE SubSeq(stream, EndOf(k - 1) + 1, EndOf(k) - 1)]
    <3>1. Written = [k \in 1..E |-> SubSeq(stream, EndOf(k - 1) + 1, EndOf(k) - 1)]
      BY DEF Written
    <3> DEFINE A == Append(Written, l)
    <3>2. /\ A \in Seq(Seq(Byte)) /\ Len(A) = E + 1 /\ A[E + 1] = l
          /\ \A k \in 1..E : A[k] = Written[k]
      BY <2>2, <2>4, AppendProperties
    <3> HIDE DEF E, A
    <3>3. A = [k \in 1..(E + 1) |-> A[k]]
      BY <3>2, LenProperties
    <3>4. \A k \in 1..(E + 1) : k = E + 1 \/ k \in 1..E
      BY <1>1
    <3>5. \A k \in 1..(E + 1) :
            A[k] = IF k = E + 1 THEN l
                   ELSE SubSeq(stream, EndOf(k - 1) + 1, EndOf(k) - 1)
      BY <3>1, <3>2, <3>4
    <3>6. QED
      BY <3>3, <3>5 DEF A
  <2>7. QED
    BY <2>3, <2>5, <2>6
<1>6. QED
  BY <1>4, <1>5

LEMMA InitWritten ==
  ASSUME ends = <<>> PROVE Written = <<>>
<1>1. Len(ends) = 0
  OBVIOUS
<1>2. QED
  BY <1>1 DEF Written

(* The receive path implements LineStream: every connection delivers the    *)
(* emulator's lines in order, each once and cut as promised.                *)
THEOREM Implements == Spec => LS!SafeSpec
<1>1. Init => LS!Init
  BY InitWritten DEF Init, LS!Init
<1>2. IInv /\ [Next]_vars => [LS!Next]_(LS!vars)
  <2> SUFFICES ASSUME IInv, [Next]_vars PROVE [LS!Next]_(LS!vars)
    OBVIOUS
  <2> USE DEF LS!vars
  <2>1. ASSUME NEW b \in Byte, PeerSend(b) PROVE [LS!Next]_(LS!vars)
    <3>1. UNCHANGED <<delivered, connected>> /\ connected
      BY <2>1 DEF PeerSend, local, IInv, Control
    <3>2. CASE Written' = Written
      BY <3>1, <3>2
    <3>3. CASE \E l \in Line : Written' = Append(Written, l)
      BY <3>1, <3>3 DEF LS!Next, LS!Write
    <3>4. QED
      BY <2>1, <3>2, <3>3, PeerSendWritten
  <2>2. CASE ConnectOk
    <3>1. ends' = <<>> /\ delivered' = <<>> /\ ~connected /\ connected'
      BY <2>2 DEF ConnectOk, NewConnection
    <3>2. Written' = <<>>
      BY <3>1 DEF Written
    <3>3. QED
      BY <3>1, <3>2 DEF LS!Next, LS!Open
  <2>3. CASE ConnectFails
    <3>1. ends' = <<>> /\ delivered' = <<>> /\ ~connected /\ connected' = connected
      BY <2>3 DEF ConnectFails, NewConnection
    <3>2. Written' = <<>>
      BY <3>1 DEF Written
    <3>3. QED
      BY <3>1, <3>2 DEF LS!Next, LS!Forget
  <2>4. CASE ReadOk
    <3>1. /\ Len(delivered) + 1 \in 1..Len(ends)
          /\ delivered' = Append(delivered, Cut(Written[Len(delivered) + 1]))
      BY <2>4, ReadOkStep
    <3>2. Written' = Written
      BY <2>4 DEF ReadOk, Written, EndOf
    <3>3. connected /\ connected' = connected
      BY <2>4 DEF ReadOk, IInv, Control
    <3>4. Len(Written) = Len(ends) /\ Len(delivered) < Len(ends)
      <4>1. Len(ends) \in Nat /\ Len(delivered) \in Nat
        BY DEF IInv, TypeOK
      <4>2. QED
        BY <3>1, <4>1 DEF Written
    <3>5. Len(delivered) < Len(Written)
      BY <3>4
    <3>6. LS!Deliver
      <4>1. LS!Cut(Written[Len(delivered) + 1]) = Cut(Written[Len(delivered) + 1])
        BY DEF Cut, LS!Cut, Truncate, LS!Truncate, StripCR, LS!StripCR
      <4>2. QED
        BY <3>1, <3>2, <3>3, <3>5, <4>1 DEF LS!Deliver
    <3>7. QED
      BY <3>6 DEF LS!Next
  <2>5. CASE ReadLost
    <3>1. UNCHANGED <<Written, delivered>> /\ connected /\ connected' = FALSE
      BY <2>5 DEF ReadLost, history, Written, EndOf, IInv, Control
    <3>2. QED
      BY <3>1 DEF LS!Next, LS!Lose
  <2>6. CASE PeerClose \/ PeerReset \/ SelectReadable \/ ReadNoData \/ UNCHANGED vars
    <3>1. UNCHANGED <<stream, ends, delivered, connected>>
      BY <2>6 DEF PeerClose, PeerReset, SelectReadable, ReadNoData, vars, local, history
    <3>2. Written' = Written
      BY <3>1 DEF Written, EndOf
    <3>3. QED
      BY <3>1, <3>2
  <2>7. QED
    BY <2>1, <2>2, <2>3, <2>4, <2>5, <2>6 DEF Next, Peer, Reader
<1>3. QED
  BY <1>1, <1>2, Invariance, PTL DEF Spec, SafeSpec, LS!SafeSpec
=============================================================================
