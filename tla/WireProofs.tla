----------------------------- MODULE WireProofs -----------------------------
(***************************************************************************)
(* For packets and socket buffers of any size: the session's packet buffer *)
(* never overflows, the edge-triggered engine never sleeps on data or on   *)
(* the end of a connection, and until a packet is torn the connection is   *)
(* a queue of packets.                                                     *)
(***************************************************************************)
EXTENDS Wire, SequenceTheorems, TLAPS

\* A slice of a packet is a sequence of bytes, as long as it says.
LEMMA SliceIsBytes ==
  ASSUME NEW p \in Packets, NEW from \in Nat, NEW to \in Nat,
         from <= to, to <= PACKET_SIZE
  PROVE  Slice(p, from, to) \in Seq(Byte) /\ Len(Slice(p, from, to)) = to - from
<1>1. \A i \in 1..(to - from) : <<p, from + i>> \in Byte
  BY SizeAssumption DEF Byte
<1>2. to - from \in Nat
  OBVIOUS
<1> QED
  BY <1>1, <1>2 DEF Slice

\* Cutting a sequence of bytes in two.
LEMMA CutBytes ==
  ASSUME NEW s \in Seq(Byte), NEW k \in 0..Len(s)
  PROVE  /\ SubSeq(s, 1, k) \in Seq(Byte) /\ Len(SubSeq(s, 1, k)) = k
         /\ SubSeq(s, k + 1, Len(s)) \in Seq(Byte)
         /\ Len(SubSeq(s, k + 1, Len(s))) = Len(s) - k
<1>1. Len(s) \in Nat /\ s \in [1..Len(s) -> Byte]
  BY LenProperties
<1>2. SubSeq(s, 1, k) \in Seq(Byte) /\ Len(SubSeq(s, 1, k)) = k
  BY <1>1
<1>3. SubSeq(s, k + 1, Len(s)) \in Seq(Byte)
      /\ Len(SubSeq(s, k + 1, Len(s))) = Len(s) - k
  <2>1. PICK m \in Int : m = k + 1
    BY <1>1
  <2>2. \A i \in m..Len(s) : s[i] \in Byte
    BY <1>1, <2>1
  <2>3. /\ SubSeq(s, m, Len(s)) \in Seq(Byte)
        /\ Len(SubSeq(s, m, Len(s))) =
             IF m <= Len(s) THEN Len(s) - m + 1 ELSE 0
    BY <1>1, <2>2, SubSeqProperties
  <2>4. Len(SubSeq(s, m, Len(s))) = Len(s) - k
    <3>1. PICK n \in Nat : n = Len(s)
      BY <1>1
    <3>2. k \in 0..n
      BY <3>1
    <3>3. (IF m <= n THEN n - m + 1 ELSE 0) = n - k
      BY ONLY <2>1, <3>2, n \in Nat
    <3> QED
      BY ONLY <2>3, <3>1, <3>3
  <2> QED
    BY ONLY <2>1, <2>3, <2>4
<1> QED
  BY <1>2, <1>3

\* The bytes of a packet.
LEMMA WholeIsBytes ==
  ASSUME NEW p \in Packets
  PROVE  Whole(p) \in Seq(Byte) /\ Len(Whole(p)) = PACKET_SIZE
<1>1. PICK z \in Nat : z = 0
  OBVIOUS
<1>2. PACKET_SIZE \in Nat /\ z <= PACKET_SIZE /\ PACKET_SIZE - z = PACKET_SIZE
  BY <1>1, SizeAssumption
<1>3. Slice(p, z, PACKET_SIZE) \in Seq(Byte) /\ Len(Slice(p, z, PACKET_SIZE)) = PACKET_SIZE
  BY <1>2, SliceIsBytes
<1> QED
  BY <1>1, <1>3 DEF Whole

LEMMA InitTyped == Init => TypeOK
<1> SUFFICES ASSUME Init PROVE TypeOK
  OBVIOUS
<1>1. PICK p \in Packets : out = Slice(p, 0, PACKET_SIZE)
  BY DEF Init, Whole
<1>2. out \in Seq(Byte) /\ Len(out) = PACKET_SIZE
  BY <1>1, SliceIsBytes, SizeAssumption
<1>3. Room >= 0 /\ Len(packet_buffer) < PACKET_SIZE
  BY SizeAssumption DEF Init, Room
<1>4. total_sent \in 0..PACKET_SIZE /\ tries \in 0..MaxPackets
      /\ timeouts \in 0..MaxTimeouts
  BY SizeAssumption, LimitAssumption DEF Init
<1>5. sent \in Seq(Packets) /\ net \in Seq(Byte) /\ rcv \in Seq(Byte)
      /\ packet_buffer \in Seq(Byte)
  BY DEF Init
<1>6. edge \in BOOLEAN /\ interest \in {"in", "inout"}
  BY DEF Init
<1> QED
  BY <1>2, <1>3, <1>4, <1>5, <1>6 DEF Init, TypeOK

\* send hands over no more bytes than the packet has and the socket takes.
LEMMA SendBytesTyped ==
  ASSUME TypeOK, NEW p \in Packets, NEW k \in 1..PACKET_SIZE, SendBytes(p, k)
  PROVE  TypeOK'
<1> USE SizeAssumption
<1>1. total_sent \in Nat /\ k \in Nat /\ total_sent + k <= PACKET_SIZE
      /\ k <= Room
  BY DEF TypeOK, SendBytes
<1>2. Slice(p, total_sent, total_sent + k) \in Seq(Byte)
      /\ Len(Slice(p, total_sent, total_sent + k)) = k
  <2>1. PICK to \in Nat : to = total_sent + k
    BY <1>1
  <2>2. total_sent <= to /\ to <= PACKET_SIZE /\ to - total_sent = k
    BY <1>1, <2>1
  <2> QED
    BY <1>1, <2>1, <2>2, SliceIsBytes
<1>3. net' \in Seq(Byte) /\ Len(net') = Len(net) + k
  BY <1>2, ConcatProperties DEF TypeOK, SendBytes
<1>4. Room' >= 0
  <2>1. Len(net) \in Nat /\ Len(rcv) \in Nat /\ rcv' = rcv
    BY LenProperties DEF TypeOK, SendBytes
  <2> QED
    BY <1>1, <1>3, <2>1 DEF Room
<1>5. sent' \in Seq(Packets)
  <2>1. sent' = Append(sent, p) \/ sent' = sent
    BY DEF SendBytes
  <2>2. sent \in Seq(Packets) /\ Append(sent, p) \in Seq(Packets)
    BY AppendProperties DEF TypeOK
  <2> QED
    BY <2>1, <2>2
<1>6. total_sent' \in 0..PACKET_SIZE
  BY <1>1 DEF SendBytes
<1>7. sending' \in BOOLEAN
  BY DEF SendBytes
<1> QED
  BY <1>3, <1>4, <1>5, <1>6, <1>7 DEF TypeOK, SendBytes, recvVars

LEMMA ArriveTyped ==
  ASSUME TypeOK, NEW k \in 1..BufferSize, Arrive(k)
  PROVE  TypeOK'
<1> USE SizeAssumption
<1>1. Len(net) \in Nat /\ Len(rcv) \in Nat /\ k \in 0..Len(net)
  BY LenProperties DEF TypeOK, Arrive
<1>2. net' \in Seq(Byte) /\ Len(net') = Len(net) - k
  BY <1>1, CutBytes DEF TypeOK, Arrive
<1>3. SubSeq(net, 1, k) \in Seq(Byte) /\ Len(SubSeq(net, 1, k)) = k
  BY <1>1, CutBytes DEF TypeOK
<1>4. rcv' \in Seq(Byte) /\ Len(rcv') = Len(rcv) + k
  BY <1>3, ConcatProperties DEF TypeOK, Arrive
<1>5. Room' >= 0
  BY <1>1, <1>2, <1>4 DEF Room, TypeOK
<1> QED
  BY <1>2, <1>4, <1>5 DEF TypeOK, Arrive, sendVars, recvVars

\* recv asks for no more than what is missing of the packet.
LEMMA RecvTyped ==
  ASSUME TypeOK, Recv
  PROVE  TypeOK'
<1> USE SizeAssumption
<1>1. Len(net) \in Nat /\ Len(rcv) \in Nat /\ Len(packet_buffer) \in Nat
  BY LenProperties DEF TypeOK
<1>2. Taken \in 0..Len(rcv) /\ Len(packet_buffer) + Taken <= PACKET_SIZE
  BY <1>1 DEF TypeOK, Taken
<1>3. SubSeq(rcv, 1, Taken) \in Seq(Byte) /\ Len(SubSeq(rcv, 1, Taken)) = Taken
  BY <1>2, CutBytes DEF TypeOK
<1>4. rcv' \in Seq(Byte) /\ Len(rcv') = Len(rcv) - Taken
  BY <1>2, CutBytes DEF TypeOK, Recv
<1>5. Filled \in Seq(Byte) /\ Len(Filled) = Len(packet_buffer) + Taken
  BY <1>3, ConcatProperties DEF TypeOK, Filled
<1>6. Room' >= 0
  <2>1. net' = net
    BY DEF Recv
  <2> QED
    BY <1>1, <1>2, <1>4, <2>1 DEF Room, TypeOK
<1>7. packet_buffer' \in Seq(Byte) /\ Len(packet_buffer') < PACKET_SIZE
  <2>1. \/ packet_buffer' = << >>
        \/ packet_buffer' = Filled /\ Len(Filled) # PACKET_SIZE
    BY DEF Recv
  <2>2. CASE packet_buffer' = << >>
    BY <2>2
  <2>3. CASE packet_buffer' = Filled /\ Len(Filled) # PACKET_SIZE
    <3>1. Len(Filled) < PACKET_SIZE
      BY <1>1, <1>2, <1>5, <2>3
    <3> QED
      BY <1>5, <2>3, <3>1
  <2> QED
    BY <2>1, <2>2, <2>3
<1>8. out' \in Seq(Byte) /\ Len(out') = PACKET_SIZE /\ handled' \in Nat
  BY <1>5 DEF Recv, TypeOK
<1> QED
  BY <1>4, <1>6, <1>7, <1>8 DEF TypeOK, Recv, sendVars

LEMMA StepTyped == TypeOK /\ [Next]_vars => TypeOK'
<1> SUFFICES ASSUME TypeOK, [Next]_vars PROVE TypeOK'
  OBVIOUS
<1>1. CASE StartSend
  <2>1. total_sent' \in 0..PACKET_SIZE /\ tries' \in 0..MaxPackets
    BY <1>1, SizeAssumption, LimitAssumption DEF TypeOK, StartSend
  <2>2. Room' = Room
    BY <1>1 DEF StartSend, Room
  <2> QED
    BY <1>1, <2>1, <2>2 DEF TypeOK, StartSend, recvVars
<1>2. CASE GiveUp
  <2>1. timeouts' \in 0..MaxTimeouts
    BY <1>2, LimitAssumption DEF TypeOK, GiveUp
  <2>2. torn' \in BOOLEAN
    BY <1>2 DEF GiveUp
  <2>3. Room' = Room
    BY <1>2 DEF GiveUp, Room
  <2> QED
    BY <1>2, <2>1, <2>2, <2>3 DEF TypeOK, GiveUp, recvVars
<1>3. CASE Close
  BY <1>3 DEF TypeOK, Close, Room, recvVars
<1>4. CASE Reset
  BY <1>4, SizeAssumption DEF TypeOK, Reset, Room, sendVars, recvVars
<1>5. CASE SendError
  BY <1>5 DEF TypeOK, SendError, Room, recvVars
<1>6. CASE ArriveEnd
  BY <1>6 DEF TypeOK, ArriveEnd, Room, sendVars, recvVars
<1>7. CASE EpollWait
  BY <1>7 DEF TypeOK, EpollWait, Room, sendVars
<1>8. CASE Writable
  BY <1>8 DEF TypeOK, Writable, Room, sendVars
<1>9. CASE RecvNothing
  BY <1>9 DEF TypeOK, RecvNothing, Room, sendVars
<1>10. CASE UNCHANGED vars
  BY <1>10 DEF TypeOK, vars, Room
<1> QED
  BY <1>1, <1>2, <1>3, <1>4, <1>5, <1>6, <1>7, <1>8, <1>9, <1>10,
     SendBytesTyped, ArriveTyped, RecvTyped
     DEF Next, Sender, Network, Engine

\* NoLostEdge is inductive: whoever makes the socket readable sets the edge,
\* and the engine consumes an edge only to read until nothing is left, or to
\* re-arm the session.
LEMMA EdgeKept == TypeOK /\ NoLostEdge /\ [Next]_vars => NoLostEdge'
<1> SUFFICES ASSUME TypeOK, NoLostEdge, [Next]_vars PROVE NoLostEdge'
  OBVIOUS
<1> USE DEF NoLostEdge, Readable
<1>1. CASE StartSend \/ GiveUp \/ SendError
  BY <1>1 DEF StartSend, GiveUp, SendError, recvVars
<1>2. CASE Close
  BY <1>2 DEF Close, recvVars
<1>3. CASE Reset \/ ArriveEnd
  BY <1>3 DEF Reset, ArriveEnd
<1>4. ASSUME NEW p \in Packets, NEW k \in 1..PACKET_SIZE, SendBytes(p, k)
      PROVE  NoLostEdge'
  BY <1>4 DEF SendBytes, recvVars
<1>5. ASSUME NEW k \in 1..BufferSize, Arrive(k)
      PROVE  NoLostEdge'
  BY <1>5 DEF Arrive
<1>6. CASE EpollWait
  BY <1>6 DEF EpollWait
<1>7. CASE Writable
  BY <1>7 DEF Writable
<1>8. CASE Recv
  BY <1>8 DEF Recv
<1>9. CASE RecvNothing
  BY <1>9 DEF RecvNothing
<1>10. CASE UNCHANGED vars
  BY <1>10 DEF vars
<1> QED
  BY <1>1, <1>2, <1>3, <1>4, <1>5, <1>6, <1>7, <1>8, <1>9, <1>10
     DEF Next, Sender, Network, Engine

----------------------------------------------------------------------------
(* The stream of bytes.  As long as no packet is torn, what has been sent   *)
(* and not handled is found, byte by byte, in the packet buffer, in the     *)
(* socket and in the network, in this order.                                *)

Stream == packet_buffer \o rcv \o net

\* Where byte b of packet a is in the stream, if h packets were handled.
Place(a, h, b) == (a - h - 1) * PACKET_SIZE + b

\* The stream s has the packets pk from the h-th on, as far as it goes.
Carries(s, h, pk) ==
  \A a \in (h + 1)..Len(pk), b \in 1..PACKET_SIZE :
    Place(a, h, b) <= Len(s) => s[Place(a, h, b)] = <<pk[a], b>>

\* The last byte that was sent belongs to the last packet; total_sent is 0
\* from the call of send_all_nonblocking until its first byte is sent.
LastByte == IF total_sent = 0 THEN PACKET_SIZE ELSE total_sent

InStep ==
  /\ total_sent > 0 => Len(sent) > 0
  /\ handled <= Len(sent)
  /\ Len(Stream) = Place(Len(sent), handled, LastByte)
  /\ Carries(Stream, handled, sent)

StreamInv ==
  /\ TypeOK
  /\ Len(sent) <= tries
  /\ sending /\ total_sent = 0 => Len(sent) < tries
  /\ link = "reset" => net = << >> /\ rcv = << >>
  /\ sending => total_sent < PACKET_SIZE
  /\ ~torn /\ link = "open" /\ ~sending => total_sent \in {0, PACKET_SIZE}
  /\ ~torn /\ link # "reset" => InStep

\* All that is needed of the multiplication.
LEMMA Places ==
  ASSUME NEW a \in Int, NEW h \in Int, NEW b \in Int
  PROVE  /\ Place(a, h, b) \in Int
         /\ Place(a, h, b) = Place(a, h, 0) + b
         /\ Place(h + 1, h, b) = b
         /\ Place(a + 1, h, b) = Place(a, h, b) + PACKET_SIZE
         /\ Place(a, h + 1, b) = Place(a, h, b) - PACKET_SIZE
         /\ \A c \in Int : a < c => Place(a, h, b) + PACKET_SIZE <= Place(c, h, b)
<1> USE SizeAssumption DEF Place
<1>1. PICK P \in Nat : P = PACKET_SIZE
  OBVIOUS
<1>2. \A x \in Int : /\ x * P \in Int
                     /\ (x + 1) * P = x * P + P
                     /\ (x - 1) * P = x * P - P
  OBVIOUS
<1>3. ASSUME NEW c \in Int, a < c PROVE Place(a, h, b) + PACKET_SIZE <= Place(c, h, b)
  <2>1. PICK d \in Nat : c = a + 1 + d
    <3>1. c - a - 1 \in Nat /\ c = a + 1 + (c - a - 1)
      BY <1>3
    <3> QED
      BY <3>1
  <2>2. d * P \in Nat /\ (c - h - 1) * P = (a - h - 1) * P + P + d * P
    BY <2>1
  <2> QED
    BY <1>1, <1>2, <2>2
<1>4. /\ a - h - 1 \in Int /\ (h + 1) - h - 1 = 0 /\ (a + 1) - h - 1 = (a - h - 1) + 1
      /\ a - (h + 1) - 1 = (a - h - 1) - 1
  OBVIOUS
<1>5. 0 * P = 0
  OBVIOUS
<1> QED
  BY <1>1, <1>2, <1>3, <1>4, <1>5

\* A packet of which nothing has been sent.
LEMMA CarriesNext ==
  ASSUME NEW s \in Seq(Byte), NEW h \in Nat, NEW pk \in Seq(Packets), NEW p \in Packets,
         Carries(s, h, pk), Len(s) = Place(Len(pk), h, PACKET_SIZE)
  PROVE  Carries(s, h, Append(pk, p))
<1> DEFINE new == Append(pk, p)
<1>1. /\ Len(pk) \in Nat /\ Len(new) = Len(pk) + 1
      /\ \A i \in 1..Len(pk) : new[i] = pk[i]
  BY AppendProperties
<1> HIDE DEF new
<1> SUFFICES ASSUME NEW a \in (h + 1)..Len(new), NEW b \in 1..PACKET_SIZE,
                    Place(a, h, b) <= Len(s)
             PROVE  s[Place(a, h, b)] = <<new[a], b>>
  BY DEF Carries, new
<1>2. a # Len(pk) + 1
  <2> SUFFICES ASSUME a = Len(pk) + 1 PROVE FALSE
    OBVIOUS
  <2>1. Place(a, h, b) = Place(Len(pk), h, b) + PACKET_SIZE
    BY <1>1, SizeAssumption, Places
  <2>2. /\ Place(Len(pk), h, b) = Place(Len(pk), h, 0) + b
        /\ Place(Len(pk), h, PACKET_SIZE) = Place(Len(pk), h, 0) + PACKET_SIZE
        /\ Place(Len(pk), h, 0) \in Int
    BY <1>1, SizeAssumption, Places
  <2> QED
    BY <2>1, <2>2, SizeAssumption
<1>3. a \in (h + 1)..Len(pk) /\ a \in 1..Len(pk)
  BY <1>1, <1>2
<1> QED
  BY <1>1, <1>3 DEF Carries

\* More bytes of the last packet.
LEMMA CarriesMore ==
  ASSUME NEW s \in Seq(Byte), NEW h \in Nat, NEW pk \in Seq(Packets), Len(pk) > 0,
         Carries(s, h, pk), NEW from \in Nat, NEW to \in Nat,
         from <= to, to <= PACKET_SIZE, Len(s) = Place(Len(pk), h, from)
  PROVE  LET new == s \o Slice(pk[Len(pk)], from, to)
         IN  Carries(new, h, pk) /\ Len(new) = Place(Len(pk), h, to)
<1> DEFINE l == Len(pk)
           sl == Slice(pk[l], from, to)
           new == s \o sl
<1>0. l \in Nat /\ l > 0 /\ pk[l] \in Packets /\ Len(s) \in Nat
  BY LenProperties, ElementOfSeq
<1>1. sl \in Seq(Byte) /\ Len(sl) = to - from
  BY <1>0, SliceIsBytes
<1>2. /\ Len(new) = Len(s) + (to - from)
      /\ \A i \in 1..(Len(s) + (to - from)) :
           new[i] = IF i <= Len(s) THEN s[i] ELSE sl[i - Len(s)]
  BY <1>1, ConcatProperties
<1>3. \A i \in 1..(to - from) : sl[i] = <<pk[l], from + i>>
  BY DEF Slice
<1> HIDE DEF l, sl, new
<1>4. PICK z \in Int : \A b \in Int : Place(l, h, b) = z + b
  <2>1. l \in Int /\ h \in Int /\ 0 \in Int
    BY <1>0
  <2>2. Place(l, h, 0) \in Int
    BY <2>1, Places
  <2>3. ASSUME NEW b \in Int PROVE Place(l, h, b) = Place(l, h, 0) + b
    BY <2>1, Places
  <2> QED
    BY <2>2, <2>3
<1>5. Len(s) = z + from
  BY <1>4 DEF l
<1>6. Len(new) = Place(l, h, to) /\ Len(new) = z + to
  <2>1. Place(l, h, to) = z + to
    BY <1>4
  <2>2. Len(new) = z + to
    BY <1>2, <1>5
  <2> QED
    BY <2>1, <2>2
<1>7. ASSUME NEW a \in (h + 1)..l, NEW b \in 1..PACKET_SIZE, Place(a, h, b) <= Len(new)
      PROVE  new[Place(a, h, b)] = <<pk[a], b>>
  <2>1. Place(a, h, b) \in Int /\ Place(a, h, b) >= 1
    <3>1. a \in Int /\ h \in Int /\ b \in Int /\ h + 1 \in Int /\ h + 1 <= a /\ b >= 1
      BY <1>0, SizeAssumption
    <3>2. Place(a, h, b) \in Int /\ Place(h + 1, h, b) = b
      BY <3>1, Places
    <3>3. ASSUME h + 1 < a PROVE Place(h + 1, h, b) + PACKET_SIZE <= Place(a, h, b)
      BY <3>1, <3>3, Places
    <3> QED
      BY <3>1, <3>2, <3>3, SizeAssumption
  <2>2. CASE Place(a, h, b) <= Len(s)
    <3>1. new[Place(a, h, b)] = s[Place(a, h, b)]
      BY <1>0, <1>2, <2>1, <2>2
    <3> QED
      BY <2>2, <3>1 DEF Carries, l
  <2>3. CASE Place(a, h, b) > Len(s)
    <3>1. a = l
      <4> SUFFICES ASSUME a < l PROVE FALSE
        BY <1>0
      <4>1. Place(a, h, b) + PACKET_SIZE <= Place(l, h, b)
        BY <1>0, SizeAssumption, Places
      <4>2. Place(l, h, b) = z + b
        BY <1>4, SizeAssumption
      <4> QED
        BY <1>5, <2>1, <2>3, <4>1, <4>2, SizeAssumption
    <3>2. b > from /\ b <= to /\ Place(a, h, b) - Len(s) = b - from
      <4>1. Place(a, h, b) = z + b
        BY <1>4, <3>1, SizeAssumption
      <4> QED
        BY <1>5, <1>6, <1>7, <2>3, <4>1, SizeAssumption
    <3>3. new[Place(a, h, b)] = sl[b - from]
      BY <1>0, <1>2, <1>7, <2>1, <2>3, <3>2
    <3>4. b - from \in 1..(to - from) /\ from + (b - from) = b
      BY <3>2, SizeAssumption
    <3> QED
      BY <1>3, <3>1, <3>3, <3>4
  <2> QED
    BY <1>0, <2>1, <2>2, <2>3
<1> QED
  BY <1>6, <1>7 DEF Carries, l, sl, new

\* The first packet of the stream ...
LEMMA CarriesFirst ==
  ASSUME NEW s \in Seq(Byte), NEW h \in Nat, NEW pk \in Seq(Packets), h + 1 <= Len(pk),
         Carries(s, h, pk), NEW f \in Seq(Byte), Len(f) = PACKET_SIZE,
         PACKET_SIZE <= Len(s), \A i \in 1..PACKET_SIZE : f[i] = s[i]
  PROVE  pk[h + 1] \in Packets /\ f = Whole(pk[h + 1])
<1> USE SizeAssumption
<1>0. h + 1 \in 1..Len(pk) /\ h + 1 \in (h + 1)..Len(pk) /\ h \in Int
  BY LenProperties
<1>1. pk[h + 1] \in Packets
  BY <1>0, ElementOfSeq
<1>2. \A i \in 1..PACKET_SIZE : f[i] = <<pk[h + 1], i>>
  <2> SUFFICES ASSUME NEW i \in 1..PACKET_SIZE PROVE s[i] = <<pk[h + 1], i>>
    OBVIOUS
  <2>1. i \in Int /\ Len(s) \in Nat /\ i <= Len(s)
    BY LenProperties
  <2>2. Place(h + 1, h, i) = i
    BY <1>0, <2>1, Places
  <2> QED
    BY <1>0, <2>1, <2>2 DEF Carries
<1>3. /\ Whole(pk[h + 1]) \in Seq(Byte) /\ Len(Whole(pk[h + 1])) = PACKET_SIZE
      /\ \A i \in 1..PACKET_SIZE : Whole(pk[h + 1])[i] = <<pk[h + 1], i>>
  <2>1. PACKET_SIZE \in Nat /\ 0 \in Nat /\ 0 <= PACKET_SIZE /\ PACKET_SIZE - 0 = PACKET_SIZE
    OBVIOUS
  <2>2. Whole(pk[h + 1]) \in Seq(Byte) /\ Len(Whole(pk[h + 1])) = PACKET_SIZE
    BY <1>1, WholeIsBytes
  <2> QED
    BY <2>1, <2>2 DEF Whole, Slice
<1> QED
  BY <1>1, <1>2, <1>3, SeqEqual

\* ... and what follows it.
LEMMA CarriesRest ==
  ASSUME NEW s \in Seq(Byte), NEW h \in Nat, NEW pk \in Seq(Packets), Carries(s, h, pk),
         NEW t \in Seq(Byte), Len(s) = PACKET_SIZE + Len(t),
         \A i \in 1..Len(t) : t[i] = s[PACKET_SIZE + i]
  PROVE  Carries(t, h + 1, pk)
<1> USE SizeAssumption
<1>0. Len(pk) \in Nat /\ Len(t) \in Nat
  BY LenProperties
<1> SUFFICES ASSUME NEW a \in ((h + 1) + 1)..Len(pk), NEW b \in 1..PACKET_SIZE,
                    Place(a, h + 1, b) <= Len(t)
             PROVE  t[Place(a, h + 1, b)] = <<pk[a], b>>
  BY DEF Carries
<1>1. a \in Int /\ h \in Int /\ b \in Int /\ h + 1 \in Int /\ h + 1 < a /\ b >= 1
      /\ a \in (h + 1)..Len(pk)
  BY <1>0
<1>2. /\ Place(a, h, b) \in Int /\ Place(a, h + 1, b) = Place(a, h, b) - PACKET_SIZE
      /\ Place(h + 1, h, b) = b /\ Place(h + 1, h, b) + PACKET_SIZE <= Place(a, h, b)
  <2>1. Place(a, h, b) \in Int /\ Place(a, h + 1, b) = Place(a, h, b) - PACKET_SIZE
    BY <1>1, Places
  <2>2. Place(h + 1, h, b) = b
    BY <1>1, Places
  <2>3. Place(h + 1, h, b) + PACKET_SIZE <= Place(a, h, b)
    BY <1>1, Places
  <2> QED
    BY <2>1, <2>2, <2>3
<1>3. /\ Place(a, h + 1, b) \in 1..Len(t) /\ Place(a, h, b) <= Len(s)
      /\ PACKET_SIZE + Place(a, h + 1, b) = Place(a, h, b)
  BY <1>0, <1>1, <1>2
<1>4. t[Place(a, h + 1, b)] = s[Place(a, h, b)]
  BY <1>3
<1> QED
  BY <1>1, <1>3, <1>4 DEF Carries

\* What two sequences of bytes are when joined.
LEMMA Joined ==
  ASSUME NEW s \in Seq(Byte), NEW t \in Seq(Byte)
  PROVE  /\ s \o t \in Seq(Byte)
         /\ Len(s \o t) = Len(s) + Len(t)
         /\ \A i \in 1..(Len(s) + Len(t)) :
              (s \o t)[i] = IF i <= Len(s) THEN s[i] ELSE t[i - Len(s)]
  BY ConcatProperties

\* The order in which sequences are joined does not matter.
LEMMA JoinAssociative ==
  ASSUME NEW s \in Seq(Byte), NEW t \in Seq(Byte), NEW u \in Seq(Byte)
  PROVE  (s \o t) \o u = s \o (t \o u)
<1> DEFINE st == s \o t
           tu == t \o u
           left == st \o u
           right == s \o tu
           ls == Len(s)
           lt == Len(t)
           lu == Len(u)
<1>1. ls \in Nat /\ lt \in Nat /\ lu \in Nat
  BY LenProperties
<1>2. st \in Seq(Byte) /\ Len(st) = ls + lt
  BY ConcatProperties
<1>3. \A i \in 1..(ls + lt) : st[i] = IF i <= ls THEN s[i] ELSE t[i - ls]
  BY ConcatProperties
<1>4. tu \in Seq(Byte) /\ Len(tu) = lt + lu
  BY ConcatProperties
<1>5. \A i \in 1..(lt + lu) : tu[i] = IF i <= lt THEN t[i] ELSE u[i - lt]
  BY ConcatProperties
<1> HIDE DEF st, tu
<1>6. /\ left \in Seq(Byte) /\ Len(left) = (ls + lt) + lu
      /\ \A i \in 1..((ls + lt) + lu) :
           left[i] = IF i <= ls + lt THEN st[i] ELSE u[i - (ls + lt)]
  <2>1. /\ left \in Seq(Byte) /\ Len(left) = Len(st) + lu
        /\ \A i \in 1..(Len(st) + lu) :
             left[i] = IF i <= Len(st) THEN st[i] ELSE u[i - Len(st)]
    BY <1>2, Joined, Zenon
  <2> QED
    BY <1>2, <2>1, Zenon
<1>7. /\ right \in Seq(Byte) /\ Len(right) = ls + (lt + lu)
      /\ \A i \in 1..(ls + (lt + lu)) : right[i] = IF i <= ls THEN s[i] ELSE tu[i - ls]
  <2>1. /\ right \in Seq(Byte) /\ Len(right) = ls + Len(tu)
        /\ \A i \in 1..(ls + Len(tu)) : right[i] = IF i <= ls THEN s[i] ELSE tu[i - ls]
    BY <1>4, Joined, Zenon
  <2> QED
    BY <1>4, <2>1, Zenon
<1> HIDE DEF left, right, ls, lt, lu
<1>8. Len(left) = Len(right) /\ Len(left) = ls + lt + lu
  BY <1>1, <1>6, <1>7
<1>9. ASSUME NEW i \in 1..(ls + lt + lu) PROVE left[i] = right[i]
  <2>1. CASE i <= ls
    <3>1. i \in 1..(ls + lt) /\ i \in 1..((ls + lt) + lu) /\ i \in 1..(ls + (lt + lu))
          /\ i <= ls + lt
      BY <1>1, <2>1
    <3>2. left[i] = st[i] /\ st[i] = s[i]
      BY <1>3, <1>6, <2>1, <3>1
    <3>3. right[i] = s[i]
      BY <1>7, <2>1, <3>1
    <3> QED
      BY <3>2, <3>3
  <2>2. CASE i > ls /\ i <= ls + lt
    <3>1. i \in 1..(ls + lt) /\ i - ls \in 1..(lt + lu) /\ i - ls <= lt
      BY <1>1, <2>2
    <3>2. left[i] = st[i] /\ right[i] = tu[i - ls]
      BY <1>1, <1>6, <1>7, <2>2, <3>1
    <3>3. st[i] = t[i - ls] /\ tu[i - ls] = t[i - ls]
      BY <1>1, <1>3, <1>5, <2>2, <3>1
    <3> QED
      BY <3>2, <3>3
  <2>3. CASE i > ls + lt
    <3>1. i - ls \in 1..(lt + lu) /\ ~(i - ls <= lt) /\ i - (ls + lt) = (i - ls) - lt
      BY <1>1, <2>3
    <3>2. left[i] = u[i - (ls + lt)] /\ right[i] = tu[i - ls]
      BY <1>1, <1>6, <1>7, <2>3
    <3>3. tu[i - ls] = u[(i - ls) - lt]
      BY <1>5, <3>1
    <3> QED
      BY <3>1, <3>2, <3>3
  <2> QED
    BY <1>1, <2>1, <2>2, <2>3
<1>10. left = right
  BY <1>6, <1>7, <1>8, <1>9, SeqEqual
<1> QED
  BY <1>10 DEF left, right, st, tu

\* Putting together what was cut.
LEMMA CutJoin ==
  ASSUME NEW s \in Seq(Byte), NEW k \in 0..Len(s)
  PROVE  SubSeq(s, 1, k) \o SubSeq(s, k + 1, Len(s)) = s
<1>1. /\ Len(s) \in Nat /\ 1 \in 1..(Len(s) + 1) /\ k \in (1 - 1)..Len(s)
      /\ Len(s) \in k..Len(s)
  BY LenProperties
<1>2. SubSeq(s, 1, k) \o SubSeq(s, k + 1, Len(s)) = SubSeq(s, 1, Len(s))
  BY <1>1, ConcatAdjacentSubSeq
<1> QED
  BY <1>2, SubSeqFull

\* Bytes that arrive do not change the stream.
LEMMA ArriveStream ==
  ASSUME TypeOK, NEW k \in 1..BufferSize, Arrive(k)
  PROVE  Stream' = Stream
<1> DEFINE x == SubSeq(net, 1, k)
           y == SubSeq(net, k + 1, Len(net))
<1>1. /\ net \in Seq(Byte) /\ rcv \in Seq(Byte) /\ packet_buffer \in Seq(Byte)
      /\ k \in 0..Len(net) /\ packet_buffer' = packet_buffer /\ rcv' = rcv \o x /\ net' = y
  BY SizeAssumption, LenProperties DEF TypeOK, Arrive, recvVars
<1>2. x \in Seq(Byte) /\ y \in Seq(Byte) /\ x \o y = net
  BY <1>1, CutBytes, CutJoin
<1> HIDE DEF x, y
<1>3. packet_buffer \o rcv \in Seq(Byte)
  BY <1>1, ConcatProperties
<1>4. packet_buffer \o (rcv \o x) = (packet_buffer \o rcv) \o x
  BY ONLY <1>1, <1>2, JoinAssociative, Zenon
<1>5. ((packet_buffer \o rcv) \o x) \o y = (packet_buffer \o rcv) \o (x \o y)
  BY ONLY <1>2, <1>3, JoinAssociative, Zenon
<1> QED
  BY <1>1, <1>2, <1>4, <1>5 DEF Stream

\* recv moves bytes from the socket to the packet buffer.
LEMMA RecvStream ==
  ASSUME TypeOK, Recv
  PROVE  /\ Filled \in Seq(Byte) /\ rcv' \in Seq(Byte) /\ net \in Seq(Byte) /\ net' = net
         /\ (Filled \o rcv') \o net = Stream
<1> DEFINE x == SubSeq(rcv, 1, Taken)
           y == SubSeq(rcv, Taken + 1, Len(rcv))
<1>1. /\ net \in Seq(Byte) /\ rcv \in Seq(Byte) /\ packet_buffer \in Seq(Byte)
      /\ Filled = packet_buffer \o x /\ rcv' = y /\ net' = net
  BY DEF TypeOK, Recv, Filled
<1>2. Taken \in 0..Len(rcv)
  <2>1. Len(rcv) \in Nat /\ Len(packet_buffer) \in Nat /\ Len(packet_buffer) < PACKET_SIZE
    BY LenProperties DEF TypeOK
  <2> QED
    BY <2>1, SizeAssumption DEF Taken
<1>3. x \in Seq(Byte) /\ y \in Seq(Byte) /\ x \o y = rcv
  BY <1>1, <1>2, CutBytes, CutJoin
<1> HIDE DEF x, y
<1>4. Filled \in Seq(Byte)
  BY <1>1, <1>3, ConcatProperties
<1>5. (packet_buffer \o x) \o y = packet_buffer \o (x \o y)
  BY <1>1, <1>3, JoinAssociative
<1> QED
  BY <1>1, <1>3, <1>4, <1>5 DEF Stream

\* What the invariant says of the lengths.
LEMMA StreamTypes ==
  ASSUME StreamInv
  PROVE  /\ TypeOK /\ sent \in Seq(Packets) /\ Len(sent) \in Nat /\ handled \in Nat
         /\ total_sent \in 0..PACKET_SIZE /\ PACKET_SIZE \in Nat /\ PACKET_SIZE > 0
         /\ packet_buffer \in Seq(Byte) /\ rcv \in Seq(Byte) /\ net \in Seq(Byte)
         /\ packet_buffer \o rcv \in Seq(Byte) /\ Stream \in Seq(Byte)
         /\ Len(Stream) \in Nat /\ LastByte \in 1..PACKET_SIZE
<1>1. /\ TypeOK /\ sent \in Seq(Packets) /\ Len(sent) \in Nat /\ handled \in Nat
      /\ total_sent \in 0..PACKET_SIZE /\ PACKET_SIZE \in Nat /\ PACKET_SIZE > 0
      /\ packet_buffer \in Seq(Byte) /\ rcv \in Seq(Byte) /\ net \in Seq(Byte)
  BY SizeAssumption, LenProperties DEF StreamInv, TypeOK
<1>2. packet_buffer \o rcv \in Seq(Byte)
  BY <1>1, Joined
<1>3. Stream \in Seq(Byte)
  BY <1>1, <1>2, Joined DEF Stream
<1>4. LastByte \in 1..PACKET_SIZE
  BY <1>1 DEF LastByte
<1> QED
  BY <1>1, <1>2, <1>3, <1>4, LenProperties

\* send extends the stream by the next bytes of the packet.
LEMMA SendBytesStream ==
  ASSUME StreamInv, NEW p \in Packets, NEW k \in 1..PACKET_SIZE, SendBytes(p, k)
  PROVE  StreamInv'
<1> DEFINE to == total_sent + k
           sl == Slice(p, total_sent, to)
<1>1. /\ sending /\ link = "open" /\ UNCHANGED <<tries, torn, link, rcv, packet_buffer, handled>>
      /\ net' = net \o sl /\ total_sent' = to /\ sending' = (to < PACKET_SIZE)
      /\ k <= PACKET_SIZE - total_sent
  BY DEF SendBytes, recvVars
<1>2. /\ total_sent \in Nat /\ total_sent < PACKET_SIZE /\ to \in Nat /\ to > 0
      /\ total_sent <= to /\ to <= PACKET_SIZE /\ Len(sent) \in Nat /\ tries \in Nat
  BY <1>1, StreamTypes DEF StreamInv, TypeOK
<1>3. TypeOK'
  BY SendBytesTyped, StreamTypes
<1>4. /\ sent' = IF total_sent = 0 THEN Append(sent, p) ELSE sent
      /\ total_sent # 0 => p = sent[Len(sent)]
  BY DEF SendBytes
<1>5. Len(sent') = IF total_sent = 0 THEN Len(sent) + 1 ELSE Len(sent)
  BY <1>4, StreamTypes, AppendProperties
<1>6. Len(sent') <= tries'
  BY <1>1, <1>2, <1>5 DEF StreamInv
<1>7. ASSUME ~torn PROVE InStep'
  <2>1. InStep
    BY <1>1, <1>7 DEF StreamInv
  <2>2. sl \in Seq(Byte)
    BY <1>2, SliceIsBytes
  <2>3. Stream' = Stream \o sl
    <3> HIDE DEF sl
    <3>1. Stream' = (packet_buffer \o rcv) \o (net \o sl)
      BY <1>1 DEF Stream
    <3>2. ((packet_buffer \o rcv) \o net) \o sl = (packet_buffer \o rcv) \o (net \o sl)
      <4>1. packet_buffer \o rcv \in Seq(Byte) /\ net \in Seq(Byte)
        BY StreamTypes
      <4> QED
        BY ONLY <2>2, <4>1, JoinAssociative, Zenon
    <3> QED
      BY <3>1, <3>2 DEF Stream
  <2>4. /\ sent' \in Seq(Packets) /\ Len(sent') > 0 /\ p = sent'[Len(sent')]
        /\ Carries(Stream, handled, sent')
        /\ Len(Stream) = Place(Len(sent'), handled, total_sent)
    <3>1. CASE total_sent = 0
      <4>1. sent' = Append(sent, p) /\ Len(sent') = Len(sent) + 1 /\ LastByte = PACKET_SIZE
        BY <1>4, <1>5, <3>1 DEF LastByte
      <4>2. sent' \in Seq(Packets) /\ p = sent'[Len(sent')]
        BY <4>1, StreamTypes, AppendProperties
      <4>3. Carries(Stream, handled, sent')
        BY <2>1, <4>1, StreamTypes, CarriesNext DEF InStep
      <4>4. Len(Stream) = Place(Len(sent'), handled, total_sent)
        <5>1. Len(sent) \in Int /\ handled \in Int /\ PACKET_SIZE \in Int /\ 0 \in Int
          BY StreamTypes
        <5>2. Place(Len(sent), handled, PACKET_SIZE) = Place(Len(sent), handled, 0) + PACKET_SIZE
          BY <5>1, Places
        <5>3. Place(Len(sent) + 1, handled, 0) = Place(Len(sent), handled, 0) + PACKET_SIZE
          BY <5>1, Places
        <5> QED
          BY <2>1, <3>1, <4>1, <5>2, <5>3 DEF InStep
      <4> QED
        BY <1>2, <4>1, <4>2, <4>3, <4>4
    <3>2. CASE total_sent # 0
      <4>1. sent' = sent /\ LastByte = total_sent /\ total_sent > 0
        BY <1>2, <1>4, <3>2 DEF LastByte
      <4> QED
        BY <1>4, <2>1, <3>2, <4>1, StreamTypes DEF InStep
    <3> QED
      BY <3>1, <3>2
  <2>5. Carries(Stream \o sl, handled, sent') /\ Len(Stream \o sl) = Place(Len(sent'), handled, to)
    BY <1>2, <2>4, StreamTypes, CarriesMore
  <2>6. LastByte' = to
    BY <1>1, <1>2 DEF LastByte
  <2>7. handled' <= Len(sent')
    BY <1>1, <1>2, <1>5, <2>1, StreamTypes DEF InStep
  <2> QED
    BY <1>1, <2>3, <2>4, <2>5, <2>6, <2>7 DEF InStep
<1>8. /\ sending' => total_sent' < PACKET_SIZE
      /\ ~sending' => total_sent' = PACKET_SIZE
      /\ total_sent' # 0
  <2>1. to < PACKET_SIZE \/ to = PACKET_SIZE
    BY <1>2, SizeAssumption
  <2>2. to # 0
    BY <1>2
  <2> HIDE DEF to
  <2>3. sending' <=> to < PACKET_SIZE
    BY <1>1, Zenon
  <2> QED
    BY <1>1, <2>1, <2>2, <2>3, Zenon
<1>9. link' = "open" /\ torn' = torn
  BY <1>1
<1>10. /\ sending' /\ total_sent' = 0 => Len(sent') < tries'
       /\ ~torn' /\ link' = "open" /\ ~sending' => total_sent' \in {0, PACKET_SIZE}
       /\ link' = "reset" => net' = << >> /\ rcv' = << >>
  BY <1>8, <1>9
<1> QED
  BY <1>3, <1>6, <1>7, <1>8, <1>9, <1>10 DEF StreamInv

\* recv completes the first packet of the stream, or none.
LEMMA RecvWhole ==
  ASSUME StreamInv, Recv, ~torn
  PROVE  /\ InStep'
         /\ Len(Filled) = PACKET_SIZE =>
              /\ handled < Len(sent) /\ sent[handled + 1] \in Packets
              /\ Filled = Whole(sent[handled + 1])
<1>1. /\ UNCHANGED <<sent, total_sent, torn, link>> /\ rcv # << >>
      /\ IF Len(Filled) = PACKET_SIZE
         THEN packet_buffer' = << >> /\ handled' = handled + 1
         ELSE packet_buffer' = Filled /\ UNCHANGED handled
  BY DEF Recv, sendVars
<1>2. InStep /\ LastByte' = LastByte
  BY <1>1 DEF StreamInv, LastByte
<1>3. /\ Filled \in Seq(Byte) /\ rcv' \in Seq(Byte) /\ net \in Seq(Byte) /\ net' = net
      /\ (Filled \o rcv') \o net = Stream
  BY StreamTypes, RecvStream
<1>4. CASE Len(Filled) # PACKET_SIZE
  <2>1. Stream' = Stream /\ handled' = handled
    BY <1>1, <1>3, <1>4 DEF Stream
  <2> QED
    BY <1>1, <1>2, <1>4, <2>1 DEF InStep
<1>5. CASE Len(Filled) = PACKET_SIZE
  <2> DEFINE rest == rcv' \o net
  <2>1. rest \in Seq(Byte) /\ Stream = Filled \o rest /\ Stream' = rest
    <3>1. rest \in Seq(Byte)
      BY <1>3, Joined
    <3>2. (Filled \o rcv') \o net = Filled \o (rcv' \o net)
      BY <1>3, JoinAssociative, Zenon
    <3>3. << >> \o rcv' = rcv'
      BY <1>3, ConcatEmptySeq
    <3> QED
      BY <1>1, <1>3, <1>5, <3>1, <3>2, <3>3 DEF Stream
  <2> HIDE DEF rest
  <2>2. Len(rest) \in Nat /\ Len(Filled \o rest) = Len(Filled) + Len(rest)
    BY <1>3, <2>1, Joined, LenProperties
  <2>3. Len(Stream) = PACKET_SIZE + Len(rest)
    BY <1>5, <2>1, <2>2
  <2>4. \A i \in 1..(PACKET_SIZE + Len(rest)) :
          Stream[i] = IF i <= PACKET_SIZE THEN Filled[i] ELSE rest[i - PACKET_SIZE]
    BY <1>3, <1>5, <2>1, Joined
  <2>5. /\ \A i \in 1..PACKET_SIZE : Filled[i] = Stream[i]
        /\ \A i \in 1..Len(rest) : rest[i] = Stream[PACKET_SIZE + i]
    <3>1. ASSUME NEW i \in 1..PACKET_SIZE PROVE Filled[i] = Stream[i]
      BY <2>2, <2>4, StreamTypes
    <3>2. ASSUME NEW i \in 1..Len(rest) PROVE rest[i] = Stream[PACKET_SIZE + i]
      <4>1. /\ PACKET_SIZE + i \in 1..(PACKET_SIZE + Len(rest)) /\ ~(PACKET_SIZE + i <= PACKET_SIZE)
            /\ (PACKET_SIZE + i) - PACKET_SIZE = i
        BY <2>2, StreamTypes
      <4> QED
        BY <2>4, <4>1
    <3> QED
      BY <3>1, <3>2
  <2>6. handled < Len(sent)
    <3> SUFFICES ASSUME handled = Len(sent) PROVE FALSE
      BY <1>2, StreamTypes DEF InStep
    <3>1. handled \in Int /\ LastByte \in Int /\ LastByte <= PACKET_SIZE
      BY StreamTypes
    <3>2. Place(handled + 1, handled, LastByte) = LastByte
      BY <3>1, Places
    <3>3. Place(handled + 1, handled, LastByte) = Place(handled, handled, LastByte) + PACKET_SIZE
      BY <3>1, Places
    <3>4. Len(Stream) = Place(handled, handled, LastByte) /\ Len(Stream) \in Nat
      BY <1>2, StreamTypes DEF InStep
    <3> QED
      BY <2>2, <2>3, <3>1, <3>2, <3>3, <3>4, SizeAssumption
  <2>7. handled + 1 <= Len(sent) /\ PACKET_SIZE <= Len(Stream)
    BY <2>2, <2>3, <2>6, StreamTypes
  <2>8. sent[handled + 1] \in Packets /\ Filled = Whole(sent[handled + 1])
    <3>1. /\ Stream \in Seq(Byte) /\ handled \in Nat /\ sent \in Seq(Packets)
          /\ Carries(Stream, handled, sent)
      BY <1>2, StreamTypes DEF InStep
    <3> QED
      BY ONLY <1>3, <1>5, <2>5, <2>7, <3>1, CarriesFirst, Zenon
  <2>9. Carries(rest, handled + 1, sent)
    BY <1>2, <2>1, <2>3, <2>5, StreamTypes, CarriesRest DEF InStep
  <2>10. Len(rest) = Place(Len(sent), handled + 1, LastByte)
    <3>1. Len(sent) \in Int /\ handled \in Int /\ LastByte \in Int
      BY StreamTypes
    <3>2. Place(Len(sent), handled + 1, LastByte) = Place(Len(sent), handled, LastByte) - PACKET_SIZE
      BY <3>1, Places
    <3> QED
      BY <1>2, <2>2, <2>3, <3>2, StreamTypes DEF InStep
  <2>11. InStep'
    BY <1>1, <1>2, <1>5, <2>1, <2>7, <2>9, <2>10 DEF InStep
  <2> QED
    BY <2>6, <2>8, <2>11
<1> QED
  BY <1>4, <1>5

\* Every step keeps the invariant.
LEMMA StreamStep == StreamInv /\ [Next]_vars => StreamInv'
<1> SUFFICES ASSUME StreamInv, [Next]_vars PROVE StreamInv'
  OBVIOUS
<1>1. TypeOK' /\ Len(sent) \in Nat /\ tries \in Nat
  BY StepTyped, StreamTypes DEF StreamInv, TypeOK
<1>2. ASSUME UNCHANGED <<sent, total_sent, handled>>, Stream' = Stream, InStep
      PROVE  InStep'
  BY <1>2 DEF InStep, LastByte
<1>3. CASE StartSend
  <2>1. /\ ~sending /\ link = "open" /\ sending' /\ total_sent' = 0 /\ tries' = tries + 1
        /\ UNCHANGED <<sent, torn, net, rcv, link, packet_buffer, handled>>
    BY <1>3 DEF StartSend, recvVars
  <2>2. Len(sent') <= tries' /\ Len(sent') < tries' /\ 0 < PACKET_SIZE
    BY <1>1, <2>1, StreamTypes DEF StreamInv
  <2>3. ASSUME ~torn PROVE InStep'
    <3>1. InStep /\ total_sent \in {0, PACKET_SIZE}
      BY <2>1, <2>3 DEF StreamInv
    <3>2. LastByte' = LastByte
      BY <2>1, <3>1, StreamTypes DEF LastByte
    <3>3. Stream' = Stream
      BY <2>1 DEF Stream
    <3> QED
      BY <2>1, <3>1, <3>2, <3>3 DEF InStep
  <2> QED
    BY <1>1, <2>1, <2>2, <2>3 DEF StreamInv
<1>4. CASE GiveUp
  <2>1. /\ sending /\ link = "open" /\ sending' = FALSE /\ torn' = (torn \/ total_sent > 0)
        /\ UNCHANGED <<sent, total_sent, tries, net, rcv, link, packet_buffer, handled>>
    BY <1>4 DEF GiveUp, recvVars
  <2>2. ~torn' => ~torn /\ ~(total_sent > 0)
    BY <2>1, Zenon
  <2>3. ~torn' => total_sent = 0
    BY <2>2, StreamTypes
  <2>4. Stream' = Stream
    BY <2>1 DEF Stream
  <2> QED
    BY <1>1, <1>2, <2>1, <2>2, <2>3, <2>4 DEF StreamInv
<1>5. CASE Close \/ SendError
  <2>1. /\ sending' = FALSE /\ link' # "open"
        /\ link' = "reset" => link = "reset"
        /\ link = "reset" => link' = "reset"
        /\ UNCHANGED <<sent, total_sent, tries, torn, net, rcv, packet_buffer, handled>>
    BY <1>5 DEF Close, SendError, recvVars
  <2>2. Stream' = Stream
    BY <2>1 DEF Stream
  <2> QED
    BY <1>1, <1>2, <2>1, <2>2 DEF StreamInv
<1>6. CASE Reset
  <2>1. /\ link' = "reset" /\ net' = << >> /\ rcv' = << >>
        /\ UNCHANGED <<sending, sent, total_sent, tries, torn>>
    BY <1>6 DEF Reset, sendVars
  <2> QED
    BY <1>1, <2>1 DEF StreamInv
<1>7. ASSUME UNCHANGED <<sending, sent, total_sent, tries, torn, net, rcv, packet_buffer, handled>>,
             link' = link \/ (link = "fin" /\ link' = "eof")
      PROVE  StreamInv'
  <2>1. Stream' = Stream
    BY <1>7 DEF Stream
  <2> QED
    BY <1>1, <1>2, <1>7, <2>1 DEF StreamInv
<1>8. CASE ArriveEnd \/ EpollWait \/ Writable \/ RecvNothing \/ UNCHANGED vars
  <2>1. /\ UNCHANGED <<sending, sent, total_sent, tries, torn, net, rcv, packet_buffer, handled>>
        /\ link' = link \/ (link = "fin" /\ link' = "eof")
    BY <1>8 DEF ArriveEnd, EpollWait, Writable, RecvNothing, vars, sendVars, recvVars
  <2> QED
    BY <1>7, <2>1
<1>9. ASSUME NEW k \in 1..BufferSize, Arrive(k) PROVE StreamInv'
  <2>1. /\ UNCHANGED <<sending, sent, total_sent, tries, torn, link, handled>>
        /\ link # "reset"
    BY <1>9 DEF Arrive, sendVars, recvVars
  <2>2. Stream' = Stream
    BY <1>9, StreamTypes, ArriveStream
  <2> QED
    BY <1>1, <1>2, <2>1, <2>2 DEF StreamInv
<1>10. CASE Recv
  <2>1. /\ UNCHANGED <<sending, sent, total_sent, tries, torn, link, net>> /\ rcv # << >>
    BY <1>10 DEF Recv, sendVars
  <2>2. link # "reset" /\ (~torn => InStep')
    BY <1>10, <2>1, RecvWhole DEF StreamInv
  <2> QED
    BY <1>1, <2>1, <2>2 DEF StreamInv
<1> QED
  BY <1>3, <1>4, <1>5, <1>6, <1>8, <1>9, <1>10, SendBytesStream
  DEF Next, Sender, Network, Engine

\* Only the bytes of a whole packet are decoded to it.
LEMMA DecodeWhole ==
  ASSUME NEW p \in Packets
  PROVE  Decode(Whole(p)) = p
<1>1. ASSUME NEW r \in Packets, Whole(p) = Whole(r) PROVE r = p
  <2>1. 1 \in 1..(PACKET_SIZE - 0)
    BY SizeAssumption
  <2>2. Whole(p)[1] = <<p, 0 + 1>> /\ Whole(r)[1] = <<r, 0 + 1>>
    BY <2>1 DEF Whole, Slice
  <2> QED
    BY <1>1, <2>2
<1> QED
  BY <1>1 DEF Decode

\* Sending the first byte of a packet is a push, ...
LEMMA PacketPushed ==
  ASSUME NEW p \in Packets, NEW s \in Seq(Packets), NEW h \in Nat, h <= Len(s)
  PROVE  /\ SubSeq(Append(s, p), h + 1, Len(Append(s, p)))
              = Append(SubSeq(s, h + 1, Len(s)), p)
         /\ Len(SubSeq(s, h + 1, Len(s))) <= Len(s)
<1> DEFINE l == Len(s)
           t == Append(s, p)
           old == SubSeq(s, h + 1, l)
           new == SubSeq(t, h + 1, l + 1)
<1>1. l \in Nat /\ Len(t) = l + 1 /\ t \in Seq(Packets) /\ t[l + 1] = p
      /\ \A i \in 1..l : t[i] = s[i] /\ s[i] \in Packets
  BY LenProperties, AppendProperties
<1> HIDE DEF l, t
<1>2. \A i \in 1..(l + 1) : t[i] \in Packets
  BY <1>1, LenProperties
<1>3. \A i \in (h + 1)..l : s[i] \in Packets
  BY <1>1
<1>4. \A i \in (h + 1)..(l + 1) : t[i] \in Packets
  BY <1>2
<1>5. PICK m \in Int : m = h + 1
  OBVIOUS
<1>6. /\ old \in Seq(Packets) /\ Len(old) = l - h
      /\ \A i \in 1..(l - h) : old[i] = s[h + i]
  <2>1. /\ SubSeq(s, m, l) \in Seq(Packets)
        /\ Len(SubSeq(s, m, l)) = IF m <= l THEN l - m + 1 ELSE 0
        /\ \A i \in 1..(l - m + 1) : SubSeq(s, m, l)[i] = s[m + i - 1]
    BY <1>1, <1>3, <1>5, SubSeqProperties
  <2>2. /\ (IF m <= l THEN l - m + 1 ELSE 0) = l - h /\ l - m + 1 = l - h
        /\ \A i \in Int : m + i - 1 = h + i
    BY <1>1, <1>5 DEF l
  <2>3. old = SubSeq(s, m, l)
    BY <1>5
  <2> HIDE DEF old
  <2>4. old \in Seq(Packets) /\ Len(old) = l - h
    BY <2>1, <2>2, <2>3
  <2>5. ASSUME NEW i \in 1..(l - h) PROVE old[i] = s[h + i]
    BY <2>1, <2>2, <2>3
  <2> QED
    BY <2>4, <2>5
<1>7. /\ new \in Seq(Packets) /\ Len(new) = l - h + 1
      /\ \A i \in 1..(l - h + 1) : new[i] = t[h + i]
  <2>1. /\ SubSeq(t, m, l + 1) \in Seq(Packets)
        /\ Len(SubSeq(t, m, l + 1)) = IF m <= l + 1 THEN l + 1 - m + 1 ELSE 0
        /\ \A i \in 1..(l + 1 - m + 1) : SubSeq(t, m, l + 1)[i] = t[m + i - 1]
    BY <1>1, <1>4, <1>5, SubSeqProperties
  <2>2. /\ (IF m <= l + 1 THEN l + 1 - m + 1 ELSE 0) = l - h + 1 /\ l + 1 - m + 1 = l - h + 1
        /\ \A i \in Int : m + i - 1 = h + i
    BY <1>1, <1>5 DEF l
  <2> QED
    BY <1>5, <2>1, <2>2
<1> HIDE DEF old, new
<1>8. /\ Append(old, p) \in Seq(Packets) /\ Len(Append(old, p)) = l - h + 1
      /\ \A i \in 1..(l - h) : Append(old, p)[i] = old[i]
      /\ Append(old, p)[l - h + 1] = p
  BY <1>6, AppendProperties
<1>9. ASSUME NEW i \in 1..(l - h + 1) PROVE new[i] = Append(old, p)[i]
  <2>1. CASE i = l - h + 1
    BY <1>1, <1>7, <1>8, <2>1
  <2>2. CASE i # l - h + 1
    <3>1. i \in 1..(l - h) /\ h + i \in 1..l
      BY <1>1, <2>2
    <3> QED
      BY <1>1, <1>6, <1>7, <1>8, <3>1
  <2> QED
    BY <2>1, <2>2
<1>10. new = Append(old, p)
  BY <1>7, <1>8, <1>9, SeqEqual
<1>11. Len(old) <= l
  BY <1>1, <1>6
<1> QED
  BY <1>1, <1>10, <1>11 DEF old, new, l, t

\* ... and handling it is a pop.
LEMMA PacketPopped ==
  ASSUME NEW s \in Seq(Packets), NEW h \in Nat, h < Len(s)
  PROVE  LET old == SubSeq(s, h + 1, Len(s)) IN
         /\ old # << >> /\ Head(old) = s[h + 1]
         /\ Tail(old) = SubSeq(s, h + 1 + 1, Len(s))
<1>1. h + 1 \in 1..Len(s) /\ Len(s) \in (h + 1)..Len(s) /\ Len(s) \in Nat
  BY LenProperties
<1>2. /\ Head(SubSeq(s, h + 1, Len(s))) = s[h + 1]
      /\ Tail(SubSeq(s, h + 1, Len(s))) = SubSeq(s, h + 1 + 1, Len(s))
  BY <1>1, HeadTailOfSubSeq
<1>3. SubSeq(s, h + 1, Len(s)) # << >>
  <2>1. PICK m \in Int : m = h + 1
    BY <1>1
  <2>2. \A i \in m..Len(s) : s[i] \in Packets
    BY <1>1, <2>1, LenProperties
  <2>3. /\ SubSeq(s, m, Len(s)) \in Seq(Packets)
        /\ Len(SubSeq(s, m, Len(s))) = IF m <= Len(s) THEN Len(s) - m + 1 ELSE 0
    BY <1>1, <2>2, SubSeqProperties
  <2>4. Len(SubSeq(s, m, Len(s))) # 0
    BY <1>1, <2>1, <2>3
  <2> QED
    BY <2>1, <2>4, EmptySeq
<1> QED
  BY <1>2, <1>3

----------------------------------------------------------------------------

\* recv never writes past the packet buffer, and the sockets never hold more
\* than they can, whatever is torn, closed or reset.
THEOREM WireTypeCorrect == Spec => []TypeOK
  BY InitTyped, StepTyped, PTL DEF Spec

\* The edge-triggered session never sleeps on data or on the end of the
\* connection, also when they arrive with the EPOLLOUT event that does not
\* read.
THEOREM EdgesKept == Spec => []NoLostEdge
<1>1. Init => NoLostEdge
  BY DEF Init, NoLostEdge, Readable
<1> QED
  BY <1>1, InitTyped, StepTyped, EdgeKept, PTL DEF Spec

\* Until a packet is torn the stream is the queue of packets that TeleportDSM
\* takes it for, in whatever pieces send takes and recv returns the bytes and
\* whenever the connection ends: each packet comes out of the packet buffer
\* whole, once and in order.
THEOREM StreamIsFIFO == Spec => FIFOUntilTorn
<1>1. Init => StreamInv /\ Abstract!Init
  <2> SUFFICES ASSUME Init PROVE StreamInv /\ Abstract!Init
    OBVIOUS
  <2>1. TypeOK /\ Len(sent) = 0 /\ LastByte = PACKET_SIZE
    BY InitTyped DEF Init, LastByte
  <2>2. Stream = << >>
    BY DEF Init, Stream
  <2>3. Place(0, 0, PACKET_SIZE) = 0
    BY SizeAssumption DEF Place
  <2>4. InStep
    BY <2>1, <2>2, <2>3 DEF Init, InStep, Carries
  <2>5. StreamInv
    BY <2>1, <2>4, SizeAssumption DEF Init, StreamInv
  <2>6. SubSeq(sent, handled + 1, Len(sent)) = << >>
    BY <2>1, SubSeqEmpty DEF Init
  <2>7. Decode(out) \in Packets
    BY DecodeWhole DEF Init
  <2> QED
    BY <2>5, <2>6, <2>7 DEF Abstract!Init
<1>2. StreamInv /\ [Next]_vars => [torn' \/ Abstract!Next]_<<sent, handled, Decode(out)>>
  <2> SUFFICES ASSUME StreamInv, [Next]_vars, ~torn'
               PROVE  Abstract!Next \/ UNCHANGED <<sent, handled, Decode(out)>>
    OBVIOUS
  <2>1. sent \in Seq(Packets) /\ handled \in Nat /\ Len(sent) \in Nat
    BY StreamTypes
  <2>2. ASSUME NEW p \in Packets, NEW k \in 1..PACKET_SIZE, SendBytes(p, k)
        PROVE  Abstract!Next \/ UNCHANGED <<sent, handled, Decode(out)>>
    <3>1. UNCHANGED <<handled, out, torn>> /\ sending /\ link = "open"
      BY <2>2 DEF SendBytes, recvVars
    <3>2. CASE total_sent = 0
      <4>1. sent' = Append(sent, p) /\ handled <= Len(sent) /\ Len(sent) < tries
        BY <2>2, <3>1, <3>2 DEF SendBytes, StreamInv, InStep
      <4>2. Len(sent) < MaxPackets
        <5>1. tries <= MaxPackets /\ tries \in Nat
          BY LimitAssumption DEF StreamInv, TypeOK
        <5> QED
          BY <2>1, <4>1, <5>1, LimitAssumption
      <4>3. /\ SubSeq(sent', handled' + 1, Len(sent'))
                 = Append(SubSeq(sent, handled + 1, Len(sent)), p)
            /\ Len(SubSeq(sent, handled + 1, Len(sent))) <= Len(sent)
        BY <2>1, <3>1, <4>1, PacketPushed
      <4>4. Len(SubSeq(sent, handled + 1, Len(sent))) < MaxPackets
        <5>1. Len(SubSeq(sent, handled + 1, Len(sent))) \in Nat
          BY <2>1
        <5> QED
          BY <2>1, <4>2, <4>3, <5>1, LimitAssumption
      <4>5. Abstract!Push(p)
        BY <3>1, <4>3, <4>4 DEF Abstract!Push
      <4> QED
        BY <4>5 DEF Abstract!Next
    <3>3. CASE total_sent # 0
      BY <2>2, <3>1, <3>3 DEF SendBytes
    <3> QED
      BY <3>2, <3>3
  <2>3. CASE Recv
    <3>1. UNCHANGED <<sent, torn>>
      BY <2>3 DEF Recv, sendVars
    <3>2. CASE Len(Filled) = PACKET_SIZE
      <4>1. out' = Filled /\ handled' = handled + 1
        BY <2>3, <3>2 DEF Recv
      <4>2. handled < Len(sent) /\ Decode(out)' = sent[handled + 1]
        BY <2>3, <3>1, <3>2, <4>1, RecvWhole, DecodeWhole
      <4>3. /\ SubSeq(sent, handled + 1, Len(sent)) # << >>
            /\ Head(SubSeq(sent, handled + 1, Len(sent))) = sent[handled + 1]
            /\ Tail(SubSeq(sent, handled + 1, Len(sent))) = SubSeq(sent', handled' + 1, Len(sent'))
        BY <2>1, <3>1, <4>1, <4>2, PacketPopped
      <4> QED
        BY <4>2, <4>3 DEF Abstract!Next, Abstract!Pop
    <3>3. CASE Len(Filled) # PACKET_SIZE
      BY <2>3, <3>1, <3>3 DEF Recv
    <3> QED
      BY <3>2, <3>3
  <2>4. CASE StartSend \/ GiveUp \/ Close \/ Reset \/ SendError
    BY <2>4 DEF StartSend, GiveUp, Close, Reset, SendError, sendVars, recvVars
  <2>5. CASE ArriveEnd \/ EpollWait \/ Writable \/ RecvNothing \/ UNCHANGED vars
    BY <2>5 DEF ArriveEnd, EpollWait, Writable, RecvNothing, vars, sendVars, recvVars
  <2>6. ASSUME NEW k \in 1..BufferSize, Arrive(k)
        PROVE  UNCHANGED <<sent, handled, Decode(out)>>
    BY <2>6 DEF Arrive, sendVars, recvVars
  <2> QED
    BY <2>2, <2>3, <2>4, <2>5, <2>6 DEF Next, Sender, Network, Engine
<1> QED
  BY <1>1, <1>2, StreamStep, PTL DEF Spec, FIFOUntilTorn
=============================================================================
