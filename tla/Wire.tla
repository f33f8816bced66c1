-------------------------------- MODULE Wire --------------------------------
(***************************************************************************)
(* One direction of a connection between two nodes, at the level of bytes: *)
(* send_all_nonblocking on one side, the engine's edge-triggered session   *)
(* with its packet buffer on the other, and the socket between them.       *)
(*                                                                         *)
(* A byte is the packet it belongs to and its place in it: what the        *)
(* receiver does with a full buffer depends on whether these are the bytes *)
(* of one packet.                                                          *)
(***************************************************************************)
EXTENDS Integers, Sequences

CONSTANTS
  Packets,       \* values of struct dsm_packet
  PACKET_SIZE,   \* sizeof(struct dsm_packet), 4109 in the code
  BufferSize,    \* bytes the sockets hold between sender and receiver
  MaxPackets,    \* bound: packets handed to send_all_nonblocking
  MaxTimeouts    \* bound: sends that are given up after 100 ms

ASSUME SizeAssumption == PACKET_SIZE \in Nat \ {0} /\ BufferSize \in Nat \ {0}
ASSUME LimitAssumption == MaxPackets \in Nat /\ MaxTimeouts \in Nat

VARIABLES
  sending,      \* the sender is in send_all_nonblocking
  total_sent,   \* bytes of the current packet that were sent
  sent,         \* packets of which at least one byte was sent
  tries,        \* calls of send_all_nonblocking
  timeouts,     \* calls that gave up
  torn,         \* a packet was given up after some of its bytes
  net, rcv,     \* bytes under way, bytes in the receive buffer
  link,         \* "open"; "fin", "eof": the sender has closed and the
                \* receiver does not know it yet, or does; "reset"
  interest,     \* epoll events of the session: "inout" until connected
  edge,         \* epoll has an event for the session to return
  session,      \* the engine: "wait", "out", "read"; "closed"
  packet_buffer,   \* the bytes_read bytes received so far
  out, handled     \* the last buffer that was full, how many there were

sendVars == <<sending, total_sent, sent, tries, timeouts, torn>>
recvVars == <<interest, session, packet_buffer, out, handled>>
vars == <<sending, total_sent, sent, tries, timeouts, torn, net, rcv, link,
          interest, edge, session, packet_buffer, out, handled>>

Byte == Packets \X (1..PACKET_SIZE)

\* Bytes from + 1 to to of packet p; all of them.
Slice(p, from, to) == [i \in 1..(to - from) |-> <<p, from + i>>]
Whole(p) == Slice(p, 0, PACKET_SIZE)

Room == BufferSize - Len(net) - Len(rcv)

----------------------------------------------------------------------------
(* The sender: send_all_nonblocking. *)

\* A caller hands over the packet that is sent next.
StartSend ==
  /\ ~sending /\ link = "open"
  /\ tries < MaxPackets
  /\ sending' = TRUE
  /\ total_sent' = 0
  /\ tries' = tries + 1
  /\ UNCHANGED <<sent, timeouts, torn, net, rcv, link, edge, recvVars>>

\* Mutant: every call of send starts at the beginning of the packet.
SendBytes_restarts(p, k) ==
  /\ sending /\ link = "open"
  /\ k <= PACKET_SIZE - total_sent /\ k <= Room
  /\ IF total_sent = 0 THEN sent' = Append(sent, p)
                       ELSE p = sent[Len(sent)] /\ UNCHANGED sent
  /\ net' = net \o Slice(p, 0, k)
  /\ total_sent' = total_sent + k
  /\ sending' = (total_sent' < PACKET_SIZE)
  /\ UNCHANGED <<tries, timeouts, torn, rcv, link, edge, recvVars>>

\* send takes k bytes of packet p.
SendBytes(p, k) ==
  /\ sending /\ link = "open"
  /\ k <= PACKET_SIZE - total_sent /\ k <= Room
  /\ IF total_sent = 0 THEN sent' = Append(sent, p)
                       ELSE p = sent[Len(sent)] /\ UNCHANGED sent
  /\ net' = net \o Slice(p, total_sent, total_sent + k)
  /\ total_sent' = total_sent + k
  /\ sending' = (total_sent' < PACKET_SIZE)
  /\ UNCHANGED <<tries, timeouts, torn, rcv, link, edge, recvVars>>

\* EAGAIN, and the socket is not writable for 100 ms: -1, which no caller
\* looks at.
GiveUp ==
  /\ sending /\ link = "open"
  /\ Room = 0
  /\ timeouts < MaxTimeouts
  /\ timeouts' = timeouts + 1
  /\ torn' = (torn \/ total_sent > 0)
  /\ sending' = FALSE
  /\ UNCHANGED <<total_sent, sent, tries, net, rcv, link, edge, recvVars>>

\* send fails on a connection that was reset.
SendError ==
  /\ sending /\ link = "reset"
  /\ sending' = FALSE
  /\ UNCHANGED <<total_sent, sent, tries, timeouts, torn, net, rcv, link,
                 edge, recvVars>>

----------------------------------------------------------------------------
(* The network. *)

\* The next k bytes reach the receiver's socket: an edge for epoll.
Arrive(k) ==
  /\ k <= Len(net)
  /\ link # "reset"
  /\ rcv' = rcv \o SubSeq(net, 1, k)
  /\ net' = SubSeq(net, k + 1, Len(net))
  /\ edge' = TRUE
  /\ UNCHANGED <<sendVars, link, recvVars>>

\* The sender's process ends, wherever it is.
Close ==
  /\ link = "open"
  /\ link' = "fin"
  /\ sending' = FALSE
  /\ UNCHANGED <<total_sent, sent, tries, timeouts, torn, net, rcv, edge,
                 recvVars>>

\* The end of the stream follows its last byte.
ArriveEnd ==
  /\ link = "fin" /\ net = << >>
  /\ link' = "eof"
  /\ edge' = TRUE
  /\ UNCHANGED <<sendVars, net, rcv, recvVars>>

\* The connection breaks, or could not be established.
Reset ==
  /\ link = "open"
  /\ link' = "reset"
  /\ net' = << >> /\ rcv' = << >>
  /\ edge' = TRUE
  /\ UNCHANGED <<sendVars, recvVars>>

----------------------------------------------------------------------------
(* The receiver: the engine's event loop for a peer session. *)

Readable == rcv # << >> \/ link \in {"eof", "reset"}

\* epoll_wait returns the session's event, once per edge.  Until the session
\* has been seen writable the event is EPOLLOUT, with or without EPOLLIN.
EpollWait ==
  /\ session = "wait" /\ edge
  /\ edge' = FALSE
  /\ session' = IF interest = "inout" THEN "out" ELSE "read"
  /\ UNCHANGED <<sendVars, net, rcv, link, interest, packet_buffer, out,
                 handled>>

\* Mutant: the flag is cleared without telling epoll about it.
Writable_no_mod ==
  /\ session = "out"
  /\ session' = IF link = "reset" THEN "closed" ELSE "wait"
  /\ interest' = "in"
  /\ UNCHANGED <<sendVars, net, rcv, link, edge, packet_buffer, out, handled>>

\* EPOLLOUT: a connection that failed is closed; otherwise EPOLL_CTL_MOD
\* leaves EPOLLIN, which is reported anew if there is something to read.
Writable ==
  /\ session = "out"
  /\ session' = IF link = "reset" THEN "closed" ELSE "wait"
  /\ interest' = "in"
  /\ edge' = (edge \/ Readable)
  /\ UNCHANGED <<sendVars, net, rcv, link, packet_buffer, out, handled>>

\* Mutant: recv is given the size of a packet, not what is missing of it.
Taken_whole == IF Len(rcv) < PACKET_SIZE THEN Len(rcv) ELSE PACKET_SIZE

\* What recv may put into the packet buffer, and the buffer after it.
Taken == LET need == PACKET_SIZE - Len(packet_buffer)
         IN IF Len(rcv) < need THEN Len(rcv) ELSE need
Filled == packet_buffer \o SubSeq(rcv, 1, Taken)

\* Mutant: one packet per event.
Recv_one_packet ==
  /\ session = "read" /\ rcv # << >>
  /\ rcv' = SubSeq(rcv, Taken + 1, Len(rcv))
  /\ IF Len(Filled) = PACKET_SIZE
     THEN /\ packet_buffer' = << >>
          /\ out' = Filled
          /\ handled' = handled + 1
          /\ session' = "wait"
     ELSE packet_buffer' = Filled /\ UNCHANGED <<out, handled, session>>
  /\ UNCHANGED <<sendVars, net, link, interest, edge>>

\* recv returns bytes; a full buffer is handled as a packet and cleared.
Recv ==
  /\ session = "read" /\ rcv # << >>
  /\ rcv' = SubSeq(rcv, Taken + 1, Len(rcv))
  /\ IF Len(Filled) = PACKET_SIZE
     THEN packet_buffer' = << >> /\ out' = Filled /\ handled' = handled + 1
     ELSE packet_buffer' = Filled /\ UNCHANGED <<out, handled>>
  /\ UNCHANGED <<sendVars, net, link, interest, edge, session>>

\* Mutant: the end of the stream is taken for a socket without data.
RecvNothing_eof ==
  /\ session = "read" /\ rcv = << >>
  /\ session' = "wait"
  /\ UNCHANGED <<sendVars, net, rcv, link, interest, edge, packet_buffer, out,
                 handled>>

\* recv returns nothing: EAGAIN, the end of the stream, or an error.
RecvNothing ==
  /\ session = "read" /\ rcv = << >>
  /\ session' = IF link \in {"eof", "reset"} THEN "closed" ELSE "wait"
  /\ UNCHANGED <<sendVars, net, rcv, link, interest, edge, packet_buffer, out,
                 handled>>

----------------------------------------------------------------------------

\* The receiver has accepted the connection, or is about to see it writable.
Init ==
  /\ sending = FALSE /\ total_sent = 0 /\ sent = << >>
  /\ tries = 0 /\ timeouts = 0 /\ torn = FALSE
  /\ net = << >> /\ rcv = << >>
  /\ link = "open"
  /\ \/ interest = "in" /\ edge = FALSE
     \/ interest = "inout" /\ edge = TRUE
  /\ session = "wait"
  /\ packet_buffer = << >>
  /\ out \in {Whole(p) : p \in Packets}
  /\ handled = 0

Sender == SendError \/ \E p \in Packets, k \in 1..PACKET_SIZE : SendBytes(p, k)
Network == ArriveEnd \/ \E k \in 1..BufferSize : Arrive(k)
Engine == EpollWait \/ Writable \/ Recv \/ RecvNothing

Next == StartSend \/ GiveUp \/ Close \/ Reset \/ Sender \/ Network \/ Engine

Spec == Init /\ [][Next]_vars

\* The sender's engine goes on sending, TCP delivers, the receiver's engine
\* serves its events.
FairSpec == Spec /\ WF_vars(Sender) /\ WF_vars(Network) /\ WF_vars(Engine)

----------------------------------------------------------------------------
(* Properties. *)

\* Every variable keeps its type; the packet buffer never overflows.
TypeOK ==
  /\ sending \in BOOLEAN /\ torn \in BOOLEAN /\ edge \in BOOLEAN
  /\ total_sent \in 0..PACKET_SIZE
  /\ sent \in Seq(Packets)
  /\ tries \in 0..MaxPackets /\ timeouts \in 0..MaxTimeouts
  /\ net \in Seq(Byte) /\ rcv \in Seq(Byte)
  /\ Room >= 0
  /\ link \in {"open", "fin", "eof", "reset"}
  /\ interest \in {"in", "inout"}
  /\ session \in {"wait", "out", "read", "closed"}
  /\ packet_buffer \in Seq(Byte) /\ Len(packet_buffer) < PACKET_SIZE
  /\ out \in Seq(Byte) /\ Len(out) = PACKET_SIZE
  /\ handled \in Nat

\* No edge is lost: when the engine sleeps and the socket has something to
\* say, epoll will return the session, also if the data arrived together
\* with the EPOLLOUT event, whose branch does not read.
NoLostEdge == session = "wait" /\ Readable => edge

\* Packet i of the stream, complete, is handled in the end, unless a packet
\* was torn or the connection broke.
PacketsHandled ==
  \A i \in 1..MaxPackets :
    Len(sent) > i \/ (Len(sent) = i /\ total_sent = PACKET_SIZE)
      ~> handled >= i \/ torn \/ link = "reset"

\* A connection that ends is noticed and its session closed, whatever is in
\* the packet buffer.
SessionCloses == link \in {"fin", "reset"} ~> session = "closed"

\* The bytes of a whole packet stand for that packet; a buffer with bytes of
\* two packets for none.
Decode(bytes) ==
  IF \E p \in Packets : bytes = Whole(p)
  THEN CHOOSE p \in Packets : bytes = Whole(p) ELSE "garbage"

\* As long as no packet is torn, the stream is the queue of packets that
\* TeleportDSM takes it for: packets come out whole, each once, in order.  A
\* send that is given up before its first byte leaves no trace.
Abstract == INSTANCE FIFO WITH
  Requests <- Packets, Capacity <- MaxPackets,
  q <- SubSeq(sent, handled + 1, Len(sent)), out <- Decode(out)
FIFOUntilTorn ==
  Abstract!Init /\ [][torn' \/ Abstract!Next]_<<sent, handled, Decode(out)>>
=============================================================================
