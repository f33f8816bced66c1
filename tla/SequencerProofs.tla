--------------------------- MODULE SequencerProofs ---------------------------
(***************************************************************************)
(* For any number of nodes and any number of stalled or lost connections:  *)
(* the sequencer of coordinator_sequencer.c keeps its types, closes no     *)
(* transaction before every node it concerns has settled, and implements   *)
(* MSI.                                                                    *)
(*                                                                         *)
(* A step of the sequencer may complete one transaction and start another, *)
(* so the invariant is stated for a channel function ch, a function from   *)
(* of the packets of the nodes, a queue q and an active node act, which    *)
(* are the variables, or the state between the two transactions.           *)
(***************************************************************************)
EXTENDS Sequencer, FiniteSetTheorems, SequenceTheorems, TLAPS

(* The channels. *)

ToPacket == {"SEND_PAGE", "INVALIDATE"}
FromPacket == ReqType \cup {"ACK"}

Once(s, x) == \A i, j \in DOMAIN s : s[i] = x /\ s[j] = x => i = j

\* On the way to a node: at most one packet of each type, INVALIDATE last.
ToOK(s) ==
  /\ s \in Seq(ToPacket)
  /\ \A x \in ToPacket : Once(s, x)
  /\ \A i, j \in DOMAIN s : s[i] = "INVALIDATE" /\ s[j] = "SEND_PAGE" => j < i

\* On the way from a node that waits for w: at most its request and one ack.
FromOK(s, w) ==
  /\ s \in Seq(FromPacket)
  /\ \A x \in FromPacket : Once(s, x)
  /\ \A x \in ReqType : Has(s, x) => w = x

HoldingIn(ch, n) == copy[n] # "INVALID" \/ Has(ch[n], "SEND_PAGE")
WritableIn(ch, n) ==
  copy[n] = "MODIFIED" \/ (Has(ch[n], "SEND_PAGE") /\ waiting[n] = "WRITE")
OwesIn(ch, from, n) == Has(ch[n], "INVALIDATE") \/ Has(from[n], "ACK")

\* Where the request of n is: on its way, in the queue, being executed, or
\* answered.
AsksIn(s) == Has(s, "READ") \/ Has(s, "WRITE")
Asking(from, n) == AsksIn(from[n])
Deferred(q, n) == \E i \in DOMAIN q : q[i].node = n
Granted(ch, n) == Has(ch[n], "SEND_PAGE")

\* A node has one request at a time and knows what it has asked for.
Requests(ch, from, q, act) ==
  \A n \in Nodes :
    /\ waiting[n] = "none" => ~Asking(from, n) /\ ~Deferred(q, n)
                              /\ ~Granted(ch, n) /\ n # act
    /\ Asking(from, n) => ~Deferred(q, n) /\ ~Granted(ch, n) /\ n # act
    /\ Deferred(q, n) => ~Granted(ch, n) /\ n # act
    /\ Granted(ch, n) => n # act
    /\ waiting[n] = "READ" => copy[n] = "INVALID"
    /\ waiting[n] = "WRITE" => copy[n] # "MODIFIED"

\* The deferred requests are of different nodes.
QueueOK(q) ==
  /\ q \in Seq(Request)
  /\ \A i \in DOMAIN q : q[i].type = waiting[q[i].node]
  /\ \A i, j \in DOMAIN q : q[i].node = q[j].node => i = j

\* An INVALIDATE is the last packet on its way to a node, and a node that
\* has acknowledged has no copy and is sent none.
Channels(ch, from) ==
  /\ ch = [n \in Nodes |-> ch[n]] /\ from = [n \in Nodes |-> from[n]]
  /\ \A n \in Nodes :
       /\ ToOK(ch[n])
       /\ FromOK(from[n], waiting[n])
       /\ Has(from[n], "ACK") =>
            /\ copy[n] = "INVALID"
            /\ \A x \in ToPacket : ~Has(ch[n], x)

\* Nobody has a copy beside a writer, granted ones included.
Exclusive(ch) ==
  \A n, m \in Nodes : WritableIn(ch, n) /\ HoldingIn(ch, m) => n = m

\* A writer is the owner, and only a MODIFIED entry has one.
DirectoryOK(e) == e \in Entry /\ (e.state = "MODIFIED" <=> e.owner \in Nodes)

Network(ch, from, q, act) ==
  /\ Channels(ch, from)
  /\ Requests(ch, from, q, act)
  /\ QueueOK(q)
  /\ Exclusive(ch)

\* No transaction is active and nobody has anything to settle, by entry e.
Quiet(e, ch, from, q) ==
  /\ Network(ch, from, q, NoNode)
  /\ \A n \in Nodes :
       /\ ~OwesIn(ch, from, n)
       /\ HoldingIn(ch, n) => n \in holders_mask(e)
       /\ WritableIn(ch, n) => n = e.owner

\* The request of n is none of those on their way, deferred or granted.
Free(ch, from, q, n) ==
  /\ waiting[n] \in ReqType
  /\ ~Asking(from, n) /\ ~Deferred(q, n) /\ ~Granted(ch, n)

\* Entry e has been changed for the request of n.
Recorded(e, n) ==
  /\ waiting[n] = "WRITE" => e.state = "MODIFIED" /\ e.owner = n
  /\ waiting[n] = "READ" =>
       e.state = "SHARED" /\ e.owner = NoNode /\ n \in e.sharers

\* The variables that the sequencer's functions leave alone.
Static ==
  /\ node_fds \subseteq Nodes /\ stalled \subseteq Nodes
  /\ faults \in 0..MaxFaults
  /\ faults = 0 => node_fds = Nodes /\ stalled = {}
  /\ copy \in [Nodes -> {"MODIFIED", "SHARED", "INVALID"}]
  /\ waiting \in [Nodes -> ReqType \cup {"none"}]

\* What the directory already says of the request that is being executed.
ActiveOK ==
  /\ transaction_active \in BOOLEAN
  /\ transaction_active <=> active_node # NoNode
  /\ transaction_active =>
       /\ active_node \in Nodes
       /\ ~Owes(active_node)
       /\ Recorded(entry, active_node)

Unsettled == {n \in Nodes : Owes(n) \/ Beyond(n)}
Owing == {n \in Nodes : Owes(n)}

Inv ==
  /\ Static
  /\ DirectoryOK(entry)
  /\ Network(toNode, fromNode, queue, active_node)
  /\ ActiveOK
  /\ expected_acks \in Nat
  /\ Cardinality(Unsettled) <= expected_acks
  /\ faults = 0 => expected_acks <= Cardinality(Owing)
  /\ expected_acks > 0 => transaction_active

----------------------------------------------------------------------------
(* Sequences of packets. *)

LEMMA HasAppend ==
  ASSUME NEW T, NEW s \in Seq(T), NEW x \in T, NEW y
  PROVE  /\ Has(Append(s, x), y) <=> Has(s, y) \/ x = y
         /\ Once(s, y) /\ (x = y => ~Has(s, y)) => Once(Append(s, x), y)
<1>1. /\ Append(s, x) \in Seq(T) /\ Len(s) \in Nat
      /\ DOMAIN s = 1..Len(s) /\ DOMAIN Append(s, x) = 1..(Len(s) + 1)
      /\ \A i \in 1..Len(s) : Append(s, x)[i] = s[i]
      /\ Append(s, x)[Len(s) + 1] = x
  BY AppendProperties, LenProperties
<1>2. \A i \in 1..(Len(s) + 1) : i \in 1..Len(s) \/ i = Len(s) + 1
  BY <1>1
<1>3. 1..Len(s) \subseteq 1..(Len(s) + 1) /\ Len(s) + 1 \in 1..(Len(s) + 1)
  BY <1>1
<1>4. Has(Append(s, x), y) <=> Has(s, y) \/ x = y
  BY <1>1, <1>2, <1>3 DEF Has
<1>5. ASSUME Once(s, y), x = y => ~Has(s, y) PROVE Once(Append(s, x), y)
  BY <1>1, <1>2, <1>5 DEF Once, Has
<1> QED
  BY <1>4, <1>5

LEMMA HasTail ==
  ASSUME NEW T, NEW s \in Seq(T), s # << >>, NEW y
  PROVE  /\ Head(s) = y => Has(s, y)
         /\ Once(s, y) => (Has(Tail(s), y) <=> Has(s, y) /\ Head(s) # y)
         /\ Once(s, y) => Once(Tail(s), y)
<1>1. /\ Tail(s) \in Seq(T) /\ Len(s) \in Nat \ {0}
      /\ DOMAIN s = 1..Len(s) /\ DOMAIN Tail(s) = 1..(Len(s) - 1)
      /\ \A i \in 1..(Len(s) - 1) : Tail(s)[i] = s[i + 1]
      /\ Head(s) = s[1]
  BY HeadTailProperties, LenProperties, EmptySeq
<1>2. \A i \in 1..Len(s) : i = 1 \/ (i - 1 \in 1..(Len(s) - 1) /\ (i - 1) + 1 = i)
  BY <1>1
<1>3. \A i \in 1..(Len(s) - 1) : i + 1 \in 1..Len(s) /\ i + 1 # 1
  BY <1>1
<1>4. 1 \in 1..Len(s)
  BY <1>1
<1>5. Head(s) = y => Has(s, y)
  BY <1>1, <1>4 DEF Has
<1>6. ASSUME Once(s, y) PROVE Has(Tail(s), y) <=> Has(s, y) /\ Head(s) # y
  <2>1. ASSUME Has(Tail(s), y) PROVE Has(s, y) /\ Head(s) # y
    BY <1>1, <1>3, <1>4, <1>6, <2>1 DEF Has, Once
  <2>2. ASSUME Has(s, y), Head(s) # y PROVE Has(Tail(s), y)
    <3>1. PICK i \in 1..Len(s) : s[i] = y
      BY <1>1, <2>2 DEF Has
    <3>2. i - 1 \in 1..(Len(s) - 1) /\ Tail(s)[i - 1] = y
      BY <1>1, <1>2, <2>2, <3>1
    <3> QED
      BY <1>1, <3>2 DEF Has
  <2> QED
    BY <2>1, <2>2
<1>7. ASSUME Once(s, y) PROVE Once(Tail(s), y)
  <2> SUFFICES ASSUME NEW i \in 1..(Len(s) - 1), NEW j \in 1..(Len(s) - 1),
                      Tail(s)[i] = y, Tail(s)[j] = y
               PROVE  i = j
    BY <1>1 DEF Once
  <2>1. i + 1 = j + 1
    BY <1>1, <1>3, <1>7 DEF Once
  <2> QED
    BY <2>1
<1> QED
  BY <1>5, <1>6, <1>7

\* Sending to a node.
LEMMA ToSend ==
  ASSUME NEW s, ToOK(s)
  PROVE  /\ ~Has(s, "SEND_PAGE") /\ ~Has(s, "INVALIDATE") =>
              ToOK(Append(s, "SEND_PAGE"))
         /\ ~Has(s, "INVALIDATE") => ToOK(Append(s, "INVALIDATE"))
<1>1. s \in Seq(ToPacket) /\ "SEND_PAGE" \in ToPacket /\ "INVALIDATE" \in ToPacket
  BY DEF ToOK, ToPacket
<1>2. ASSUME NEW x \in ToPacket, ~Has(s, x), ~Has(s, "INVALIDATE")
      PROVE  ToOK(Append(s, x))
  <2>1. Append(s, x) \in Seq(ToPacket)
    BY <1>1, AppendProperties
  <2>2. \A y \in ToPacket : Once(Append(s, x), y)
    BY <1>1, <1>2, HasAppend DEF ToOK
  <2>3. ASSUME NEW i \in DOMAIN Append(s, x), NEW j \in DOMAIN Append(s, x),
               Append(s, x)[i] = "INVALIDATE", Append(s, x)[j] = "SEND_PAGE"
        PROVE  j < i
    <3>1. /\ Len(s) \in Nat
          /\ DOMAIN s = 1..Len(s) /\ DOMAIN Append(s, x) = 1..(Len(s) + 1)
          /\ \A k \in 1..Len(s) : Append(s, x)[k] = s[k]
      BY <1>1, AppendProperties, LenProperties
    <3>2. i = Len(s) + 1
      BY <1>2, <2>3, <3>1 DEF Has
    <3>3. i # j
      BY <2>3
    <3> QED
      BY <3>1, <3>2, <3>3
  <2> QED
    BY <2>1, <2>2, <2>3 DEF ToOK
<1>3. ASSUME ~Has(s, "INVALIDATE") PROVE ToOK(Append(s, "INVALIDATE"))
  BY <1>1, <1>2, <1>3
<1>4. ASSUME ~Has(s, "SEND_PAGE"), ~Has(s, "INVALIDATE")
      PROVE  ToOK(Append(s, "SEND_PAGE"))
  BY <1>1, <1>2, <1>4
<1> QED
  BY <1>3, <1>4

\* A node receives a packet: an INVALIDATE is the last one.
LEMMA ToReceive ==
  ASSUME NEW s, ToOK(s), s # << >>
  PROVE  /\ ToOK(Tail(s))
         /\ Head(s) \in ToPacket
         /\ \A x \in ToPacket : Has(Tail(s), x) <=> Has(s, x) /\ Head(s) # x
         /\ Head(s) = "INVALIDATE" => ~Has(s, "SEND_PAGE")
<1>1. s \in Seq(ToPacket)
  BY DEF ToOK
<1>2. \A x \in ToPacket : /\ Has(Tail(s), x) <=> Has(s, x) /\ Head(s) # x
                          /\ Once(Tail(s), x)
  BY <1>1, HasTail DEF ToOK
<1>3. /\ Tail(s) \in Seq(ToPacket) /\ Len(s) \in Nat \ {0}
      /\ DOMAIN s = 1..Len(s) /\ DOMAIN Tail(s) = 1..(Len(s) - 1)
      /\ \A i \in 1..(Len(s) - 1) : Tail(s)[i] = s[i + 1]
      /\ Head(s) = s[1] /\ Head(s) \in ToPacket
  BY <1>1, HeadTailProperties, LenProperties, EmptySeq
<1>4. ASSUME NEW i \in 1..(Len(s) - 1), NEW j \in 1..(Len(s) - 1),
             Tail(s)[i] = "INVALIDATE", Tail(s)[j] = "SEND_PAGE"
      PROVE  j < i
  <2>1. i + 1 \in 1..Len(s) /\ j + 1 \in 1..Len(s)
    BY <1>3
  <2>2. j + 1 < i + 1
    BY <1>3, <1>4, <2>1 DEF ToOK
  <2> QED
    BY <2>2
<1>5. Head(s) = "INVALIDATE" => ~Has(s, "SEND_PAGE")
  <2> SUFFICES ASSUME s[1] = "INVALIDATE", NEW j \in 1..Len(s), s[j] = "SEND_PAGE"
               PROVE  FALSE
    BY <1>3 DEF Has
  <2>1. 1 \in 1..Len(s)
    BY <1>3
  <2>2. j < 1
    BY <1>3, <2>1 DEF ToOK
  <2> QED
    BY <2>2
<1> QED
  BY <1>2, <1>3, <1>4, <1>5 DEF ToOK

\* A node sends its request, or an ack.
LEMMA FromSend ==
  ASSUME NEW s, NEW w, FromOK(s, w)
  PROVE  /\ ~Has(s, "ACK") => FromOK(Append(s, "ACK"), w)
         /\ w = "none" =>
              /\ ~AsksIn(s)
              /\ \A v \in ReqType : FromOK(Append(s, v), v)
         /\ ~AsksIn(s) => \A v : FromOK(s, v)
<1>1. s \in Seq(FromPacket) /\ "ACK" \in FromPacket /\ ReqType \subseteq FromPacket
      /\ "ACK" \notin ReqType
  BY DEF FromOK, FromPacket, ReqType
<1>2. ASSUME NEW x \in FromPacket PROVE Append(s, x) \in Seq(FromPacket)
  BY <1>1, AppendProperties
<1>3. ASSUME ~Has(s, "ACK") PROVE FromOK(Append(s, "ACK"), w)
  BY <1>1, <1>2, <1>3, HasAppend DEF FromOK
<1>4. ASSUME w = "none" PROVE ~AsksIn(s)
  BY <1>4 DEF FromOK, AsksIn, ReqType
<1>5. ASSUME w = "none", NEW v \in ReqType PROVE FromOK(Append(s, v), v)
  <2>1. \A x \in ReqType : ~Has(s, x)
    BY <1>4, <1>5 DEF AsksIn, ReqType
  <2> QED
    BY <1>1, <1>2, <2>1, HasAppend DEF FromOK
<1>6. ASSUME ~AsksIn(s), NEW v PROVE FromOK(s, v)
  BY <1>6 DEF FromOK, AsksIn, ReqType
<1> QED
  BY <1>3, <1>4, <1>5, <1>6

\* The sequencer is handed what a node has sent.
LEMMA FromReceive ==
  ASSUME NEW s, NEW w, FromOK(s, w), s # << >>
  PROVE  /\ FromOK(Tail(s), w)
         /\ Head(s) \in FromPacket /\ Has(s, Head(s))
         /\ Head(s) \in ReqType => Head(s) = w /\ AsksIn(s) /\ ~AsksIn(Tail(s))
         /\ Has(Tail(s), "ACK") <=> Has(s, "ACK") /\ Head(s) # "ACK"
         /\ Head(s) = "ACK" => (AsksIn(Tail(s)) <=> AsksIn(s))
<1>1. s \in Seq(FromPacket) /\ Head(s) \in FromPacket /\ Tail(s) \in Seq(FromPacket)
  BY HeadTailProperties DEF FromOK
<1>2. \A x \in FromPacket : /\ Has(Tail(s), x) <=> Has(s, x) /\ Head(s) # x
                            /\ Once(Tail(s), x)
  BY <1>1, HasTail DEF FromOK
<1>3. Has(s, Head(s))
  BY <1>1, HasTail
<1>4. FromOK(Tail(s), w)
  BY <1>1, <1>2 DEF FromOK, FromPacket
<1>5. Head(s) \in ReqType => Head(s) = w
  BY <1>3 DEF FromOK
<1> QED
  BY <1>1, <1>2, <1>3, <1>4, <1>5 DEF FromOK, FromPacket, AsksIn, ReqType

----------------------------------------------------------------------------
(* Transactions. *)

LEMMA Types ==
  /\ ReqType = {"READ", "WRITE"} /\ "none" \notin ReqType
  /\ ToPacket = {"SEND_PAGE", "INVALIDATE"}
  /\ NoNode \notin Nodes
  BY NoNodeAssumption DEF ReqType, ToPacket

\* What a packet changes for one node.
LEMMA Sending ==
  ASSUME NEW ch, NEW dests, NEW pkt \in ToPacket, NEW n \in Nodes, ToOK(ch[n])
  PROVE  LET d == send_packet_to_node(ch, dests, pkt)
         IN /\ d[n] = ch[n] \/ (n \in dests /\ d[n] = Append(ch[n], pkt))
            /\ n \in dests \cap (node_fds \ stalled) => Has(d[n], pkt)
            /\ \A x \in ToPacket : Has(ch[n], x) => Has(d[n], x)
            /\ \A x \in ToPacket :
                 Has(d[n], x) => Has(ch[n], x) \/ (x = pkt /\ n \in dests)
<1> DEFINE d == send_packet_to_node(ch, dests, pkt)
<1>1. d[n] = IF n \in dests \cap (node_fds \ stalled)
             THEN Append(ch[n], pkt) ELSE ch[n]
  BY DEF send_packet_to_node
<1>2. ch[n] \in Seq(ToPacket)
  BY DEF ToOK
<1>3. \A x : Has(Append(ch[n], pkt), x) <=> Has(ch[n], x) \/ pkt = x
  BY <1>2, HasAppend
<1> HIDE DEF d
<1>4. /\ d[n] = ch[n] \/ (n \in dests /\ d[n] = Append(ch[n], pkt))
      /\ n \in dests \cap (node_fds \ stalled) => Has(d[n], pkt)
      /\ \A x \in ToPacket : Has(ch[n], x) => Has(d[n], x)
      /\ \A x \in ToPacket :
           Has(d[n], x) => Has(ch[n], x) \/ (x = pkt /\ n \in dests)
  BY <1>1, <1>3
<1> QED
  BY <1>4 DEF d

\* A grant for which the directory is ready leaves nothing to settle.
LEMMA GrantQuiet ==
  ASSUME Static, NEW e, NEW ch, NEW from, NEW q, NEW n \in Nodes,
         Quiet(e, ch, from, q), Free(ch, from, q, n), Recorded(e, n)
  PROVE  Quiet(e, send_packet_to_node(ch, {n}, "SEND_PAGE"), from, q)
<1> DEFINE d == send_packet_to_node(ch, {n}, "SEND_PAGE")
<1> USE Types
<1>0. d = [m \in Nodes |-> d[m]]
  BY DEF send_packet_to_node
<1>1. \A m \in Nodes : /\ d[m] = ch[m] \/ (m = n /\ d[m] = Append(ch[m], "SEND_PAGE"))
                       /\ Has(d[m], "INVALIDATE") => Has(ch[m], "INVALIDATE")
                       /\ Has(d[m], "SEND_PAGE") => Has(ch[m], "SEND_PAGE") \/ m = n
  <2> SUFFICES ASSUME NEW m \in Nodes
               PROVE  /\ d[m] = ch[m] \/ (m = n /\ d[m] = Append(ch[m], "SEND_PAGE"))
                      /\ Has(d[m], "INVALIDATE") => Has(ch[m], "INVALIDATE")
                      /\ Has(d[m], "SEND_PAGE") => Has(ch[m], "SEND_PAGE") \/ m = n
    OBVIOUS
  <2>1. ToOK(ch[m])
    BY DEF Quiet, Network, Channels
  <2> QED
    BY <2>1, Sending
<1> HIDE DEF d
<1>2. \A m \in Nodes : ~Has(ch[m], "INVALIDATE") /\ ~Has(from[m], "ACK")
  BY DEF Quiet, OwesIn
<1>3. ~Has(ch[n], "SEND_PAGE")
  BY DEF Free, Granted
<1>4. \A m \in Nodes : ToOK(d[m])
  BY <1>1, <1>2, <1>3, ToSend DEF Quiet, Network, Channels
<1>5. Channels(d, from)
  BY <1>0, <1>2, <1>4 DEF Channels, Quiet, Network
<1>6. Requests(d, from, q, NoNode)
  BY <1>1 DEF Requests, Quiet, Network, Free, Granted
<1>7. \A m \in Nodes : ~OwesIn(d, from, m)
  BY <1>1, <1>2 DEF OwesIn
<1>8. \A m \in Nodes : HoldingIn(d, m) => HoldingIn(ch, m) \/ m = n
  BY <1>1 DEF HoldingIn
<1>9. \A m \in Nodes : WritableIn(d, m) =>
        WritableIn(ch, m) \/ (m = n /\ waiting[n] = "WRITE")
  BY <1>1 DEF WritableIn
<1>10. n \in holders_mask(e)
  BY DEF holders_mask, Free, Recorded
<1>11. ASSUME waiting[n] = "WRITE" PROVE Quiet(e, d, from, q)
  <2>1. e.owner = n /\ \A m \in Nodes : HoldingIn(ch, m) => m = n
    BY <1>11 DEF Quiet, holders_mask, Recorded
  <2>2. \A m \in Nodes : WritableIn(ch, m) => m = n
    BY <2>1 DEF Quiet
  <2>3. Exclusive(d)
    BY <1>8, <1>9, <2>1, <2>2 DEF Exclusive
  <2> QED
    BY <1>5, <1>6, <1>7, <1>8, <1>9, <1>10, <2>1, <2>2, <2>3 DEF Quiet, Network
<1>12. ASSUME waiting[n] = "READ" PROVE Quiet(e, d, from, q)
  <2>1. \A m \in Nodes : ~WritableIn(ch, m)
    BY <1>12 DEF Quiet, Recorded
  <2>2. \A m \in Nodes : ~WritableIn(d, m)
    BY <1>9, <1>12, <2>1
  <2>3. Exclusive(d)
    BY <2>2 DEF Exclusive
  <2> QED
    BY <1>5, <1>6, <1>7, <1>8, <1>10, <2>2, <2>3 DEF Quiet, Network
<1> QED
  BY <1>11, <1>12 DEF Free, d

\* Invalidations start a transaction of n: only their receivers owe an ack.
LEMMA InvalidateSent ==
  ASSUME Static, NEW e, NEW ch, NEW from, NEW q, NEW n \in Nodes, NEW D,
         Quiet(e, ch, from, q), Free(ch, from, q, n)
  PROVE  LET d == send_packet_to_node(ch, D, "INVALIDATE")
         IN /\ Network(d, from, q, n)
            /\ \A m \in Nodes :
                 /\ OwesIn(d, from, m) => m \in D
                 /\ faults = 0 /\ m \in D => OwesIn(d, from, m)
                 /\ HoldingIn(d, m) <=> HoldingIn(ch, m)
                 /\ WritableIn(d, m) <=> WritableIn(ch, m)
<1> DEFINE d == send_packet_to_node(ch, D, "INVALIDATE")
<1> USE Types
<1>0. d = [m \in Nodes |-> d[m]]
  BY DEF send_packet_to_node
<1>1. \A m \in Nodes : /\ d[m] = ch[m] \/ (m \in D /\ d[m] = Append(ch[m], "INVALIDATE"))
                       /\ Has(d[m], "INVALIDATE") => Has(ch[m], "INVALIDATE") \/ m \in D
                       /\ Has(d[m], "SEND_PAGE") <=> Has(ch[m], "SEND_PAGE")
                       /\ faults = 0 /\ m \in D => Has(d[m], "INVALIDATE")
  <2> SUFFICES ASSUME NEW m \in Nodes
               PROVE  /\ d[m] = ch[m] \/ (m \in D /\ d[m] = Append(ch[m], "INVALIDATE"))
                      /\ Has(d[m], "INVALIDATE") => Has(ch[m], "INVALIDATE") \/ m \in D
                      /\ Has(d[m], "SEND_PAGE") <=> Has(ch[m], "SEND_PAGE")
                      /\ faults = 0 /\ m \in D => Has(d[m], "INVALIDATE")
    OBVIOUS
  <2>1. ToOK(ch[m])
    BY DEF Quiet, Network, Channels
  <2>2. faults = 0 => m \in node_fds \ stalled
    BY DEF Static
  <2> QED
    BY <2>1, <2>2, Sending
<1> HIDE DEF d
<1>2. \A m \in Nodes : ~Has(ch[m], "INVALIDATE") /\ ~Has(from[m], "ACK")
  BY DEF Quiet, OwesIn
<1>3. \A m \in Nodes : ToOK(d[m])
  BY <1>1, <1>2, ToSend DEF Quiet, Network, Channels
<1>4. Channels(d, from)
  BY <1>0, <1>2, <1>3 DEF Channels, Quiet, Network
<1>5. Requests(d, from, q, n)
  BY <1>1 DEF Requests, Quiet, Network, Free, Granted
<1>6. \A m \in Nodes : /\ HoldingIn(d, m) <=> HoldingIn(ch, m)
                       /\ WritableIn(d, m) <=> WritableIn(ch, m)
  BY <1>1 DEF HoldingIn, WritableIn
<1>7. Exclusive(d)
  BY <1>6 DEF Exclusive, Quiet, Network
<1>8. \A m \in Nodes : /\ OwesIn(d, from, m) => m \in D
                       /\ faults = 0 /\ m \in D => OwesIn(d, from, m)
  BY <1>1, <1>2 DEF OwesIn
<1> QED
  BY <1>4, <1>5, <1>6, <1>7, <1>8 DEF Network, Quiet, d

\* The invariant of the next state, when the nodes and the connections stay
\* as they are.
LEMMA NetworkNext ==
  ASSUME UNCHANGED <<nodeVars, linkVars>>, NEW act,
         Network(toNode', fromNode', queue', act), act = active_node'
  PROVE  Network(toNode, fromNode, queue, active_node)'
<1>1. Channels(toNode, fromNode)'
  BY DEF Network, Channels, nodeVars
<1>2. Requests(toNode, fromNode, queue, active_node)'
  BY DEF Network, Requests, Asking, Deferred, Granted, nodeVars
<1>3. QueueOK(queue)'
  BY DEF Network, QueueOK, nodeVars
<1>4. Exclusive(toNode)'
  BY DEF Network, Exclusive, WritableIn, HoldingIn, nodeVars
<1> QED
  BY <1>1, <1>2, <1>3, <1>4 DEF Network

LEMMA StaticNext ==
  ASSUME Static, UNCHANGED <<nodeVars, linkVars>>
  PROVE  Static'
  BY DEF Static, nodeVars, linkVars

\* Nothing to settle and no transaction.
LEMMA QuietInv ==
  ASSUME Static, UNCHANGED <<nodeVars, linkVars>>, DirectoryOK(entry'),
         Quiet(entry', toNode', fromNode', queue'),
         End, expected_acks' = 0
  PROVE  Inv'
<1>1. Network(toNode, fromNode, queue, active_node)'
  BY NetworkNext DEF Quiet, End
<1>2. ActiveOK'
  BY DEF ActiveOK, End
<1>3. \A m \in Nodes : ~Owes(m)' /\ ~Beyond(m)'
  BY DEF Owes, Beyond, Holding, Writable, Quiet, OwesIn, HoldingIn, WritableIn, nodeVars
<1>4. Unsettled' = {}
  BY <1>3 DEF Unsettled
<1>5. Cardinality(Unsettled') = 0
  BY <1>4, FS_EmptySet
<1>6. Cardinality(Owing') \in Nat
  <2>1. Owing' = {}
    BY <1>3 DEF Owing
  <2> QED
    BY <2>1, FS_EmptySet
<1>7. DirectoryOK(entry)'
  BY DEF DirectoryOK
<1> QED
  BY <1>1, <1>2, <1>5, <1>6, <1>7, StaticNext DEF Inv

\* The transaction of n waits for the nodes of D.
LEMMA WaitingInv ==
  ASSUME Static, UNCHANGED <<nodeVars, linkVars>>, DirectoryOK(entry'),
         NEW n \in Nodes, NEW D \in SUBSET (Nodes \ {n}), D # {},
         Network(toNode', fromNode', queue', n), Recorded(entry', n),
         Begin(n), expected_acks' = Cardinality(D),
         \A m \in Nodes :
           /\ OwesIn(toNode', fromNode', m) => m \in D
           /\ faults = 0 /\ m \in D => OwesIn(toNode', fromNode', m)
           /\ HoldingIn(toNode', m) => m \in D \/ m \in holders_mask(entry')
           /\ WritableIn(toNode', m) => m \in D \/ m = entry'.owner
  PROVE  Inv'
<1> USE Types
<1>1. Network(toNode, fromNode, queue, active_node)'
  BY NetworkNext DEF Begin
<1>2. \A m \in Nodes : Owes(m)' <=> OwesIn(toNode', fromNode', m)
  BY DEF Owes, OwesIn
<1>3. ActiveOK'
  BY <1>2 DEF ActiveOK, Begin, Recorded, nodeVars
<1>4. Unsettled' \subseteq D
  BY <1>2 DEF Unsettled, Beyond, Holding, Writable, HoldingIn, WritableIn, nodeVars
<1>5. faults' = 0 => Owing' = D
  BY <1>2 DEF Owing, linkVars
<1>6. IsFiniteSet(D)
  BY NodesAssumption, FS_Subset
<1>7. Cardinality(D) \in Nat /\ Cardinality(Unsettled') <= Cardinality(D)
  BY <1>4, <1>6, FS_Subset, FS_CardinalityType
<1>8. DirectoryOK(entry)'
  BY DEF DirectoryOK
<1> QED
  BY <1>1, <1>3, <1>5, <1>7, <1>8, StaticNext DEF Inv, Begin

\* A transaction starts when the one before it is complete, and there may be
\* none before it.
LEMMA ExecuteInv ==
  ASSUME Static, DirectoryOK(entry), UNCHANGED <<nodeVars, linkVars>>,
         NEW r \in Request, NEW ch,
         Quiet(entry, ch, fromNode', queue'),
         Free(ch, fromNode', queue', r.node), waiting[r.node] = r.type,
         execute_gpd_transaction(r, ch, 0)
  PROVE  Inv'
<1> DEFINE n == r.node
<1> USE Types
<1>0. n \in Nodes /\ r.type \in ReqType
  BY DEF Request
<1> HIDE DEF n
<1>1. CASE waiting[n] = "WRITE"
  <2> DEFINE D == invalidate_mask(entry, n)
  <2>1. ExecuteWrite(n, ch)
    BY <1>1 DEF execute_gpd_transaction, n
  <2>2. D \in SUBSET (Nodes \ {n})
    BY DEF invalidate_mask, holders_mask, DirectoryOK, Entry
  <2>3. /\ entry' = gpd_transition_to_modified(entry, n)
        /\ DirectoryOK(entry') /\ Recorded(entry', n)
        /\ holders_mask(entry') = {n} /\ entry'.owner = n
    BY <1>0, <1>1, <2>1 DEF ExecuteWrite, DirectoryOK, Recorded, Entry, MsiState,
                       gpd_transition_to_modified, holders_mask
  <2>4. \A m \in Nodes : /\ HoldingIn(ch, m) => m \in D \/ m = n
                         /\ WritableIn(ch, m) => m \in D \/ m = n
    <3>1. \A m \in Nodes : HoldingIn(ch, m) => m \in D \/ m = n
      BY DEF Quiet, invalidate_mask
    <3>2. \A m \in Nodes : WritableIn(ch, m) => HoldingIn(ch, m)
      BY DEF WritableIn, HoldingIn
    <3> QED
      BY <3>1, <3>2
  <2>5. CASE D # {}
    <3>1. /\ toNode' = send_packet_to_node(ch, D, "INVALIDATE")
          /\ Begin(n) /\ expected_acks' = Cardinality(D)
      BY <2>1, <2>5 DEF ExecuteWrite
    <3> HIDE DEF D
    <3>2. /\ Network(toNode', fromNode', queue', n)
          /\ \A m \in Nodes :
               /\ OwesIn(toNode', fromNode', m) => m \in D
               /\ faults = 0 /\ m \in D => OwesIn(toNode', fromNode', m)
               /\ HoldingIn(toNode', m) <=> HoldingIn(ch, m)
               /\ WritableIn(toNode', m) <=> WritableIn(ch, m)
      BY <1>0, <3>1, InvalidateSent DEF n
    <3> QED
      BY <1>0, <2>2, <2>3, <2>4, <2>5, <3>1, <3>2, WaitingInv
  <2>6. CASE D = {}
    <3>1. /\ toNode' = send_packet_to_node(ch, {n}, "SEND_PAGE")
          /\ End /\ expected_acks' = 0
      BY <2>1, <2>6, FS_EmptySet DEF ExecuteWrite
    <3>2. Quiet(entry', ch, fromNode', queue')
      BY <2>3, <2>4, <2>6 DEF Quiet
    <3>3. Quiet(entry', toNode', fromNode', queue')
      BY <1>0, <2>3, <3>1, <3>2, GrantQuiet DEF n
    <3> QED
      BY <2>3, <3>1, <3>3, QuietInv
  <2> QED
    BY <2>5, <2>6
<1>2. CASE waiting[n] = "READ"
  <2>1. ExecuteRead(n, ch, 0)
    BY <1>2 DEF execute_gpd_transaction, n
  <2>2. /\ entry' = gpd_transition_to_shared(entry, n)
        /\ DirectoryOK(entry') /\ Recorded(entry', n)
        /\ holders_mask(entry) \subseteq holders_mask(entry') /\ entry'.owner = NoNode
    BY <1>0, <1>2, <2>1 DEF ExecuteRead, DirectoryOK, Recorded, Entry, MsiState,
                       gpd_transition_to_shared, holders_mask
  <2>3. \A m \in Nodes : HoldingIn(ch, m) => m \in holders_mask(entry')
    BY <2>2 DEF Quiet
  <2>4. CASE entry.owner \notin {NoNode, n}
    <3> DEFINE D == {entry.owner}
    <3>1. /\ toNode' = send_packet_to_node(ch, D, "INVALIDATE")
          /\ Begin(n) /\ expected_acks' = Cardinality(D)
      BY <2>1, <2>4, FS_Singleton DEF ExecuteRead
    <3>2. D \in SUBSET (Nodes \ {n}) /\ D # {}
      BY <2>4 DEF DirectoryOK, Entry
    <3>3. \A m \in Nodes : WritableIn(ch, m) => m \in D
      BY DEF Quiet
    <3> HIDE DEF D
    <3>4. /\ Network(toNode', fromNode', queue', n)
          /\ \A m \in Nodes :
               /\ OwesIn(toNode', fromNode', m) => m \in D
               /\ faults = 0 /\ m \in D => OwesIn(toNode', fromNode', m)
               /\ HoldingIn(toNode', m) <=> HoldingIn(ch, m)
               /\ WritableIn(toNode', m) <=> WritableIn(ch, m)
      BY <1>0, <3>1, InvalidateSent DEF n
    <3> QED
      BY <1>0, <2>2, <2>3, <3>1, <3>2, <3>3, <3>4, WaitingInv
  <2>5. CASE entry.owner \in {NoNode, n}
    <3>1. /\ toNode' = send_packet_to_node(ch, {n}, "SEND_PAGE")
          /\ End /\ expected_acks' = 0
      BY <2>1, <2>5 DEF ExecuteRead
    <3>2. ~WritableIn(ch, n)
      BY <1>0, <1>2 DEF WritableIn, Quiet, Network, Requests, n
    <3>3. \A m \in Nodes : ~WritableIn(ch, m)
      BY <2>5, <3>2 DEF Quiet
    <3>4. Quiet(entry', ch, fromNode', queue')
      BY <2>3, <3>3 DEF Quiet
    <3>5. Quiet(entry', toNode', fromNode', queue')
      BY <1>0, <2>2, <3>1, <3>4, GrantQuiet DEF n
    <3> QED
      BY <2>2, <3>1, <3>5, QuietInv
  <2> QED
    BY <2>4, <2>5
<1> QED
  BY <1>0, <1>1, <1>2 DEF n

----------------------------------------------------------------------------
(* The sequencer's functions. *)

LEMMA InvNetwork ==
  ASSUME Inv, NEW m \in Nodes
  PROVE  /\ ToOK(toNode[m]) /\ FromOK(fromNode[m], waiting[m])
         /\ waiting[m] \in ReqType \cup {"none"}
         /\ active_node \in Nodes \cup {NoNode}
  BY Types DEF Inv, Network, Channels, Static, ActiveOK

\* Whatever is taken from a node, the network stays in order.
LEMMA TakenFrom ==
  ASSUME Inv, NEW p \in Nodes, fromNode[p] # << >>,
         fromNode' = [fromNode EXCEPT ![p] = Tail(@)]
  PROVE  /\ Network(toNode, fromNode', queue, active_node)
         /\ \A m \in Nodes : /\ fromNode'[m] = IF m = p THEN Tail(fromNode[p])
                                               ELSE fromNode[m]
                             /\ OwesIn(toNode, fromNode', m) => Owes(m)
<1>1. \A m \in Nodes : fromNode'[m] = IF m = p THEN Tail(fromNode[p]) ELSE fromNode[m]
  BY DEF Inv, Network, Channels
<1>2. fromNode' = [m \in Nodes |-> fromNode'[m]]
  BY DEF Inv, Network, Channels
<1>3. \A m \in Nodes : /\ FromOK(fromNode'[m], waiting[m])
                       /\ Has(fromNode'[m], "ACK") => Has(fromNode[m], "ACK")
                       /\ AsksIn(fromNode'[m]) => AsksIn(fromNode[m])
  <2> DEFINE s == fromNode[p]
  <2>1. FromOK(s, waiting[p]) /\ s # << >>
    BY InvNetwork
  <2> HIDE DEF s
  <2>2. /\ FromOK(Tail(s), waiting[p])
        /\ Has(Tail(s), "ACK") => Has(s, "ACK")
        /\ AsksIn(Tail(s)) => AsksIn(s)
    BY <2>1, FromReceive DEF FromPacket
  <2> QED
    BY <1>1, <2>2, InvNetwork DEF s
<1>4. Channels(toNode, fromNode')
  BY <1>2, <1>3 DEF Inv, Network, Channels
<1>5. Requests(toNode, fromNode', queue, active_node)
  BY <1>3 DEF Inv, Network, Requests, Asking
<1>6. \A m \in Nodes : OwesIn(toNode, fromNode', m) => Owes(m)
  BY <1>3 DEF OwesIn, Owes
<1> QED
  BY <1>1, <1>4, <1>5, <1>6 DEF Inv, Network

\* A request that is taken from a node is nowhere else.
LEMMA TakenRequest ==
  ASSUME Inv, NEW p \in Nodes, Requested(p)
  PROVE  /\ Network(toNode, fromNode', queue, active_node)
         /\ \A m \in Nodes : OwesIn(toNode, fromNode', m) <=> Owes(m)
         /\ Head(fromNode[p]) = waiting[p] /\ waiting[p] \in ReqType
         /\ Free(toNode, fromNode', queue, p) /\ p # active_node
<1>1. /\ fromNode[p] # << >> /\ Head(fromNode[p]) \in ReqType
      /\ fromNode' = [fromNode EXCEPT ![p] = Tail(@)]
  BY DEF Requested
<1>2. /\ Head(fromNode[p]) = waiting[p]
      /\ AsksIn(fromNode[p]) /\ ~AsksIn(Tail(fromNode[p]))
      /\ Has(Tail(fromNode[p]), "ACK") <=> Has(fromNode[p], "ACK")
  BY <1>1, InvNetwork, FromReceive, Types DEF ReqType
<1>3. /\ Network(toNode, fromNode', queue, active_node)
      /\ \A m \in Nodes : fromNode'[m] = IF m = p THEN Tail(fromNode[p])
                                         ELSE fromNode[m]
  BY <1>1, TakenFrom
<1>4. \A m \in Nodes : OwesIn(toNode, fromNode', m) <=> Owes(m)
  BY <1>2, <1>3 DEF OwesIn, Owes
<1>5. Asking(fromNode, p) /\ ~Asking(fromNode', p)
  BY <1>2, <1>3 DEF Asking
<1>6. Free(toNode, fromNode', queue, p) /\ p # active_node
  BY <1>1, <1>2, <1>5 DEF Free, Inv, Network, Requests
<1> QED
  BY <1>1, <1>2, <1>3, <1>4, <1>6

\* While no transaction is active there is nothing to settle.
LEMMA IdleQuiet ==
  ASSUME Inv, ~transaction_active
  PROVE  /\ expected_acks = 0
         /\ Quiet(entry, toNode, fromNode, queue)
<1>1. expected_acks = 0 /\ active_node = NoNode
  BY DEF Inv, ActiveOK
<1>2. IsFiniteSet(Unsettled) /\ Cardinality(Unsettled) \in Nat
  <2>1. Unsettled \subseteq Nodes
    BY DEF Unsettled
  <2> QED
    BY <2>1, NodesAssumption, FS_Subset, FS_CardinalityType
<1>3. Unsettled = {}
  <2>1. Cardinality(Unsettled) = 0
    BY <1>1, <1>2 DEF Inv
  <2> QED
    BY <1>2, <2>1, FS_EmptySet
<1>4. \A m \in Nodes : ~Owes(m) /\ ~Beyond(m)
  BY <1>3 DEF Unsettled
<1> QED
  BY <1>1, <1>4 DEF Quiet, Inv, Owes, OwesIn, Beyond, Holding, HoldingIn,
                    Writable, WritableIn

\* A request is deferred behind the ones before it.
LEMMA DeferNetwork ==
  ASSUME NEW ch, NEW from, NEW q, NEW act, NEW r \in Request,
         Network(ch, from, q, act), Free(ch, from, q, r.node), r.node # act,
         waiting[r.node] = r.type
  PROVE  Network(ch, from, Append(q, r), act)
<1> DEFINE d == Append(q, r)
<1>1. q \in Seq(Request)
  BY DEF Network, QueueOK
<1>2. /\ d \in Seq(Request) /\ Len(q) \in Nat
      /\ DOMAIN q = 1..Len(q) /\ DOMAIN d = 1..(Len(q) + 1)
      /\ \A i \in 1..Len(q) : d[i] = q[i]
      /\ d[Len(q) + 1] = r
  BY <1>1, AppendProperties, LenProperties
<1>3. \A i \in 1..(Len(q) + 1) : i \in 1..Len(q) \/ i = Len(q) + 1
  BY <1>2
<1> HIDE DEF d
<1>4. \A m : Deferred(d, m) => Deferred(q, m) \/ m = r.node
  BY <1>2, <1>3 DEF Deferred
<1>5. \A i \in 1..Len(q) : q[i].node # r.node
  BY <1>2 DEF Free, Deferred
<1>6. QueueOK(d)
  BY <1>2, <1>3, <1>5 DEF QueueOK, Network
<1>7. Requests(ch, from, d, act)
  BY <1>4, Types DEF Requests, Network, Free
<1> QED
  BY <1>6, <1>7 DEF Network, d

LEMMA RequestInv ==
  ASSUME Inv, NEW p \in Nodes, process_node_request(p)
  PROVE  Inv'
<1> DEFINE r == [node |-> p, type |-> Head(fromNode[p])]
<1>1. Requested(p) /\ UNCHANGED <<nodeVars, linkVars>>
  BY DEF process_node_request, Requested
<1>2. /\ Network(toNode, fromNode', queue, active_node)
      /\ \A m \in Nodes : OwesIn(toNode, fromNode', m) <=> Owes(m)
      /\ Free(toNode, fromNode', queue, p) /\ p # active_node
  BY <1>1, TakenRequest
<1>3. r \in Request /\ r.node = p /\ waiting[p] = r.type
  BY <1>1, TakenRequest DEF Request
<1>4. CASE transaction_active
  <2>1. /\ queue' = Append(queue, r)
        /\ UNCHANGED <<transaction_active, active_node, expected_acks, entry, toNode>>
    BY <1>4 DEF process_node_request
  <2> HIDE DEF r
  <2>2. Network(toNode', fromNode', queue', active_node)
    BY <1>2, <1>3, <2>1, DeferNetwork
  <2>3. Network(toNode, fromNode, queue, active_node)'
    BY <1>1, <2>1, <2>2, NetworkNext
  <2>4. \A m \in Nodes : (Owes(m)' <=> Owes(m)) /\ (Beyond(m)' <=> Beyond(m))
    BY <1>1, <1>2, <2>1 DEF Owes, OwesIn, Beyond, Holding, Writable, nodeVars
  <2>5. Unsettled' = Unsettled /\ Owing' = Owing
    BY <2>4 DEF Unsettled, Owing
  <2>6. ActiveOK'
    BY <1>1, <2>1, <2>4 DEF Inv, ActiveOK, Recorded, nodeVars
  <2>7. Static' /\ DirectoryOK(entry)' /\ faults' = faults
    BY <1>1, <2>1, StaticNext DEF Inv, DirectoryOK, linkVars
  <2> QED
    BY <2>1, <2>3, <2>5, <2>6, <2>7 DEF Inv
<1>5. CASE ~transaction_active
  <2>1. execute_gpd_transaction(r, toNode, 0) /\ UNCHANGED queue
    BY <1>5, IdleQuiet DEF process_node_request
  <2> HIDE DEF r
  <2>2. active_node = NoNode
    BY <1>5 DEF Inv, ActiveOK
  <2>3. Quiet(entry, toNode, fromNode', queue')
    BY <1>2, <1>5, <2>1, <2>2, IdleQuiet DEF Quiet, Owes, OwesIn
  <2> QED
    BY <1>1, <1>2, <1>3, <2>1, <2>3, ExecuteInv DEF Inv
<1> QED
  BY <1>4, <1>5

\* The first deferred request is taken from the queue, and is nowhere else.
LEMMA NextRequest ==
  ASSUME NEW ch, NEW from, NEW q, NEW act, Network(ch, from, q, act), q # << >>
  PROVE  /\ Head(q) \in Request /\ waiting[Head(q).node] = Head(q).type
         /\ Network(ch, from, Tail(q), act)
         /\ Free(ch, from, Tail(q), Head(q).node)
<1>1. /\ q \in Seq(Request)
      /\ \A i \in DOMAIN q : q[i].type = waiting[q[i].node]
      /\ \A i, j \in DOMAIN q : q[i].node = q[j].node => i = j
  BY DEF Network, QueueOK
<1>2. /\ Tail(q) \in Seq(Request) /\ Len(q) \in Nat \ {0}
      /\ DOMAIN q = 1..Len(q) /\ DOMAIN Tail(q) = 1..(Len(q) - 1)
      /\ \A i \in 1..(Len(q) - 1) : Tail(q)[i] = q[i + 1]
      /\ Head(q) = q[1] /\ Head(q) \in Request
  BY <1>1, HeadTailProperties, LenProperties, EmptySeq
<1>3. 1 \in 1..Len(q)
  BY <1>2
<1>4. \A i \in 1..(Len(q) - 1) : i + 1 \in 1..Len(q) /\ i + 1 # 1
  BY <1>2
<1>5. waiting[Head(q).node] = Head(q).type /\ Deferred(q, Head(q).node)
  BY <1>1, <1>2, <1>3 DEF Deferred
<1>6. ~Deferred(Tail(q), Head(q).node)
  BY <1>1, <1>2, <1>3, <1>4 DEF Deferred
<1>7. \A m : Deferred(Tail(q), m) => Deferred(q, m)
  BY <1>2, <1>4 DEF Deferred
<1>8. QueueOK(Tail(q))
  <2>1. ASSUME NEW i \in 1..(Len(q) - 1), NEW j \in 1..(Len(q) - 1),
               Tail(q)[i].node = Tail(q)[j].node
        PROVE  i = j
    <3>1. i + 1 = j + 1
      BY <1>1, <1>2, <1>4, <2>1
    <3> QED
      BY <3>1
  <2>2. \A i \in 1..(Len(q) - 1) : Tail(q)[i].type = waiting[Tail(q)[i].node]
    BY <1>1, <1>2, <1>4
  <2> QED
    BY <1>2, <2>1, <2>2 DEF QueueOK
<1>9. Requests(ch, from, Tail(q), act)
  BY <1>7 DEF Network, Requests
<1>10. Free(ch, from, Tail(q), Head(q).node)
  <2>1. Head(q).node \in Nodes /\ Head(q).type \in ReqType
    BY <1>2 DEF Request
  <2> QED
    BY <1>5, <1>6, <2>1 DEF Free, Network, Requests
<1> QED
  BY <1>2, <1>5, <1>8, <1>9, <1>10 DEF Network

\* An ack belongs to the active transaction, and settles its sender.
LEMMA TakenAck ==
  ASSUME Inv, NEW p \in Nodes, Acknowledged(p)
  PROVE  /\ Network(toNode, fromNode', queue, active_node)
         /\ \A m \in Nodes : OwesIn(toNode, fromNode', m) <=> Owes(m) /\ m # p
         /\ ~Holding(p) /\ ~Writable(p)
         /\ p \in Unsettled /\ p \in Owing /\ IsFiniteSet(Unsettled)
         /\ expected_acks \in Nat \ {0} /\ transaction_active
<1>1. /\ fromNode[p] # << >> /\ Head(fromNode[p]) = "ACK"
      /\ fromNode' = [fromNode EXCEPT ![p] = Tail(@)]
  BY DEF Acknowledged
<1>2. Has(fromNode[p], "ACK") /\ ~Has(Tail(fromNode[p]), "ACK")
  BY <1>1, InvNetwork, FromReceive
<1>3. /\ Network(toNode, fromNode', queue, active_node)
      /\ \A m \in Nodes : fromNode'[m] = IF m = p THEN Tail(fromNode[p])
                                         ELSE fromNode[m]
  BY <1>1, TakenFrom
<1>4. copy[p] = "INVALID" /\ ~Has(toNode[p], "SEND_PAGE") /\ ~Has(toNode[p], "INVALIDATE")
  BY <1>2, Types DEF Inv, Network, Channels
<1>5. \A m \in Nodes : OwesIn(toNode, fromNode', m) <=> Owes(m) /\ m # p
  BY <1>2, <1>3, <1>4 DEF OwesIn, Owes
<1>6. p \in Unsettled /\ p \in Owing
  BY <1>2 DEF Unsettled, Owing, Owes
<1>7. IsFiniteSet(Unsettled)
  <2>1. Unsettled \subseteq Nodes
    BY DEF Unsettled
  <2> QED
    BY <2>1, NodesAssumption, FS_Subset
<1>8. Cardinality(Unsettled) \in Nat /\ Cardinality(Unsettled) # 0
  BY <1>6, <1>7, FS_EmptySet, FS_CardinalityType
<1>9. expected_acks \in Nat \ {0} /\ transaction_active
  BY <1>8 DEF Inv
<1> QED
  BY <1>3, <1>4, <1>5, <1>6, <1>7, <1>9 DEF Holding, Writable

\* The last ack leaves nothing to settle, and the grant can be sent.
LEMMA LastAck ==
  ASSUME Inv, NEW p \in Nodes, Acknowledged(p), expected_acks = 1
  PROVE  Quiet(entry, send_packet_to_node(toNode, {active_node}, "SEND_PAGE"),
               fromNode', queue)
<1> USE Types
<1>1. /\ Network(toNode, fromNode', queue, active_node)
      /\ \A m \in Nodes : OwesIn(toNode, fromNode', m) <=> Owes(m) /\ m # p
      /\ ~Holding(p) /\ ~Writable(p)
      /\ p \in Unsettled /\ IsFiniteSet(Unsettled)
  BY TakenAck
<1>2. active_node \in Nodes /\ Recorded(entry, active_node)
  BY TakenAck DEF Inv, ActiveOK
<1>3. Unsettled \ {p} = {}
  <2>1. /\ IsFiniteSet(Unsettled \ {p}) /\ Cardinality(Unsettled) \in Nat
        /\ Cardinality(Unsettled \ {p}) = Cardinality(Unsettled) - 1
    BY <1>1, FS_RemoveElement, FS_CardinalityType
  <2>2. Cardinality(Unsettled \ {p}) = 0
    BY <2>1, FS_CardinalityType DEF Inv
  <2> QED
    BY <2>1, <2>2, FS_EmptySet
<1>4. \A m \in Nodes : /\ ~OwesIn(toNode, fromNode', m)
                       /\ Holding(m) => m \in holders_mask(entry)
                       /\ Writable(m) => m = entry.owner
  BY <1>1, <1>3 DEF Unsettled, Beyond
<1>5. Network(toNode, fromNode', queue, NoNode)
  BY <1>1 DEF Network, Requests
<1>6. Quiet(entry, toNode, fromNode', queue)
  BY <1>4, <1>5 DEF Quiet, Holding, HoldingIn, Writable, WritableIn
<1>7. Free(toNode, fromNode', queue, active_node)
  BY <1>1, <1>2, InvNetwork DEF Free, Network, Requests
<1> QED
  BY <1>2, <1>6, <1>7, GrantQuiet DEF Inv

LEMMA AckInv ==
  ASSUME Inv, NEW p \in Nodes, process_node_invalidate_ack(p)
  PROVE  Inv'
<1> DEFINE granted == send_packet_to_node(toNode, {active_node}, "SEND_PAGE")
<1>1. Acknowledged(p) /\ UNCHANGED <<nodeVars, linkVars>>
  BY DEF process_node_invalidate_ack, Acknowledged
<1>2. /\ Network(toNode, fromNode', queue, active_node)
      /\ \A m \in Nodes : OwesIn(toNode, fromNode', m) <=> Owes(m) /\ m # p
      /\ ~Holding(p) /\ ~Writable(p)
      /\ p \in Unsettled /\ p \in Owing /\ IsFiniteSet(Unsettled)
      /\ expected_acks \in Nat \ {0} /\ transaction_active
  BY <1>1, TakenAck
<1>3. CASE expected_acks > 1
  <2>1. /\ expected_acks' = expected_acks - 1
        /\ UNCHANGED <<transaction_active, active_node, queue, entry, toNode>>
    <3>1. expected_acks # 0 /\ expected_acks # 1
      BY <1>2, <1>3
    <3> QED
      BY <1>2, <3>1, Zenon DEF process_node_invalidate_ack
  <2>2. Network(toNode, fromNode, queue, active_node)'
    BY <1>1, <1>2, <2>1, NetworkNext
  <2>3. \A m \in Nodes : /\ Owes(m)' <=> Owes(m) /\ m # p
                         /\ Beyond(m)' <=> Beyond(m) /\ m # p
    BY <1>1, <1>2, <2>1 DEF Owes, OwesIn, Beyond, Holding, Writable, nodeVars
  <2>4. Unsettled' = Unsettled \ {p} /\ Owing' = Owing \ {p}
    BY <2>3 DEF Unsettled, Owing
  <2>5. IsFiniteSet(Owing)
    <3>1. Owing \subseteq Nodes
      BY DEF Owing
    <3> QED
      BY <3>1, NodesAssumption, FS_Subset
  <2>6. /\ Cardinality(Unsettled') = Cardinality(Unsettled) - 1
        /\ Cardinality(Owing') = Cardinality(Owing) - 1
        /\ Cardinality(Unsettled) \in Nat /\ Cardinality(Owing) \in Nat
    BY <1>2, <2>4, <2>5, FS_RemoveElement, FS_CardinalityType
  <2>7. ActiveOK'
    BY <1>1, <2>1, <2>3 DEF Inv, ActiveOK, Recorded, nodeVars
  <2>8. Static' /\ DirectoryOK(entry)' /\ faults' = faults
    BY <1>1, <2>1, StaticNext DEF Inv, DirectoryOK, linkVars
  <2>9. /\ expected_acks' \in Nat /\ Cardinality(Unsettled') <= expected_acks'
        /\ faults' = 0 => expected_acks' <= Cardinality(Owing')
        /\ transaction_active'
    BY <1>2, <2>1, <2>6, <2>8 DEF Inv
  <2> QED
    BY <2>2, <2>7, <2>8, <2>9 DEF Inv
<1>4. CASE expected_acks = 1 /\ queue = << >>
  <2>1. expected_acks' = 0 /\ toNode' = granted /\ End /\ UNCHANGED <<queue, entry>>
    BY <1>2, <1>4 DEF process_node_invalidate_ack
  <2>2. Quiet(entry', toNode', fromNode', queue')
    BY <1>1, <1>4, <2>1, LastAck
  <2> QED
    BY <1>1, <2>1, <2>2, QuietInv DEF Inv
<1>5. CASE expected_acks = 1 /\ queue # << >>
  <2>1. execute_gpd_transaction(Head(queue), granted, 0) /\ queue' = Tail(queue)
    BY <1>2, <1>5 DEF process_node_invalidate_ack
  <2>2. Quiet(entry, granted, fromNode', queue)
    BY <1>1, <1>5, LastAck
  <2> HIDE DEF granted
  <2>3. /\ Head(queue) \in Request /\ waiting[Head(queue).node] = Head(queue).type
        /\ Network(granted, fromNode', queue', NoNode)
        /\ Free(granted, fromNode', queue', Head(queue).node)
    BY <1>5, <2>1, <2>2, NextRequest DEF Quiet
  <2>4. Quiet(entry, granted, fromNode', queue')
    BY <2>2, <2>3 DEF Quiet
  <2> QED
    BY <1>1, <2>1, <2>3, <2>4, ExecuteInv DEF Inv
<1> QED
  BY <1>2, <1>3, <1>4, <1>5

----------------------------------------------------------------------------
(* The nodes and their connections. *)

\* A step outside the sequencer settles nodes and never unsettles one.
LEMMA OutsideInv ==
  ASSUME Inv, Static', Network(toNode, fromNode, queue, active_node)',
         UNCHANGED <<seqVars, entry>>,
         transaction_active => Recorded(entry, active_node)',
         \A m \in Nodes : (Owes(m)' => Owes(m)) /\ (Beyond(m)' => Beyond(m)),
         faults' = 0 => faults = 0 /\ \A m \in Nodes : Owes(m) => Owes(m)'
  PROVE  Inv'
<1>1. /\ UNCHANGED <<transaction_active, active_node, expected_acks, queue, entry>>
  BY DEF seqVars
<1>2. Unsettled' \subseteq Unsettled /\ Unsettled \subseteq Nodes
  BY DEF Unsettled
<1>3. IsFiniteSet(Unsettled)
  BY <1>2, NodesAssumption, FS_Subset
<1>4. /\ Cardinality(Unsettled') <= Cardinality(Unsettled)
      /\ Cardinality(Unsettled) \in Nat /\ Cardinality(Unsettled') \in Nat
  <2>1. IsFiniteSet(Unsettled') /\ Cardinality(Unsettled') <= Cardinality(Unsettled)
    BY <1>2, <1>3, FS_Subset
  <2> QED
    BY <1>3, <2>1, FS_CardinalityType
<1>5. Cardinality(Unsettled') <= expected_acks' /\ expected_acks' \in Nat
  BY <1>1, <1>4 DEF Inv
<1>6. faults' = 0 => Owing' = Owing
  BY DEF Owing
<1>7. ActiveOK'
  <2>1. transaction_active => active_node \in Nodes /\ ~Owes(active_node)
    BY DEF Inv, ActiveOK
  <2> QED
    BY <1>1, <2>1 DEF Inv, ActiveOK, Owes
<1>8. DirectoryOK(entry)'
  BY <1>1 DEF Inv, DirectoryOK
<1> QED
  BY <1>1, <1>5, <1>6, <1>7, <1>8 DEF Inv

\* The queue stays in order while the nodes in it wait on.
LEMMA QueueNext ==
  ASSUME QueueOK(queue), UNCHANGED queue,
         \A m \in Nodes : Deferred(queue, m) => waiting'[m] = waiting[m]
  PROVE  QueueOK(queue)'
<1>1. queue \in Seq(Request)
  BY DEF QueueOK
<1>2. \A i \in DOMAIN queue : queue[i] \in Request
  BY <1>1, ElementOfSeq, LenProperties
<1>3. \A i \in DOMAIN queue : /\ queue[i].node \in Nodes
                              /\ Deferred(queue, queue[i].node)
  BY <1>2 DEF Request, Deferred
<1>4. \A i \in DOMAIN queue : queue[i].type = waiting'[queue[i].node]
  BY <1>3 DEF QueueOK
<1> QED
  BY <1>4 DEF QueueOK

LEMMA SendRequestInv ==
  ASSUME Inv, NEW n \in Nodes, NEW type \in ReqType, SendRequest(n, type)
  PROVE  Inv'
<1> USE Types
<1>1. /\ waiting[n] = "none"
      /\ copy[n] = "INVALID" \/ (copy[n] = "SHARED" /\ type = "WRITE")
      /\ waiting' = [waiting EXCEPT ![n] = type]
      /\ fromNode' = [fromNode EXCEPT ![n] = Append(@, type)]
      /\ UNCHANGED <<seqVars, entry, linkVars, toNode, copy>>
  BY DEF SendRequest
<1>2. UNCHANGED <<queue, entry, toNode, copy, active_node, node_fds, stalled, faults>>
  BY <1>1 DEF seqVars, linkVars
<1>3. \A m \in Nodes : /\ waiting'[m] = IF m = n THEN type ELSE waiting[m]
                       /\ fromNode'[m] = IF m = n THEN Append(fromNode[n], type)
                                         ELSE fromNode[m]
  BY <1>1 DEF Inv, Static, Network, Channels
<1>4. ~Asking(fromNode, n) /\ ~Deferred(queue, n) /\ ~Granted(toNode, n)
      /\ n # active_node
  BY <1>1 DEF Inv, Network, Requests
<1>5. \A m \in Nodes : /\ FromOK(fromNode'[m], waiting'[m])
                       /\ Has(fromNode'[m], "ACK") <=> Has(fromNode[m], "ACK")
                       /\ AsksIn(fromNode'[m]) => AsksIn(fromNode[m]) \/ m = n
  <2> DEFINE s == fromNode[n]
  <2>1. FromOK(s, waiting[n])
    BY InvNetwork
  <2>2. s \in Seq(FromPacket) /\ type \in FromPacket /\ type # "ACK"
    BY <2>1 DEF FromOK, FromPacket
  <2> HIDE DEF s
  <2>3. FromOK(Append(s, type), type)
    BY <1>1, <2>1, FromSend
  <2>4. Has(Append(s, type), "ACK") <=> Has(s, "ACK")
    BY <2>2, HasAppend
  <2> QED
    BY <1>3, <2>3, <2>4, InvNetwork DEF s
<1>6. Channels(toNode, fromNode)'
  <2>1. fromNode' = [m \in Nodes |-> fromNode'[m]]
    BY <1>1 DEF Inv, Network, Channels
  <2> QED
    BY <1>2, <1>5, <2>1 DEF Inv, Network, Channels
<1>7. Requests(toNode, fromNode, queue, active_node)'
  BY <1>1, <1>2, <1>3, <1>4, <1>5
  DEF Inv, Network, Requests, Asking, Granted, Deferred
<1>8. QueueOK(queue)'
  BY <1>2, <1>3, <1>4, QueueNext DEF Inv, Network
<1>9. \A m \in Nodes : /\ Holding(m)' <=> Holding(m)
                       /\ Writable(m)' <=> Writable(m)
                       /\ Owes(m)' <=> Owes(m)
  BY <1>2, <1>3, <1>4, <1>5 DEF Holding, Writable, Owes, Granted
<1>10. Exclusive(toNode)'
  BY <1>9 DEF Inv, Network, Exclusive, WritableIn, HoldingIn, Writable, Holding
<1>11. Network(toNode, fromNode, queue, active_node)'
  BY <1>6, <1>7, <1>8, <1>10 DEF Network
<1>12. Static'
  BY <1>1, <1>2 DEF Inv, Static
<1>13. transaction_active => Recorded(entry, active_node)'
  BY <1>2, <1>3, <1>4 DEF Inv, ActiveOK, Recorded
<1>14. \A m \in Nodes : Beyond(m)' <=> Beyond(m)
  BY <1>2, <1>9 DEF Beyond
<1> QED
  BY <1>1, <1>2, <1>9, <1>11, <1>12, <1>13, <1>14, OutsideInv

LEMMA RecvGrantInv ==
  ASSUME Inv, NEW n \in Nodes, RecvGrant(n)
  PROVE  Inv'
<1> USE Types
<1>1. /\ toNode[n] # << >> /\ Head(toNode[n]) = "SEND_PAGE"
      /\ toNode' = [toNode EXCEPT ![n] = Tail(@)]
      /\ copy' = [copy EXCEPT ![n] =
                    IF waiting[n] = "WRITE" THEN "MODIFIED" ELSE "SHARED"]
      /\ waiting' = [waiting EXCEPT ![n] = "none"]
      /\ UNCHANGED <<seqVars, entry, linkVars, fromNode>>
  BY DEF RecvGrant
<1>2. UNCHANGED <<queue, entry, fromNode, active_node, node_fds, stalled, faults>>
  BY <1>1 DEF seqVars, linkVars
<1>3. \A m \in Nodes :
        /\ m # n => waiting'[m] = waiting[m] /\ copy'[m] = copy[m]
                    /\ toNode'[m] = toNode[m]
        /\ m = n => /\ waiting'[m] = "none" /\ toNode'[m] = Tail(toNode[n])
                    /\ copy'[m] = IF waiting[n] = "WRITE" THEN "MODIFIED" ELSE "SHARED"
  BY <1>1 DEF Inv, Static, Network, Channels
<1>4. /\ Has(toNode[n], "SEND_PAGE") /\ ToOK(Tail(toNode[n]))
      /\ ~Has(Tail(toNode[n]), "SEND_PAGE")
      /\ Has(Tail(toNode[n]), "INVALIDATE") <=> Has(toNode[n], "INVALIDATE")
  <2> DEFINE s == toNode[n]
  <2>1. ToOK(s) /\ s # << >> /\ Head(s) = "SEND_PAGE"
    BY <1>1, InvNetwork
  <2>2. s \in Seq(ToPacket)
    BY <2>1 DEF ToOK
  <2> HIDE DEF s
  <2> QED
    BY <2>1, <2>2, HasTail, ToReceive DEF s
<1>5. ~Asking(fromNode, n) /\ ~Deferred(queue, n) /\ n # active_node
      /\ ~Has(fromNode[n], "ACK")
  BY <1>4 DEF Inv, Network, Requests, Channels, Granted
<1>6. FromOK(fromNode[n], "none")
  BY <1>5, InvNetwork, FromSend DEF Asking
<1>7. Channels(toNode, fromNode)'
  <2>1. toNode' = [m \in Nodes |-> toNode'[m]]
    BY <1>1 DEF Inv, Network, Channels
  <2>2. \A m \in Nodes : ToOK(toNode'[m]) /\ FromOK(fromNode[m], waiting'[m])
    BY <1>3, <1>4, <1>6, InvNetwork
  <2> QED
    BY <1>2, <1>3, <1>5, <2>1, <2>2 DEF Inv, Network, Channels
<1>8. Requests(toNode, fromNode, queue, active_node)'
  BY <1>2, <1>3, <1>4, <1>5 DEF Inv, Network, Requests, Asking, Granted, Deferred
<1>9. QueueOK(queue)'
  BY <1>2, <1>3, <1>5, QueueNext DEF Inv, Network
<1>10. \A m \in Nodes : /\ Holding(m)' => Holding(m)
                        /\ Writable(m)' => Writable(m)
                        /\ Owes(m)' <=> Owes(m)
  BY <1>2, <1>3, <1>4 DEF Holding, Writable, Owes
<1>11. Exclusive(toNode)'
  BY <1>10 DEF Inv, Network, Exclusive, WritableIn, HoldingIn, Writable, Holding
<1>12. Network(toNode, fromNode, queue, active_node)'
  BY <1>7, <1>8, <1>9, <1>11 DEF Network
<1>13. Static'
  BY <1>1, <1>2 DEF Inv, Static
<1>14. transaction_active => Recorded(entry, active_node)'
  BY <1>2, <1>3, <1>5 DEF Inv, ActiveOK, Recorded
<1>15. \A m \in Nodes : Beyond(m)' => Beyond(m)
  BY <1>2, <1>10 DEF Beyond
<1> QED
  BY <1>1, <1>2, <1>10, <1>12, <1>13, <1>14, <1>15, OutsideInv

LEMMA RecvInvalidateInv ==
  ASSUME Inv, NEW n \in Nodes, RecvInvalidate(n)
  PROVE  Inv'
<1> USE Types
<1>1. /\ toNode[n] # << >> /\ Head(toNode[n]) = "INVALIDATE"
      /\ toNode' = [toNode EXCEPT ![n] = Tail(@)]
      /\ copy' = [copy EXCEPT ![n] = "INVALID"]
      /\ fromNode' = [fromNode EXCEPT ![n] = Append(@, "ACK")]
      /\ UNCHANGED <<seqVars, entry, linkVars, waiting>>
  BY DEF RecvInvalidate
<1>2. UNCHANGED <<queue, entry, waiting, active_node, node_fds, stalled, faults>>
  BY <1>1 DEF seqVars, linkVars
<1>3. \A m \in Nodes :
        /\ m # n => /\ copy'[m] = copy[m] /\ toNode'[m] = toNode[m]
                    /\ fromNode'[m] = fromNode[m]
        /\ m = n => /\ copy'[m] = "INVALID" /\ toNode'[m] = Tail(toNode[n])
                    /\ fromNode'[m] = Append(fromNode[n], "ACK")
  BY <1>1 DEF Inv, Static, Network, Channels
<1>4. /\ Has(toNode[n], "INVALIDATE") /\ ToOK(Tail(toNode[n]))
      /\ ~Has(Tail(toNode[n]), "SEND_PAGE") /\ ~Has(Tail(toNode[n]), "INVALIDATE")
  <2> DEFINE s == toNode[n]
  <2>1. ToOK(s) /\ s # << >> /\ Head(s) = "INVALIDATE"
    BY <1>1, InvNetwork
  <2>2. s \in Seq(ToPacket)
    BY <2>1 DEF ToOK
  <2> HIDE DEF s
  <2> QED
    BY <2>1, <2>2, HasTail, ToReceive DEF s
<1>5. ~Has(fromNode[n], "ACK")
  BY <1>4 DEF Inv, Network, Channels
<1>6. /\ FromOK(Append(fromNode[n], "ACK"), waiting[n])
      /\ Has(Append(fromNode[n], "ACK"), "ACK")
      /\ AsksIn(Append(fromNode[n], "ACK")) <=> AsksIn(fromNode[n])
  <2> DEFINE s == fromNode[n]
  <2>1. FromOK(s, waiting[n]) /\ ~Has(s, "ACK")
    BY <1>5, InvNetwork
  <2>2. s \in Seq(FromPacket) /\ "ACK" \in FromPacket
    BY <2>1 DEF FromOK, FromPacket
  <2> HIDE DEF s
  <2>3. \A y : Has(Append(s, "ACK"), y) <=> Has(s, y) \/ "ACK" = y
    BY <2>2, HasAppend
  <2>4. FromOK(Append(s, "ACK"), waiting[n])
    BY <2>1, FromSend
  <2> QED
    BY <2>3, <2>4 DEF AsksIn, s
<1>7. Channels(toNode, fromNode)'
  <2>1. /\ toNode' = [m \in Nodes |-> toNode'[m]]
        /\ fromNode' = [m \in Nodes |-> fromNode'[m]]
    BY <1>1 DEF Inv, Network, Channels
  <2>2. \A m \in Nodes : ToOK(toNode'[m]) /\ FromOK(fromNode'[m], waiting[m])
    BY <1>3, <1>4, <1>6, InvNetwork
  <2> QED
    BY <1>2, <1>3, <1>4, <2>1, <2>2 DEF Inv, Network, Channels
<1>8. Requests(toNode, fromNode, queue, active_node)'
  BY <1>2, <1>3, <1>4, <1>6 DEF Inv, Network, Requests, Asking, Granted, Deferred
<1>9. QueueOK(queue)'
  BY <1>2, QueueNext DEF Inv, Network
<1>10. \A m \in Nodes : /\ Holding(m)' => Holding(m)
                        /\ Writable(m)' => Writable(m)
                        /\ Owes(m)' <=> Owes(m)
  BY <1>2, <1>3, <1>4, <1>6 DEF Holding, Writable, Owes
<1>11. Exclusive(toNode)'
  BY <1>10 DEF Inv, Network, Exclusive, WritableIn, HoldingIn, Writable, Holding
<1>12. Network(toNode, fromNode, queue, active_node)'
  BY <1>7, <1>8, <1>9, <1>11 DEF Network
<1>13. Static'
  BY <1>1, <1>2 DEF Inv, Static
<1>14. transaction_active => Recorded(entry, active_node)'
  BY <1>2 DEF Inv, ActiveOK, Recorded
<1>15. \A m \in Nodes : Beyond(m)' => Beyond(m)
  BY <1>2, <1>10 DEF Beyond
<1> QED
  BY <1>1, <1>2, <1>10, <1>12, <1>13, <1>14, <1>15, OutsideInv

\* A connection that stalls, or takes bytes again, changes no packet.
LEMMA StallInv ==
  ASSUME Inv, NEW n \in Nodes, Stall(n) \/ Resume(n)
  PROVE  Inv'
<1>1. UNCHANGED <<seqVars, nodeVars, entry, node_fds, toNode, fromNode>>
  BY DEF Stall, Resume
<1>2. UNCHANGED <<queue, active_node, copy, waiting, entry, toNode, fromNode>>
  BY <1>1 DEF seqVars, nodeVars
<1>3. Static' /\ (faults' = 0 => faults = 0)
  <2>1. faults \in Nat /\ MaxFaults \in Nat
    BY FaultsAssumption DEF Inv, Static
  <2>2. CASE Stall(n)
    BY <1>2, <2>1, <2>2 DEF Stall, Inv, Static
  <2>3. CASE Resume(n)
    BY <1>2, <2>3 DEF Resume, Inv, Static
  <2> QED
    BY <2>2, <2>3
<1>4. \A m \in Nodes : (Owes(m)' <=> Owes(m)) /\ (Beyond(m)' <=> Beyond(m))
  BY <1>2 DEF Owes, Beyond, Holding, Writable
<1>5. Channels(toNode, fromNode)'
  BY <1>2 DEF Inv, Network, Channels
<1>6. Requests(toNode, fromNode, queue, active_node)'
  BY <1>2 DEF Inv, Network, Requests, Asking, Granted, Deferred
<1>7. QueueOK(queue)'
  BY <1>2, QueueNext DEF Inv, Network
<1>8. Exclusive(toNode)'
  BY <1>2 DEF Inv, Network, Exclusive, WritableIn, HoldingIn
<1>9. transaction_active => Recorded(entry, active_node)'
  BY <1>2 DEF Inv, ActiveOK, Recorded
<1> QED
  BY <1>1, <1>3, <1>4, <1>5, <1>6, <1>7, <1>8, <1>9, OutsideInv DEF Network

\* Nothing is on the way any more: what was owed stays counted.
LEMMA DisconnectInv ==
  ASSUME Inv, NEW n \in Nodes, Disconnect(n)
  PROVE  Inv'
<1>1. /\ UNCHANGED <<seqVars, nodeVars, entry, stalled>>
      /\ toNode' = [toNode EXCEPT ![n] = << >>]
      /\ fromNode' = [fromNode EXCEPT ![n] = << >>]
      /\ node_fds' = node_fds \ {n} /\ faults' = faults + 1 /\ faults < MaxFaults
  BY DEF Disconnect
<1>2. UNCHANGED <<queue, active_node, copy, waiting, entry>>
  BY <1>1 DEF seqVars, nodeVars
<1>3. Static' /\ faults' # 0
  <2>1. faults \in Nat /\ MaxFaults \in Nat
    BY FaultsAssumption DEF Inv, Static
  <2> QED
    BY <1>1, <1>2, <2>1 DEF Inv, Static
<1>4. /\ \A x : ~Has(<< >>, x)
      /\ ToOK(<< >>) /\ \A w : FromOK(<< >>, w)
  <2>1. DOMAIN << >> = {} /\ \A T : << >> \in Seq(T)
    BY EmptySeq
  <2> QED
    BY <2>1 DEF Has, ToOK, FromOK, Once
<1>5. \A m \in Nodes : /\ toNode'[m] = IF m = n THEN << >> ELSE toNode[m]
                       /\ fromNode'[m] = IF m = n THEN << >> ELSE fromNode[m]
  BY <1>1 DEF Inv, Network, Channels
<1>6. \A m \in Nodes : /\ ToOK(toNode'[m]) /\ FromOK(fromNode'[m], waiting[m])
                       /\ \A x : Has(toNode'[m], x) => Has(toNode[m], x)
                       /\ \A x : Has(fromNode'[m], x) => Has(fromNode[m], x)
  BY <1>4, <1>5, InvNetwork
<1>7. Channels(toNode, fromNode)'
  <2>1. /\ toNode' = [m \in Nodes |-> toNode'[m]]
        /\ fromNode' = [m \in Nodes |-> fromNode'[m]]
    BY <1>1 DEF Inv, Network, Channels
  <2> QED
    BY <1>2, <1>6, <2>1 DEF Inv, Network, Channels
<1>8. Requests(toNode, fromNode, queue, active_node)'
  <2>1. \A m \in Nodes : AsksIn(fromNode'[m]) => AsksIn(fromNode[m])
    BY <1>6 DEF AsksIn
  <2> QED
    BY <1>2, <1>6, <2>1 DEF Inv, Network, Requests, Asking, Granted, Deferred
<1>9. QueueOK(queue)'
  BY <1>2, QueueNext DEF Inv, Network
<1>10. \A m \in Nodes : /\ Holding(m)' => Holding(m)
                        /\ Writable(m)' => Writable(m)
                        /\ Owes(m)' => Owes(m)
  BY <1>2, <1>6 DEF Holding, Writable, Owes
<1>11. Exclusive(toNode)'
  BY <1>10 DEF Inv, Network, Exclusive, WritableIn, HoldingIn, Writable, Holding
<1>12. Network(toNode, fromNode, queue, active_node)'
  BY <1>7, <1>8, <1>9, <1>11 DEF Network
<1>13. transaction_active => Recorded(entry, active_node)'
  BY <1>2 DEF Inv, ActiveOK, Recorded
<1>14. \A m \in Nodes : Beyond(m)' => Beyond(m)
  BY <1>2, <1>10 DEF Beyond
<1> QED
  BY <1>1, <1>3, <1>10, <1>12, <1>13, <1>14, OutsideInv

----------------------------------------------------------------------------
(* The theorems. *)

LEMMA InitInv == Init => Inv
<1> SUFFICES ASSUME Init PROVE Inv
  OBVIOUS
<1> USE Types
<1>1. /\ \A x : ~Has(<< >>, x)
      /\ ToOK(<< >>) /\ \A w : FromOK(<< >>, w)
      /\ QueueOK(<< >>) /\ \A n : ~Deferred(<< >>, n)
  <2>1. DOMAIN << >> = {} /\ \A T : << >> \in Seq(T)
    BY EmptySeq
  <2> QED
    BY <2>1 DEF Has, ToOK, FromOK, Once, QueueOK, Deferred
<1>2. \A n \in Nodes : /\ toNode[n] = << >> /\ fromNode[n] = << >>
                       /\ copy[n] = "INVALID" /\ waiting[n] = "none"
  BY DEF Init
<1>3. Static
  BY FaultsAssumption DEF Init, Static
<1>4. DirectoryOK(entry)
  BY DEF Init, DirectoryOK, Entry, MsiState, gpd_init
<1>5. Channels(toNode, fromNode)
  BY <1>1, <1>2 DEF Init, Channels
<1>6. Requests(toNode, fromNode, queue, active_node)
  BY <1>1, <1>2 DEF Init, Requests, Asking, AsksIn, Granted
<1>7. Exclusive(toNode)
  BY <1>1, <1>2 DEF Exclusive, WritableIn, HoldingIn
<1>8. ActiveOK
  BY DEF Init, ActiveOK
<1>9. \A n \in Nodes : ~Owes(n) /\ ~Beyond(n)
  BY <1>1, <1>2 DEF Owes, Beyond, Holding, Writable
<1>10. Unsettled = {} /\ Owing = {} /\ Cardinality({}) = 0
  BY <1>9, FS_EmptySet DEF Unsettled, Owing
<1> QED
  BY <1>1, <1>3, <1>4, <1>5, <1>6, <1>7, <1>8, <1>10 DEF Init, Inv, Network

LEMMA NextInv == Inv /\ [Next]_vars => Inv'
<1> SUFFICES ASSUME Inv, [Next]_vars PROVE Inv'
  OBVIOUS
<1>1. CASE Next
  <2>1. PICK n \in Nodes : \/ Process(n) \/ Receive(n)
                           \/ \E type \in ReqType : SendRequest(n, type)
                           \/ Stall(n) \/ Resume(n) \/ Disconnect(n)
    BY <1>1 DEF Next
  <2>2. CASE Process(n)
    BY <2>2, RequestInv, AckInv DEF Process
  <2>3. CASE Receive(n)
    BY <2>3, RecvGrantInv, RecvInvalidateInv DEF Receive
  <2>4. CASE \E type \in ReqType : SendRequest(n, type)
    BY <2>4, SendRequestInv
  <2>5. CASE Stall(n) \/ Resume(n)
    BY <2>5, StallInv
  <2>6. CASE Disconnect(n)
    BY <2>6, DisconnectInv
  <2> QED
    BY <2>1, <2>2, <2>3, <2>4, <2>5, <2>6
<1>2. CASE UNCHANGED vars
  <2>1. UNCHANGED <<seqVars, nodeVars, linkVars, entry, toNode, fromNode>>
    BY <1>2 DEF vars, seqVars, nodeVars, linkVars
  <2>2. UNCHANGED <<queue, active_node, faults>>
    BY <2>1 DEF seqVars, linkVars
  <2>3. Network(toNode, fromNode, queue, active_node)'
    BY <2>1, <2>2, NetworkNext DEF Inv
  <2>4. Static'
    BY <2>1, StaticNext DEF Inv
  <2>5. \A m \in Nodes : (Owes(m)' <=> Owes(m)) /\ (Beyond(m)' <=> Beyond(m))
    BY <2>1 DEF Owes, Beyond, Holding, Writable, nodeVars
  <2>6. transaction_active => Recorded(entry, active_node)'
    BY <2>1, <2>2 DEF Inv, ActiveOK, Recorded, nodeVars
  <2> QED
    BY <2>1, <2>2, <2>3, <2>4, <2>5, <2>6, OutsideInv
<1> QED
  BY <1>1, <1>2

\* The inductive invariant holds of every reachable state.
LEMMA SpecInv == Spec => []Inv
  BY InitInv, NextInv, PTL DEF Spec

\* Every variable of page_sequencer_t, of the directory entry, of the
\* connections and of the nodes keeps its type.
THEOREM SequencerTypeCorrect == Spec => []TypeOK
<1>1. Inv => TypeOK
  <2> SUFFICES ASSUME Inv PROVE TypeOK
    OBVIOUS
  <2>1. /\ transaction_active \in BOOLEAN /\ active_node \in Nodes \cup {NoNode}
        /\ expected_acks \in Nat
    BY DEF Inv, ActiveOK
  <2>2. queue \in Seq(Request) /\ entry \in Entry
    BY DEF Inv, Network, QueueOK, DirectoryOK
  <2>3. /\ toNode \in [Nodes -> Seq(ToPacket)]
        /\ fromNode \in [Nodes -> Seq(FromPacket)]
    BY DEF Inv, Network, Channels, ToOK, FromOK
  <2> QED
    BY <2>1, <2>2, <2>3 DEF TypeOK, Inv, Static, ToPacket, FromPacket
<1> QED
  BY <1>1, SpecInv, PTL

\* process_node_invalidate_ack counts acks and matches none: still no ack
\* completes a transaction while a node has yet to acknowledge, or has a copy
\* the directory no longer allows.
THEOREM AcksBelongToTransaction == Spec => []AcksBelong
<1>1. Inv => AcksBelong
  BY DEF Inv, AcksBelong, Unsettled, Owing
<1> QED
  BY <1>1, SpecInv, PTL

\* Nobody has a copy beside a writer, whatever connections stall or are lost.
THEOREM SequencerIsMSI == Spec => ImplementsMSI
<1>1. Init => Abstract!Init
  BY DEF Init, Abstract!Init
<1>2. Inv /\ [Next]_vars => [Abstract!Next]_copy
  <2> SUFFICES ASSUME Inv, Next PROVE [Abstract!Next]_copy
    BY DEF vars
  <2> USE Types
  <2>1. PICK n \in Nodes : \/ Process(n) \/ Receive(n)
                           \/ \E type \in ReqType : SendRequest(n, type)
                           \/ Stall(n) \/ Resume(n) \/ Disconnect(n)
    BY DEF Next
  <2>2. CASE RecvGrant(n)
    <3>1. Has(toNode[n], "SEND_PAGE")
      <4> DEFINE s == toNode[n]
      <4>1. ToOK(s) /\ s # << >> /\ Head(s) = "SEND_PAGE"
        BY <2>2, InvNetwork DEF RecvGrant
      <4>2. s \in Seq(ToPacket)
        BY <4>1 DEF ToOK
      <4> HIDE DEF s
      <4> QED
        BY <4>1, <4>2, HasTail DEF s
    <3>2. HoldingIn(toNode, n)
      BY <3>1 DEF HoldingIn
    <3>3. \A m \in Nodes \ {n} : copy[m] # "MODIFIED"
      BY <3>2 DEF Inv, Network, Exclusive, WritableIn
    <3>4. CASE waiting[n] = "WRITE"
      <4>1. WritableIn(toNode, n)
        BY <3>1, <3>4 DEF WritableIn
      <4>2. \A m \in Nodes \ {n} : copy[m] = "INVALID"
        BY <4>1 DEF Inv, Network, Exclusive, HoldingIn
      <4>3. Abstract!Own(n)
        BY <2>2, <3>4, <4>2 DEF RecvGrant, Abstract!Own, Abstract!Others
      <4> QED
        BY <4>3 DEF Abstract!Next
    <3>5. CASE waiting[n] # "WRITE"
      <4>1. Abstract!Share(n)
        BY <2>2, <3>3, <3>5 DEF RecvGrant, Abstract!Share, Abstract!Others
      <4> QED
        BY <4>1 DEF Abstract!Next
    <3> QED
      BY <3>4, <3>5
  <2>3. CASE RecvInvalidate(n)
    BY <2>3 DEF RecvInvalidate, Abstract!Drop, Abstract!Next
  <2>4. CASE Process(n)
    BY <2>4 DEF Process, process_node_request, process_node_invalidate_ack,
                Requested, Acknowledged, nodeVars
  <2>5. CASE \E type \in ReqType : SendRequest(n, type)
    BY <2>5 DEF SendRequest
  <2>6. CASE Stall(n) \/ Resume(n) \/ Disconnect(n)
    BY <2>6 DEF Stall, Resume, Disconnect, nodeVars
  <2> QED
    BY <2>1, <2>2, <2>3, <2>4, <2>5, <2>6 DEF Receive
<1> QED
  BY <1>1, <1>2, SpecInv, PTL DEF Spec, ImplementsMSI, Abstract!Spec

=============================================================================
