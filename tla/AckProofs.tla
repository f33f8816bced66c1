------------------------------ MODULE AckProofs ------------------------------
(***************************************************************************)
(* For every set of nodes and every workload: the coordinator of           *)
(* TeleportDSM waits for no INVALIDATE_ACK that is not going to come.      *)
(*                                                                         *)
(* AcksInFlight counts places in the channels, and a place moves when a    *)
(* packet in front of it is taken.  The lemmas say what taking a packet    *)
(* and sending one do to the count; with the invariant of                  *)
(* TeleportDSMProofs, which says who sends what to whom, AcksInFlight is   *)
(* then inductive.                                                         *)
(***************************************************************************)
EXTENDS TeleportDSMProofs, SequenceTheorems

\* OfType for channels ch, and the places AcksInFlight counts.
PlacesOf(ch, a, b, type) ==
  {<<a, b, i>> : i \in {j \in DOMAIN ch[a][b] : ch[a][b][j].type = type}}

Around(ch, n) ==
  PlacesOf(ch, Coord, n, "INVALIDATE") \cup PlacesOf(ch, n, Coord, "INVALIDATE_ACK")

Places(ch) == UNION {Around(ch, n) : n \in Nodes}

InFlight(ch) == Cardinality(Places(ch))

\* Does a packet of this type from a to b count?
Counts(a, b, type) ==
  (a = Coord /\ type = "INVALIDATE") \/ (b = Coord /\ type = "INVALIDATE_ACK")

LEMMA AcksInFlightMeans == AcksInFlight <=> pend[Coord].expected_acks <= InFlight(chan)
  BY DEF AcksInFlight, InFlight, Places, Around, OfType, PlacesOf

LEMMA InPlaces ==
  ASSUME NEW ch, NEW x
  PROVE  x \in Places(ch) <=>
           \E a, b \in Nodes : \E i \in DOMAIN ch[a][b] :
             x = <<a, b, i>> /\ Counts(a, b, ch[a][b][i].type)
<1>1. ASSUME x \in Places(ch)
      PROVE  \E a, b \in Nodes : \E i \in DOMAIN ch[a][b] :
               x = <<a, b, i>> /\ Counts(a, b, ch[a][b][i].type)
  BY <1>1, CoordAssumption DEF Places, Around, PlacesOf, Counts
<1>2. ASSUME NEW a \in Nodes, NEW b \in Nodes, NEW i \in DOMAIN ch[a][b],
             x = <<a, b, i>>, Counts(a, b, ch[a][b][i].type)
      PROVE  x \in Places(ch)
  <2>1. CASE a = Coord /\ ch[a][b][i].type = "INVALIDATE"
    <3>1. x \in Around(ch, b)
      BY <1>2, <2>1 DEF Around, PlacesOf
    <3> QED
      BY <3>1 DEF Places
  <2>2. CASE b = Coord /\ ch[a][b][i].type = "INVALIDATE_ACK"
    <3>1. x \in Around(ch, a)
      BY <1>2, <2>2 DEF Around, PlacesOf
    <3> QED
      BY <3>1 DEF Places
  <2> QED
    BY <1>2, <2>1, <2>2 DEF Counts
<1> QED
  BY <1>1, <1>2

\* Finitely many packets are on the way.
LEMMA PlacesFinite ==
  ASSUME NEW ch, ChanOK(ch)
  PROVE  IsFiniteSet(Places(ch)) /\ InFlight(ch) \in Nat
<1>1. ASSUME NEW a \in Nodes, NEW b \in Nodes, NEW type
      PROVE  IsFiniteSet(PlacesOf(ch, a, b, type))
  <2> DEFINE J == {j \in DOMAIN ch[a][b] : ch[a][b][j].type = type}
             f == [j \in J |-> <<a, b, j>>]
  <2>1. ch[a][b] \in Seq(Packet)
    BY DEF ChanOK
  <2>2. Len(ch[a][b]) \in Nat /\ DOMAIN ch[a][b] = 1..Len(ch[a][b])
    BY <2>1, LenProperties
  <2>3. IsFiniteSet(1..Len(ch[a][b])) /\ J \in SUBSET (1..Len(ch[a][b]))
    BY <2>2, FS_Interval
  <2>4. IsFiniteSet(J)
    BY <2>3, FS_Subset
  <2>5. f \in Surjection(J, PlacesOf(ch, a, b, type))
    BY DEF Surjection, PlacesOf
  <2> HIDE DEF J, f
  <2> QED
    BY <2>4, <2>5, FS_Surjection
<1>2. \A n \in Nodes : IsFiniteSet(Around(ch, n))
  BY <1>1, CoordAssumption, FS_Union DEF Around
<1>3. IsFiniteSet({Around(ch, n) : n \in Nodes})
  <2> DEFINE T == {Around(ch, n) : n \in Nodes}
             f == [n \in Nodes |-> Around(ch, n)]
  <2>1. f \in Surjection(Nodes, T)
    BY DEF Surjection
  <2> HIDE DEF f
  <2> QED
    BY <2>1, NodesAssumption, FS_Surjection
<1>4. IsFiniteSet(Places(ch))
  BY <1>2, <1>3, FS_UNION DEF Places
<1> QED
  BY <1>4, FS_CardinalityType DEF InFlight

\* Sending loses no place.
LEMMA SendKeeps ==
  ASSUME NEW ch, ChanOK(ch), NEW n \in Nodes, NEW dests, NEW m \in Packet
  PROVE  LET new == Send(ch, n, dests, m)
         IN /\ Places(ch) \subseteq Places(new)
            /\ \A b \in dests \cap Nodes :
                 /\ Counts(n, b, m.type) => <<n, b, Len(ch[n][b]) + 1>> \in Places(new)
                 /\ <<n, b, Len(ch[n][b]) + 1>> \notin Places(ch)
<1> DEFINE new == Send(ch, n, dests, m)
<1>1. \A a, b \in Nodes : new[a][b] = IF a = n /\ b \in dests
                                      THEN Append(ch[a][b], m) ELSE ch[a][b]
  BY DEF ChanOK, Send
<1> HIDE DEF new
<1>2. \A a, b \in Nodes : /\ ch[a][b] \in Seq(Packet) /\ Len(ch[a][b]) \in Nat
                          /\ DOMAIN ch[a][b] = 1..Len(ch[a][b])
                          /\ Len(ch[a][b]) + 1 \notin DOMAIN ch[a][b]
  BY LenProperties DEF ChanOK
<1>3. ASSUME NEW a \in Nodes, NEW b \in Nodes, NEW i \in DOMAIN ch[a][b]
      PROVE  i \in DOMAIN new[a][b] /\ new[a][b][i] = ch[a][b][i]
  <2>1. CASE new[a][b] = Append(ch[a][b], m)
    BY <1>2, <2>1, AppendProperties
  <2> QED
    BY <1>1, <2>1
<1>4. Places(ch) \subseteq Places(new)
  BY <1>3, InPlaces
<1>5. ASSUME NEW b \in dests \cap Nodes
      PROVE  /\ Counts(n, b, m.type) => <<n, b, Len(ch[n][b]) + 1>> \in Places(new)
             /\ <<n, b, Len(ch[n][b]) + 1>> \notin Places(ch)
  <2>0. new[n][b] = Append(ch[n][b], m) /\ ch[n][b] \in Seq(Packet)
    BY <1>1, <1>2
  <2>1. /\ Len(ch[n][b]) + 1 \in DOMAIN new[n][b]
        /\ new[n][b][Len(ch[n][b]) + 1] = m
    <3> DEFINE s == ch[n][b]
    <3>1. Append(s, m)[Len(s) + 1] = m /\ DOMAIN Append(s, m) = 1..(Len(s) + 1)
          /\ Len(s) \in Nat
      BY <2>0, AppendProperties, LenProperties
    <3>2. Len(s) + 1 \in 1..(Len(s) + 1)
      BY <3>1
    <3> QED
      BY <2>0, <3>1, <3>2
  <2> QED
    BY <1>2, <2>1, InPlaces
<1> QED
  BY <1>4, <1>5 DEF new

LEMMA SendCounts ==
  ASSUME NEW ch, ChanOK(ch), NEW n \in Nodes, NEW dests, NEW m \in Packet,
         ChanOK(Send(ch, n, dests, m))
  PROVE  InFlight(ch) <= InFlight(Send(ch, n, dests, m))
  BY SendKeeps, PlacesFinite, FS_Subset DEF InFlight

\* An ack the coordinator is sent counts.
LEMMA AckCounts ==
  ASSUME NEW ch, ChanOK(ch), NEW n \in Nodes, NEW m \in Packet,
         m.type = "INVALIDATE_ACK", ChanOK(Send(ch, n, {Coord}, m))
  PROVE  InFlight(ch) + 1 <= InFlight(Send(ch, n, {Coord}, m))
<1> DEFINE new == Send(ch, n, {Coord}, m)
           x == <<n, Coord, Len(ch[n][Coord]) + 1>>
<1>1. Places(ch) \subseteq Places(new) /\ x \in Places(new) /\ x \notin Places(ch)
  BY SendKeeps, CoordAssumption DEF Counts
<1>2. IsFiniteSet(Places(ch)) /\ IsFiniteSet(Places(new))
  BY PlacesFinite
<1> HIDE DEF new, x
<1>3. Places(ch) \cup {x} \in SUBSET Places(new)
  BY <1>1
<1>4. Cardinality(Places(ch) \cup {x}) = Cardinality(Places(ch)) + 1
  BY <1>1, <1>2, FS_AddElement
<1>5. Cardinality(Places(ch) \cup {x}) <= Cardinality(Places(new))
  BY <1>2, <1>3, FS_Subset
<1> QED
  BY <1>4, <1>5 DEF InFlight, new

\* So does every INVALIDATE the coordinator sends.
LEMMA InvalidatesCount ==
  ASSUME NEW ch, ChanOK(ch), NEW dests \in SUBSET Nodes, NEW m \in Packet,
         m.type = "INVALIDATE", ChanOK(Send(ch, Coord, dests, m))
  PROVE  Cardinality(dests) <= InFlight(Send(ch, Coord, dests, m))
<1> DEFINE new == Send(ch, Coord, dests, m)
           f == [b \in dests |-> <<Coord, b, Len(ch[Coord][b]) + 1>>]
<1>1. \A b \in dests : <<Coord, b, Len(ch[Coord][b]) + 1>> \in Places(new)
  BY SendKeeps, CoordAssumption DEF Counts
<1>2. IsFiniteSet(Places(new))
  BY PlacesFinite
<1> HIDE DEF new
<1>3. f \in Injection(dests, Places(new))
  BY <1>1 DEF Injection, IsInjective
<1> HIDE DEF f
<1> QED
  BY <1>2, <1>3, FS_Injection DEF InFlight, new

\* Taking a packet loses its own place at most.
LEMMA TakingCounts ==
  ASSUME ChanOK(chan), NEW n \in Nodes, NEW p \in Nodes, chan[p][n] # << >>
  PROVE  /\ InFlight(chan) <= InFlight(Received(n, p)) + 1
         /\ ~Counts(p, n, Head(chan[p][n]).type) =>
              InFlight(chan) <= InFlight(Received(n, p))
<1> DEFINE new == Received(n, p)
           x == <<p, n, 1>>
           S == Places(chan) \ {x}
           f == [y \in S |-> IF y[1] = p /\ y[2] = n THEN <<p, n, y[3] - 1>> ELSE y]
<1>1. chan[p][n] \in Seq(Packet)
  BY DEF ChanOK
<1>2. /\ Len(chan[p][n]) \in Nat /\ DOMAIN chan[p][n] = 1..Len(chan[p][n])
      /\ Head(chan[p][n]) = chan[p][n][1]
      /\ DOMAIN Tail(chan[p][n]) = 1..(Len(chan[p][n]) - 1)
      /\ \A i \in 1..(Len(chan[p][n]) - 1) : Tail(chan[p][n])[i] = chan[p][n][i + 1]
  BY <1>1, HeadTailProperties, LenProperties
<1>3. \A a, b \in Nodes : new[a][b] = IF a = p /\ b = n THEN Tail(chan[a][b])
                                      ELSE chan[a][b]
  BY DEF ChanOK, Received
<1>4. IsFiniteSet(Places(chan)) /\ IsFiniteSet(Places(new))
  BY Receives, PlacesFinite
<1> HIDE DEF new, x
<1>5. ASSUME NEW y \in S
      PROVE  \E a, b \in Nodes : \E i \in DOMAIN chan[a][b] :
               /\ y = <<a, b, i>>
               /\ IF a = p /\ b = n
                  THEN /\ i \in 2..Len(chan[p][n]) /\ f[y] = <<a, b, i - 1>>
                       /\ <<a, b, i - 1>> \in Places(new)
                  ELSE f[y] = y /\ y \in Places(new)
  <2>1. PICK a \in Nodes, b \in Nodes : \E i \in DOMAIN chan[a][b] :
             y = <<a, b, i>> /\ Counts(a, b, chan[a][b][i].type)
    BY InPlaces
  <2>2. PICK i \in DOMAIN chan[a][b] :
             y = <<a, b, i>> /\ Counts(a, b, chan[a][b][i].type)
    BY <2>1
  <2>3. y[1] = a /\ y[2] = b /\ y[3] = i /\ y # x
    BY <2>2
  <2>4. CASE a = p /\ b = n
    <3>1. i \in 1..Len(chan[p][n]) /\ i # 1
      BY <1>2, <2>2, <2>3, <2>4 DEF x
    <3>2. i \in 2..Len(chan[p][n]) /\ i - 1 \in 1..(Len(chan[p][n]) - 1)
          /\ (i - 1) + 1 = i
      BY <1>2, <3>1
    <3>3. i - 1 \in DOMAIN new[a][b] /\ new[a][b][i - 1] = chan[a][b][i]
      BY <1>2, <1>3, <2>4, <3>2
    <3>4. <<a, b, i - 1>> \in Places(new)
      BY <2>2, <3>3, InPlaces
    <3> QED
      BY <2>2, <2>3, <2>4, <3>2, <3>4
  <2>5. CASE ~(a = p /\ b = n)
    <3>1. new[a][b] = chan[a][b]
      BY <1>3, <2>5
    <3>2. y \in Places(new)
      BY <2>2, <3>1, InPlaces
    <3> QED
      BY <2>2, <2>3, <2>5, <3>2
  <2> QED
    BY <2>4, <2>5
<1>6. f \in [S -> Places(new)]
  <2>1. \A y \in S : f[y] \in Places(new)
    <3> HIDE DEF f, S
    <3> QED
      BY <1>5
  <2> QED
    BY <2>1
<1>7. ASSUME NEW y \in S, NEW z \in S, f[y] = f[z] PROVE y = z
  <2> HIDE DEF f, S
  <2>10. PICK a \in Nodes, b \in Nodes : \E i \in DOMAIN chan[a][b] :
             /\ y = <<a, b, i>>
             /\ IF a = p /\ b = n
                THEN /\ i \in 2..Len(chan[p][n]) /\ f[y] = <<a, b, i - 1>>
                     /\ <<a, b, i - 1>> \in Places(new)
                ELSE f[y] = y /\ y \in Places(new)
    BY <1>5
  <2>1. PICK i \in DOMAIN chan[a][b] :
             /\ y = <<a, b, i>>
             /\ IF a = p /\ b = n
                THEN /\ i \in 2..Len(chan[p][n]) /\ f[y] = <<a, b, i - 1>>
                     /\ <<a, b, i - 1>> \in Places(new)
                ELSE f[y] = y /\ y \in Places(new)
    BY <2>10
  <2>20. PICK c \in Nodes, d \in Nodes : \E j \in DOMAIN chan[c][d] :
             /\ z = <<c, d, j>>
             /\ IF c = p /\ d = n
                THEN /\ j \in 2..Len(chan[p][n]) /\ f[z] = <<c, d, j - 1>>
                     /\ <<c, d, j - 1>> \in Places(new)
                ELSE f[z] = z /\ z \in Places(new)
    BY <1>5
  <2>2. PICK j \in DOMAIN chan[c][d] :
             /\ z = <<c, d, j>>
             /\ IF c = p /\ d = n
                THEN /\ j \in 2..Len(chan[p][n]) /\ f[z] = <<c, d, j - 1>>
                     /\ <<c, d, j - 1>> \in Places(new)
                ELSE f[z] = z /\ z \in Places(new)
    BY <2>20
  <2>3. a = c /\ b = d
    BY <1>7, <2>1, <2>2
  <2>4. CASE a = p /\ b = n
    <3>1. i - 1 = j - 1 /\ i \in 2..Len(chan[p][n]) /\ j \in 2..Len(chan[p][n])
      BY <1>7, <2>1, <2>2, <2>3, <2>4
    <3>2. i = j
      BY <1>2, <3>1
    <3> QED
      BY <2>1, <2>2, <2>3, <3>2
  <2>5. CASE ~(a = p /\ b = n)
    BY <1>7, <2>1, <2>2, <2>3, <2>5
  <2> QED
    BY <2>4, <2>5
<1>8. Cardinality(S) <= Cardinality(Places(new))
  <2>1. f \in Injection(S, Places(new))
    <3> HIDE DEF f, S
    <3> QED
      BY <1>6, <1>7 DEF Injection, IsInjective
  <2> HIDE DEF f, S
  <2> QED
    BY <1>4, <2>1, FS_Injection
<1>9. /\ Cardinality(S) = IF x \in Places(chan) THEN Cardinality(Places(chan)) - 1
                                                ELSE Cardinality(Places(chan))
      /\ Cardinality(Places(chan)) \in Nat /\ Cardinality(Places(new)) \in Nat
  BY <1>4, FS_RemoveElement, FS_CardinalityType
<1>10. x \in Places(chan) => Counts(p, n, Head(chan[p][n]).type)
  <2> SUFFICES ASSUME x \in Places(chan) PROVE Counts(p, n, chan[p][n][1].type)
    BY <1>2
  <2>1. PICK a \in Nodes, b \in Nodes : \E i \in DOMAIN chan[a][b] :
             x = <<a, b, i>> /\ Counts(a, b, chan[a][b][i].type)
    BY InPlaces
  <2> QED
    BY <2>1 DEF x
<1> HIDE DEF S
<1> QED
  BY <1>8, <1>9, <1>10 DEF InFlight, new

----------------------------------------------------------------------------
(* Every step keeps the count. *)

Expected == pend[Coord].expected_acks

\* A grant of ownership expects an ack for every INVALIDATE it sends.
LEMMA GrantExpects ==
  ASSUME IInv, IInv', NEW w, NEW fd, NEW v, NEW ch, ChanOK(ch), Expected <= InFlight(ch),
         NEW granted, granted.expected_acks = Expected, NEW ungranted \in Packet,
         GrantWrite(Coord, w, fd, v, ch, granted, ungranted)
  PROVE  Expected' <= InFlight(chan')
<1> DEFINE targets == Targets(Coord, w)
<1>1. /\ ChanOK(chan') /\ pend \in [Nodes -> Pending] /\ Coord \in Nodes
      /\ Expected \in Nat /\ gpd[Coord] \in Entry
  BY CoordAssumption DEF IInv, DirOK, Expected, Pending
<1>2. CASE targets = {}
  <2>1. Expected' = Expected /\ chan' = Send(ch, Coord, {fd}, ungranted)
    BY <1>1, <1>2 DEF GrantWrite, Expected
  <2>2. InFlight(ch) <= InFlight(chan') /\ InFlight(ch) \in Nat /\ InFlight(chan') \in Nat
    BY <1>1, <2>1, SendCounts, PlacesFinite
  <2> QED
    BY <1>1, <2>1, <2>2
<1>3. CASE targets # {}
  <2>1. /\ Expected' = Cardinality(targets)
        /\ chan' = Send(ch, Coord, targets, Pkt("INVALIDATE", NoNode))
    BY <1>1, <1>3 DEF GrantWrite, Expected
  <2>2. targets \in SUBSET Nodes
    BY <1>1, TargetsType
  <2>3. Pkt("INVALIDATE", NoNode) \in Packet /\ Pkt("INVALIDATE", NoNode).type = "INVALIDATE"
    BY PacketType DEF NodeOrNone, Pkt
  <2> HIDE DEF targets
  <2> QED
    BY <1>1, <2>1, <2>2, <2>3, InvalidatesCount
<1> QED
  BY <1>2, <1>3

\* A packet that is no INVALIDATE and no ack is taken.
LEMMA OtherPacket ==
  ASSUME IInv, AcksInFlight, NEW n \in Nodes, NEW p \in Nodes, NEW types,
         Arrived(n, p, types), types \cap {"INVALIDATE", "INVALIDATE_ACK"} = {}
  PROVE  ChanOK(Received(n, p)) /\ Expected <= InFlight(Received(n, p))
<1>1. ChanOK(chan) /\ Expected \in Nat
  BY CoordAssumption DEF IInv, DirOK, Expected, Pending
<1>2. /\ ChanOK(Received(n, p)) /\ chan[p][n] # << >>
      /\ ~Counts(p, n, Head(chan[p][n]).type)
  BY Arrival DEF Arrived, Counts
<1>3. /\ InFlight(chan) \in Nat /\ InFlight(Received(n, p)) \in Nat
      /\ InFlight(chan) <= InFlight(Received(n, p))
  BY <1>1, <1>2, PlacesFinite, TakingCounts
<1> QED
  BY <1>1, <1>2, <1>3, AcksInFlightMeans DEF Expected

\* The same, and at most one packet is sent.
LEMMA OtherPacketSent ==
  ASSUME IInv, IInv', AcksInFlight, NEW n \in Nodes, NEW p \in Nodes, NEW types,
         Arrived(n, p, types), types \cap {"INVALIDATE", "INVALIDATE_ACK"} = {},
         Expected' = Expected, NEW dests, NEW m \in Packet,
         chan' \in {Received(n, p), Send(Received(n, p), n, dests, m)}
  PROVE  Expected' <= InFlight(chan')
<1>1. ChanOK(chan') /\ Expected \in Nat
  BY CoordAssumption DEF IInv, DirOK, Expected, Pending
<1>2. ChanOK(Received(n, p)) /\ Expected <= InFlight(Received(n, p))
  BY OtherPacket
<1>3. CASE chan' = Send(Received(n, p), n, dests, m)
  <2>1. /\ InFlight(chan') \in Nat /\ InFlight(Received(n, p)) \in Nat
        /\ InFlight(Received(n, p)) <= InFlight(chan')
    BY <1>1, <1>2, <1>3, PlacesFinite, SendCounts
  <2> QED
    BY <1>1, <1>2, <2>1
<1> QED
  BY <1>2, <1>3

\* Requests popped from the queue.
LEMMA QueueCounts ==
  ASSUME IInv, IInv', AcksInFlight, NEW n \in Nodes, QueueSession(n)
  PROVE  Expected' <= InFlight(chan')
<1>1. /\ ChanOK(chan) /\ ChanOK(chan') /\ Expected \in Nat /\ pend \in [Nodes -> Pending]
      /\ InFlight(chan) \in Nat /\ InFlight(chan') \in Nat /\ gpd \in [Nodes -> Entry]
  BY CoordAssumption, PlacesFinite DEF IInv, DirOK, Expected, Pending
<1>2. Expected <= InFlight(chan)
  BY AcksInFlightMeans DEF Expected
<1>3. ASSUME Expected' = Expected, NEW dests, NEW m \in Packet,
             chan' \in {chan, Send(chan, n, dests, m)}
      PROVE  Expected' <= InFlight(chan')
  <2>1. InFlight(chan) <= InFlight(chan')
    BY <1>1, <1>3, SendCounts
  <2> QED
    BY <1>1, <1>2, <1>3, <2>1
<1>4. PICK is_write \in BOOLEAN : \/ PopForward(n, is_write)
                                  \/ PopUpgrade(n, is_write)
                                  \/ PopFetch(n, is_write)
                                  \/ PopZeroFill(n, is_write)
  BY DEF QueueSession
<1>5. CASE PopForward(n, is_write)
  <2>1. Pkt(ReqOf(is_write), n) \in Packet
    BY PacketType DEF NodeOrNone
  <2> QED
    BY <1>3, <1>5, <2>1 DEF PopForward, Expected
<1>6. CASE PopUpgrade(n, is_write)
  <2> DEFINE targets == Targets(n, n)
             m == Pkt("INVALIDATE", NoNode)
  <2>1. n = Coord
    BY <1>6, CoordAssumption, NoNodeAssumption DEF PopUpgrade, coordinator_fd
  <2>2. m \in Packet /\ m.type = "INVALIDATE"
    BY PacketType DEF NodeOrNone, Pkt
  <2>3. targets \in SUBSET Nodes
    BY <1>1, TargetsType
  <2>4. CASE is_write /\ targets # {}
    <3>1. /\ Expected' = Cardinality(targets)
          /\ chan' = Send(chan, Coord, targets, m)
      BY <1>1, <1>6, <2>1, <2>4 DEF PopUpgrade, Expected, Pending
    <3> HIDE DEF targets, m
    <3> QED
      BY <1>1, <2>2, <2>3, <3>1, InvalidatesCount
  <2>5. CASE ~(is_write /\ targets # {})
    <3>1. Expected' = Expected /\ chan' \in {chan, Send(chan, n, targets, m)}
      BY <1>6, <2>5 DEF PopUpgrade, Expected
    <3> HIDE DEF targets, m
    <3> QED
      BY <1>3, <2>2, <3>1
  <2> QED
    BY <2>4, <2>5
<1>7. CASE PopFetch(n, is_write)
  <2>1. n = Coord
    BY <1>7, CoordAssumption, NoNodeAssumption DEF PopFetch, coordinator_fd
  <2>2. Expected' = 0
    BY <1>1, <1>7, <2>1 DEF PopFetch, Expected, Pending
  <2> QED
    BY <1>1, <2>2
<1>8. CASE PopZeroFill(n, is_write)
  BY <1>2, <1>8 DEF PopZeroFill, Expected
<1> QED
  BY <1>4, <1>5, <1>6, <1>7, <1>8

\* An INVALIDATE becomes an ack.
LEMMA InvalidateCounts ==
  ASSUME IInv, IInv', AcksInFlight, NEW n \in Nodes, NEW p \in Nodes, RecvInvalidate(n, p)
  PROVE  Expected' <= InFlight(chan')
<1> DEFINE m == Pkt("INVALIDATE_ACK", n)
<1>1. n # Coord /\ coordinator_fd(n) = Coord /\ coordinator_fd(n) # NoNode
  BY Sender, Arrival, CoordAssumption, NoNodeAssumption DEF RecvInvalidate, coordinator_fd
<1>2. ChanOK(chan) /\ ChanOK(chan') /\ Expected \in Nat /\ Expected' = Expected
  BY CoordAssumption DEF IInv, DirOK, Expected, Pending, RecvInvalidate
<1>3. ChanOK(Received(n, p)) /\ chan[p][n] # << >>
  BY Arrival DEF Arrived, RecvInvalidate
<1>4. m \in Packet /\ m.type = "INVALIDATE_ACK"
  BY PacketType DEF NodeOrNone, Pkt
<1>5. chan' = Send(Received(n, p), n, {Coord}, m)
  BY <1>1 DEF RecvInvalidate
<1> HIDE DEF m
<1>6. InFlight(chan) <= InFlight(Received(n, p)) + 1
  BY <1>2, <1>3, TakingCounts
<1>7. InFlight(Received(n, p)) + 1 <= InFlight(chan')
  BY <1>2, <1>3, <1>4, <1>5, AckCounts
<1>8. InFlight(chan) \in Nat /\ InFlight(Received(n, p)) \in Nat /\ InFlight(chan') \in Nat
  BY <1>2, <1>3, PlacesFinite
<1> QED
  BY <1>2, <1>6, <1>7, <1>8, AcksInFlightMeans DEF Expected

\* An ack is one that was expected, or the count is 0.
LEMMA TakenAckCounts ==
  ASSUME IInv, IInv', AcksInFlight, NEW n \in Nodes, NEW p \in Nodes, RecvAck(n, p)
  PROVE  Expected' <= InFlight(chan')
<1>1. n = Coord
  BY Sender, Arrival DEF RecvAck
<1>2. /\ ChanOK(chan) /\ ChanOK(chan') /\ Expected \in Nat
      /\ InFlight(chan) \in Nat /\ InFlight(chan') \in Nat /\ pend \in [Nodes -> Pending]
  BY CoordAssumption, PlacesFinite DEF IInv, DirOK, Expected, Pending
<1>3. \/ Expected' = 0
      \/ Expected' = Expected - 1 /\ chan' = Received(n, p)
  BY <1>1, <1>2 DEF RecvAck, Expected, Pending
<1>4. InFlight(chan) <= InFlight(Received(n, p)) + 1
  BY <1>2, TakingCounts DEF RecvAck, Arrived
<1> QED
  BY <1>2, <1>3, <1>4, AcksInFlightMeans DEF Expected

\* Everything else that arrives.
LEMMA PeerCounts ==
  ASSUME IInv, IInv', AcksInFlight, NEW n \in Nodes, NEW p \in Nodes, PeerSession(n, p)
  PROVE  Expected' <= InFlight(chan')
<1> DEFINE m == Head(chan[p][n])
<1>1. pend \in [Nodes -> Pending] /\ pend' \in [Nodes -> Pending]
      /\ InFlight(chan') \in Nat /\ Expected \in Nat
  BY CoordAssumption, PlacesFinite DEF IInv, DirOK, Expected, Pending
<1>2. CASE RecvJoin(n, p)
  <2>1. Arrived(n, p, {"NODE_JOIN"}) /\ Expected' = Expected /\ chan' = Received(n, p)
    BY <1>2 DEF RecvJoin, Expected
  <2>2. m \in Packet
    BY <2>1, Arrival
  <2> QED
    BY <2>1, <2>2, OtherPacketSent
<1>3. CASE RecvAnswerWrite(n, p)
  <2>1. n = Coord /\ Arrived(n, p, {"SEND_PAGE"})
    BY <1>3, CoordAssumption, NoNodeAssumption DEF RecvAnswerWrite, coordinator_fd
  <2>2. m \in Packet /\ ChanOK(Received(n, p)) /\ Expected <= InFlight(Received(n, p))
    BY <2>1, Arrival, OtherPacket
  <2> DEFINE granted == [pend[n] EXCEPT !.requester = NoNode]
  <2>3. granted.expected_acks = Expected
    BY <1>1, <2>1 DEF Expected, Pending
  <2>4. GrantWrite(Coord, pend[n].requester, pend[n].client_fd, m.payload,
                   Received(n, p), granted, m)
    BY <1>3, <2>1 DEF RecvAnswerWrite
  <2> HIDE DEF granted, m
  <2> QED
    BY <2>2, <2>3, <2>4, GrantExpects
<1>4. CASE RecvAnswerRead(n, p)
  <2>1. n = Coord /\ Arrived(n, p, {"SEND_PAGE"})
    BY <1>4, CoordAssumption, NoNodeAssumption DEF RecvAnswerRead, coordinator_fd
  <2>2. m \in Packet
    BY <2>1, Arrival
  <2>3. /\ Expected' = Expected
        /\ chan' \in {Received(n, p), Send(Received(n, p), n, {pend[n].client_fd}, m)}
    BY <1>1, <1>4, <2>1 DEF RecvAnswerRead, Expected, Pending
  <2> QED
    BY <2>1, <2>2, <2>3, OtherPacketSent
<1>5. CASE RecvPage(n, p)
  <2>1. Arrived(n, p, {"SEND_PAGE"}) /\ Expected' = Expected /\ chan' = Received(n, p)
    BY <1>5 DEF RecvPage, Expected
  <2>2. m \in Packet
    BY <2>1, Arrival
  <2> QED
    BY <2>1, <2>2, OtherPacketSent
<1>6. CASE RecvRequestServe(n, p)
  <2>1. Arrived(n, p, ReqType) /\ Expected' = Expected /\ chan' = Received(n, p)
    BY <1>6 DEF RecvRequestServe, RecvRequest, Expected
  <2>2. m \in Packet
    BY <2>1, Arrival
  <2> QED
    BY <2>1, <2>2, OtherPacketSent DEF ReqType
<1>7. CASE RecvRequestFetch(n, p)
  <2>1. n = Coord
    <3>1. RecvRequest(n, p) /\ gpd[n].owner \in node_fds'[n]
      BY <1>7 DEF RecvRequestFetch
    <3>2. node_fds'[n] \subseteq Nodes
      BY DEF IInv, DirOK
    <3> QED
      BY <3>1, <3>2, NoNodeAssumption DEF IInv, DirOK, WorkerDirectoryPassive, Workers
  <2>2. Expected' = 0
    BY <1>1, <1>7, <2>1 DEF RecvRequestFetch, Expected, Pending
  <2> QED
    BY <1>1, <2>2
<1>8. CASE RecvRequestZero(n, p)
  <2>0. RecvRequest(n, p)
    BY <1>8 DEF RecvRequestZero
  <2>1. /\ Arrived(n, p, ReqType) /\ ReqType \cap {"INVALIDATE", "INVALIDATE_ACK"} = {}
        /\ Page(n, {}) \in Packet
    BY <2>0, PacketType DEF RecvRequest, ReqType, Content
  <2>2. ChanOK(Received(n, p)) /\ Expected <= InFlight(Received(n, p))
    BY <2>1, OtherPacket
  <2>3. CASE m.type = "REQUEST_PAGE_WRITE"
    <3>1. n = Coord /\ m.sender = p
      BY <2>0, <2>3, Registers
    <3>2. GrantWrite(Coord, p, p, {}, Received(n, p), pend[n], Page(n, {}))
      BY <1>8, <2>3, <3>1 DEF RecvRequestZero
    <3> QED
      BY <2>1, <2>2, <3>1, <3>2, GrantExpects DEF Expected
  <2>4. CASE m.type # "REQUEST_PAGE_WRITE"
    <3>1. Expected' = Expected /\ chan' = Send(Received(n, p), n, {p}, Page(n, {}))
      BY <1>8, <2>4 DEF RecvRequestZero, Expected
    <3> QED
      BY <2>1, <3>1, OtherPacketSent
  <2> QED
    BY <2>3, <2>4
<1> QED
  BY <1>2, <1>3, <1>4, <1>5, <1>6, <1>7, <1>8, InvalidateCounts, TakenAckCounts
  DEF PeerSession

\* A page that was copied, and an eviction.
LEMMA ServeEvictCounts ==
  ASSUME IInv, IInv', AcksInFlight, NEW n \in Nodes, Serve(n) \/ EvictVisit(n)
  PROVE  Expected' <= InFlight(chan')
<1>1. /\ ChanOK(chan) /\ ChanOK(chan') /\ Expected \in Nat /\ InFlight(chan) \in Nat
      /\ InFlight(chan') \in Nat /\ pend \in [Nodes -> Pending]
  BY CoordAssumption, PlacesFinite DEF IInv, DirOK, Expected, Pending
<1>2. Expected <= InFlight(chan)
  BY AcksInFlightMeans DEF Expected
<1>3. /\ \A v \in Content : Page(n, v) \in Packet
      /\ engine[n].payload \in Content /\ mem[n].val \in Content
  BY PacketType DEF IInv, EngineOK, Engine, LocalOK, Mapping
<1>4. ASSUME Expected' = Expected, NEW dests, NEW m \in Packet,
             chan' \in {chan, Send(chan, n, dests, m)}
      PROVE  Expected' <= InFlight(chan')
  <2>1. InFlight(chan) <= InFlight(chan')
    BY <1>1, <1>4, SendCounts
  <2> QED
    BY <1>1, <1>2, <1>4, <2>1
<1>5. CASE ServeWrite(n)
  <2>1. n = Coord
    BY <1>5 DEF ServeWrite, IInv, EngineOK
  <2>2. GrantWrite(Coord, engine[n].fd, engine[n].fd, engine[n].payload, chan, pend[n],
                   Page(n, engine[n].payload))
    BY <1>5, <2>1 DEF ServeWrite
  <2> QED
    BY <1>1, <1>2, <1>3, <2>1, <2>2, GrantExpects DEF Expected
<1>6. CASE ServeRead(n)
  BY <1>3, <1>4, <1>6 DEF ServeRead, Expected
<1>7. CASE EvictVisit(n)
  BY <1>3, <1>4, <1>7 DEF EvictVisit, EvictInspect, EvictPage, Expected
<1> QED
  BY <1>5, <1>6, <1>7 DEF Serve

LEMMA AcksStep == IInv /\ AcksInFlight /\ [Next]_vars => AcksInFlight'
<1> SUFFICES ASSUME IInv, AcksInFlight, [Next]_vars
             PROVE  Expected' <= InFlight(chan')
  BY DEF AcksInFlight, Expected, InFlight, Places, Around, OfType, PlacesOf
<1>1. IInv'
  BY NextIInv
<1>2. Expected <= InFlight(chan)
  BY AcksInFlightMeans DEF Expected
<1>3. ASSUME NEW t \in Threads, App(t) PROVE Expected' <= InFlight(chan')
  BY <1>2, <1>3 DEF App, Load, Store, Fault, dirVars, Expected
<1>4. ASSUME NEW n \in Nodes, FaultHandler(n) PROVE Expected' <= InFlight(chan')
  BY <1>2, <1>4 DEF FaultHandler, HandleFault, ReadFault, dirVars, Expected
<1>5. CASE UNCHANGED vars
  BY <1>2, <1>5 DEF vars, Expected
<1> QED
  BY <1>1, <1>3, <1>4, <1>5, QueueCounts, PeerCounts, ServeEvictCounts DEF Next

\* The acks the coordinator still expects are on their way, or the INVALIDATE
\* that will be answered by one is: the count of gpd_pending_reqs never waits
\* for an ack that cannot come.
THEOREM AcksAreComing == Spec => []AcksInFlight
<1>1. Init => AcksInFlight
  <2> SUFFICES ASSUME Init PROVE AcksInFlight
    OBVIOUS
  <2>1. pend[Coord].expected_acks = 0
    BY CoordAssumption DEF Init, NoPending
  <2>2. InFlight(chan) \in Nat
    BY InitIInv, PlacesFinite DEF IInv
  <2> QED
    BY <2>1, <2>2, AcksInFlightMeans
<1> QED
  BY <1>1, AcksStep, Invariance, PTL DEF Spec

=============================================================================
