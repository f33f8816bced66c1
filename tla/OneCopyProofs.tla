--------------------------- MODULE OneCopyProofs ---------------------------
(***************************************************************************)
(* Two nodes that write the page in turn, with one thread each: at most    *)
(* one of them has it mapped, however often it moves and whatever the      *)
(* order of events.                                                        *)
(***************************************************************************)
EXTENDS FaultProofs

\* One worker, and on each node at most one thread, which only stores.
TwoWriters ==
  /\ OneWorker
  /\ \A t, u \in Threads : NodeOf[t] = NodeOf[u] => t = u
  /\ \A t \in Threads : Ops[t] \subseteq {"W"}

----------------------------------------------------------------------------
(* Packets in a channel, by type. *)

Sent(ch, a, b, type) == \E i \in DOMAIN ch[a][b] : ch[a][b][i].type = type

\* No two packets of the same type.
Single(ch, a, b) ==
  \A i, j \in DOMAIN ch[a][b] : ch[a][b][i].type = ch[a][b][j].type => i = j

\* Packets of one type are ahead of those of another.
Before(ch, a, b, first, second) ==
  \A i, j \in DOMAIN ch[a][b] :
    ch[a][b][i].type = first /\ ch[a][b][j].type = second => i < j

\* What a broadcast adds to a channel.
LEMMA AfterSend ==
  ASSUME NEW ch, ChanOK(ch), NEW n \in Nodes, NEW dests, NEW m \in Packet,
         NEW a \in Nodes, NEW b \in Nodes
  PROVE  LET new == Send(ch, n, dests, m) IN
         /\ \A type : Sent(new, a, b, type) <=>
              Sent(ch, a, b, type) \/ (a = n /\ b \in dests /\ m.type = type)
         /\ Single(ch, a, b) /\ (a = n /\ b \in dests => ~Sent(ch, a, b, m.type))
              => Single(new, a, b)
         /\ \A first, second :
              /\ Before(ch, a, b, first, second)
              /\ first # second
              /\ a = n /\ b \in dests /\ m.type = first => ~Sent(ch, a, b, second)
              => Before(new, a, b, first, second)
<1> DEFINE new == Send(ch, n, dests, m)
           s == ch[a][b]
<1>1. /\ s \in Seq(Packet)
      /\ new[a][b] = IF a = n /\ b \in dests THEN Append(s, m) ELSE s
  BY DEF ChanOK, Send
<1>2. CASE ~(a = n /\ b \in dests)
  BY <1>1, <1>2 DEF Sent, Single, Before
<1>3. CASE a = n /\ b \in dests
  <2> DEFINE l == Len(s)
  <2>0. new[a][b] = Append(s, m)
    BY <1>1, <1>3
  <2>1. /\ l \in Nat /\ DOMAIN s = 1..l /\ DOMAIN new[a][b] = 1..(l + 1)
        /\ \A i \in 1..l : new[a][b][i] = s[i]
        /\ new[a][b][l + 1] = m
    BY <1>1, <2>0
  <2> HIDE DEF l, s, new
  <2>2. \A type : Sent(new, a, b, type) <=> Sent(ch, a, b, type) \/ m.type = type
    BY <2>1 DEF Sent, s
  <2>3. ASSUME Single(ch, a, b), ~Sent(ch, a, b, m.type) PROVE Single(new, a, b)
    BY <2>1, <2>3 DEF Single, Sent, s
  <2>4. ASSUME NEW first, NEW second, Before(ch, a, b, first, second), first # second,
               m.type = first => ~Sent(ch, a, b, second)
        PROVE  Before(new, a, b, first, second)
    <3> SUFFICES ASSUME NEW i \in DOMAIN new[a][b], NEW j \in DOMAIN new[a][b],
                        new[a][b][i].type = first, new[a][b][j].type = second
                 PROVE  i < j
      BY DEF Before
    <3>1. CASE i \in 1..l /\ j \in 1..l
      BY <2>1, <2>4, <3>1 DEF Before, s
    <3>2. CASE i = l + 1
      BY <2>1, <2>4, <3>2 DEF Sent, s
    <3>3. CASE i \in 1..l /\ j = l + 1
      BY <2>1, <3>3
    <3> QED
      BY <2>1, <3>1, <3>2, <3>3
  <2> QED
    BY <1>3, <2>2, <2>3, <2>4 DEF new
<1> QED
  BY <1>2, <1>3

\* What receiving a packet takes from a channel.
LEMMA AfterReceive ==
  ASSUME IInv, NEW n \in Nodes, NEW p \in Nodes, NEW types, Arrived(n, p, types),
         Single(chan, p, n), NEW a \in Nodes, NEW b \in Nodes
  PROVE  LET new == Received(n, p)
             type0 == Head(chan[p][n]).type
         IN
         /\ ChanOK(new) /\ type0 \in types /\ Sent(chan, p, n, type0)
         /\ \A type : Sent(new, a, b, type) <=>
              Sent(chan, a, b, type) /\ ~(a = p /\ b = n /\ type = type0)
         /\ Single(chan, a, b) => Single(new, a, b)
         /\ \A first, second :
              Before(chan, a, b, first, second) => Before(new, a, b, first, second)
         /\ \A first : Before(chan, p, n, first, type0) /\ first # type0
                         => ~Sent(chan, p, n, first)
<1> DEFINE new == Received(n, p)
           s == chan[p][n]
           type0 == Head(s).type
           l == Len(s)
<1>1. /\ s \in Seq(Packet) /\ s # << >> /\ ChanOK(new) /\ type0 \in types
      /\ new[a][b] = IF a = p /\ b = n THEN Tail(chan[a][b]) ELSE chan[a][b]
  <2>1. ChanOK(new) /\ type0 \in types /\ chan[p][n] # << >>
    BY Arrival DEF Arrived
  <2>2. chan \in [Nodes -> [Nodes -> Seq(Packet)]]
    BY DEF IInv, ChanOK
  <2>3. new[a][b] = IF a = p /\ b = n THEN Tail(chan[a][b]) ELSE chan[a][b]
    BY <2>2 DEF Received
  <2> QED
    BY <2>1, <2>2, <2>3
<1>2. /\ l \in Nat \ {0} /\ DOMAIN s = 1..l /\ Head(s) = s[1]
  BY <1>1
<1>3. /\ DOMAIN Tail(s) = 1..(l - 1)
      /\ \A i \in 1..(l - 1) : Tail(s)[i] = s[i + 1]
  BY <1>1
<1> HIDE DEF l, s
<1>4. Sent(chan, p, n, type0)
  BY <1>2 DEF Sent, s
<1>5. ASSUME NEW first, Before(chan, p, n, first, type0), first # type0
      PROVE  ~Sent(chan, p, n, first)
  BY <1>2, <1>5 DEF Sent, Before, s
<1>6. CASE ~(a = p /\ b = n)
  <2>1. new[a][b] = chan[a][b]
    BY <1>1, <1>6
  <2> HIDE DEF new
  <2>2. /\ \A type : Sent(new, a, b, type) <=> Sent(chan, a, b, type)
        /\ Single(chan, a, b) => Single(new, a, b)
        /\ \A first, second :
             Before(chan, a, b, first, second) => Before(new, a, b, first, second)
    BY <2>1 DEF Sent, Single, Before
  <2> QED
    BY <1>1, <1>4, <1>5, <1>6, <2>2 DEF new, s
<1>7. CASE a = p /\ b = n
  <2>1. new[a][b] = Tail(s)
    BY <1>1, <1>7 DEF s
  <2> HIDE DEF new
  <2>2. \A type : Sent(new, a, b, type) => Sent(chan, a, b, type) /\ type # type0
    <3> SUFFICES ASSUME NEW i \in 1..(l - 1)
                 PROVE  Sent(chan, a, b, Tail(s)[i].type) /\ Tail(s)[i].type # type0
      BY <1>3, <2>1 DEF Sent
    <3>1. Tail(s)[i] = s[i + 1] /\ i + 1 \in 1..l /\ i + 1 # 1 /\ 1 \in 1..l
      BY <1>2, <1>3
    <3> QED
      BY <1>2, <1>7, <3>1 DEF Sent, Single, s
  <2>3. \A type : Sent(chan, a, b, type) /\ type # type0 => Sent(new, a, b, type)
    <3> SUFFICES ASSUME NEW i \in 1..l, s[i].type # type0
                 PROVE  Sent(new, a, b, s[i].type)
      BY <1>2, <1>7 DEF Sent, s
    <3>1. i - 1 \in 1..(l - 1) /\ (i - 1) + 1 = i
      BY <1>2
    <3>2. Tail(s)[i - 1] = s[i]
      BY <1>3, <3>1
    <3> QED
      BY <1>3, <2>1, <3>1, <3>2 DEF Sent
  <2>4. Single(new, a, b)
    <3> SUFFICES ASSUME NEW i \in 1..(l - 1), NEW j \in 1..(l - 1),
                        Tail(s)[i].type = Tail(s)[j].type
                 PROVE  i = j
      BY <1>3, <2>1 DEF Single
    <3>1. i + 1 \in 1..l /\ j + 1 \in 1..l /\ s[i + 1].type = s[j + 1].type
      BY <1>2, <1>3
    <3>2. i + 1 = j + 1
      BY <1>2, <3>1 DEF Single, s
    <3> QED
      BY <3>2
  <2>5. ASSUME NEW first, NEW second, Before(chan, a, b, first, second)
        PROVE  Before(new, a, b, first, second)
    <3> SUFFICES ASSUME NEW i \in 1..(l - 1), NEW j \in 1..(l - 1),
                        Tail(s)[i].type = first, Tail(s)[j].type = second
                 PROVE  i < j
      BY <1>3, <2>1 DEF Before
    <3>1. /\ i + 1 \in 1..l /\ j + 1 \in 1..l
          /\ s[i + 1].type = first /\ s[j + 1].type = second
      BY <1>2, <1>3
    <3>2. i + 1 < j + 1
      BY <1>2, <1>7, <2>5, <3>1 DEF Before, s
    <3> QED
      BY <3>2
  <2> QED
    BY <1>1, <1>4, <1>5, <1>7, <2>2, <2>3, <2>4, <2>5 DEF new, s
<1> QED
  BY <1>6, <1>7

----------------------------------------------------------------------------
(* Where a request of the worker w can be, one place at a time ... *)

Asking(w) == Sent(chan, w, Coord, "REQUEST_PAGE_WRITE")
Serving == engine[Coord].pc = "serve"
Granting(w) == Sent(chan, Coord, w, "SEND_PAGE")

(* ... and one of the coordinator: first the page is fetched from w ...  *)
Fetching(w) == Sent(chan, Coord, w, "REQUEST_PAGE_READ")
Copying(w) == engine[w].pc = "serve"
Answering(w) == Sent(chan, w, Coord, "SEND_PAGE")

(* ... then w drops it. *)
Dropping(w) == Sent(chan, Coord, w, "INVALIDATE")
Dropped(w) == Sent(chan, w, Coord, "INVALIDATE_ACK")

----------------------------------------------------------------------------
(* The invariant. *)

\* Nobody reads, so nothing is ever shared or write-protected.
StoresOnly ==
  /\ \A n \in Nodes : /\ ~mem[n].wp
                      /\ mem[n].mapped => status[n] = "VALID"
                      /\ handler[n] # "R"
                      /\ \A i \in DOMAIN reqq[n] : reqq[n][i]
  /\ \A t \in Threads : thr[t].pc # "run" => thr[t].op = "W"
  /\ Serving => engine[Coord].type = "REQUEST_PAGE_WRITE"
  /\ gpd[Coord].state # "SHARED"

\* The worker has at most one request, and only while its thread waits.
WorkerTurn(w) ==
  /\ handler[w] # "none" \/ reqq[w] # << >> \/ Asking(w) \/ Serving \/ Granting(w)
       => Waiting(w)
  /\ handler[w] # "none" => reqq[w] = << >> /\ ~Asking(w) /\ ~Serving /\ ~Granting(w)
  /\ reqq[w] # << >> => Len(reqq[w]) = 1 /\ ~Asking(w) /\ ~Serving /\ ~Granting(w)
  /\ Asking(w) => ~Serving /\ ~Granting(w)
  /\ Serving => ~Granting(w)

\* So has the coordinator.
CoordTurn ==
  /\ handler[Coord] # "none" \/ reqq[Coord] # << >> \/ pend[Coord].requester = Coord
       => Waiting(Coord)
  /\ handler[Coord] # "none" => reqq[Coord] = << >> /\ pend[Coord].requester # Coord
  /\ reqq[Coord] # << >> => Len(reqq[Coord]) = 1 /\ pend[Coord].requester # Coord
  /\ pend[Coord].requester = Coord => pend[Coord].type = "REQUEST_PAGE_WRITE"

\* The page is fetched from a worker that owns it and has it when it answers.
FetchOK(w) ==
  /\ Fetching(w) \/ Copying(w) \/ Answering(w) =>
       /\ pend[Coord].requester = Coord /\ pend[Coord].expected_acks = 0
       /\ gpd[Coord].owner = w
  /\ Copying(w) \/ Answering(w) => mem[w].mapped
  /\ Fetching(w) => ~Copying(w) /\ ~Answering(w)
  /\ Copying(w) => ~Answering(w)

\* It is then dropped: until the INVALIDATE arrives the worker has it, and
\* has therefore not asked for it again.
DropOK(w) ==
  /\ Dropping(w) \/ Dropped(w) =>
       /\ pend[Coord].requester = Coord /\ pend[Coord].expected_acks = 1
       /\ gpd[Coord].owner = Coord
  /\ Dropping(w) => mem[w].mapped /\ ~Dropped(w)
  /\ Dropped(w) => ~mem[w].mapped

\* The directory names the node that has the page, or is about to get it.
OwnerOK(w) ==
  /\ mem[w].mapped => gpd[Coord].owner = w \/ Dropping(w)
  /\ Granting(w) => gpd[Coord].owner = w
  /\ gpd[Coord].owner = w => mem[w].mapped \/ Granting(w)
  /\ mem[Coord].mapped => gpd[Coord].owner = Coord
  /\ Serving => mem[Coord].mapped

\* The page the worker is granted reaches it before it is fetched from there,
\* and its ack before its next request.
InOrder(w) ==
  /\ Single(chan, w, Coord) /\ Single(chan, Coord, w)
  /\ Before(chan, Coord, w, "SEND_PAGE", "REQUEST_PAGE_READ")
  /\ Before(chan, w, Coord, "INVALIDATE_ACK", "REQUEST_PAGE_WRITE")
  /\ ~Sent(chan, w, Coord, "REQUEST_PAGE_READ")

PairOK(w) ==
  /\ StoresOnly
  /\ WorkerTurn(w)
  /\ CoordTurn
  /\ FetchOK(w)
  /\ DropOK(w)
  /\ OwnerOK(w)
  /\ InOrder(w)

PairInv(w) == FaultsInv /\ PairOK(w)

\* A queue of one request.
LEMMA OneElement ==
  ASSUME NEW S, NEW s \in Seq(S), NEW x \in S
  PROVE  /\ s = << >> => /\ Len(Append(s, x)) = 1
                         /\ \A i \in DOMAIN Append(s, x) : Append(s, x)[i] = x
         /\ Len(s) = 1 => Tail(s) = << >> /\ 1 \in DOMAIN s /\ Head(s) = s[1]
<1>1. ASSUME s = << >>
      PROVE  /\ Len(Append(s, x)) = 1
             /\ \A i \in DOMAIN Append(s, x) : Append(s, x)[i] = x
  <2>1. Len(s) = 0
    BY <1>1
  <2>2. Len(Append(s, x)) = Len(s) + 1 /\ Append(s, x) \in Seq(S)
        /\ Append(s, x)[Len(s) + 1] = x
    OBVIOUS
  <2>3. DOMAIN Append(s, x) = 1..1
    BY <2>1, <2>2
  <2> QED
    BY <2>1, <2>2, <2>3
<1>2. ASSUME Len(s) = 1
      PROVE  Tail(s) = << >> /\ 1 \in DOMAIN s /\ Head(s) = s[1]
  <2>1. s # << >> /\ 1 \in DOMAIN s
    BY <1>2
  <2>2. Tail(s) \in Seq(S) /\ Len(Tail(s)) = 0
    BY <1>2, <2>1, TailType
  <2>3. Tail(s) = << >>
    BY <2>2, EmptySeq
  <2> QED
    BY <2>1, <2>3, TailAt
<1> QED
  BY <1>1, <1>2

\* What the steps use of it.
LEMMA PairFacts ==
  ASSUME NEW w \in Workers, TwoWriters, PairInv(w)
  PROVE  /\ IInv /\ LocalOK /\ ChanOK(chan) /\ FaultsInv
         /\ Nodes = {Coord, w} /\ w # Coord /\ Workers = {w} /\ w # NoNode /\ Coord # NoNode
         /\ thr \in [Threads -> Thread] /\ mem \in [Nodes -> Mapping]
         /\ status \in [Nodes -> PageStatus] /\ engine \in [Nodes -> Engine]
         /\ handler \in [Nodes -> {"none", "R", "W"}]
         /\ reqq \in [Nodes -> Seq(BOOLEAN)] /\ pend \in [Nodes -> Pending]
         /\ gpd \in [Nodes -> Entry] /\ NodeOf \in [Threads -> Nodes]
         /\ \A n \in Nodes : Waiting(n) => ~mem[n].mapped
         /\ \A n \in Nodes : ~mem[n].mapped => status[n] \in {"EMPTY", "PENDING"}
         /\ \A n \in Nodes : /\ coordinator_fd(n) = NoNode <=> n = Coord
                             /\ n # Coord => coordinator_fd(n) = Coord
<1>1. /\ IInv /\ LocalOK /\ ChanOK(chan) /\ FaultsInv
      /\ thr \in [Threads -> Thread] /\ mem \in [Nodes -> Mapping]
      /\ status \in [Nodes -> PageStatus] /\ engine \in [Nodes -> Engine]
      /\ handler \in [Nodes -> {"none", "R", "W"}]
      /\ reqq \in [Nodes -> Seq(BOOLEAN)] /\ pend \in [Nodes -> Pending]
      /\ gpd \in [Nodes -> Entry] /\ NodeOf \in [Threads -> Nodes]
  BY ThreadAssumption
  DEF PairInv, FaultsInv, MappedInv, IInv, LocalOK, FaultOK, EngineOK, DirOK
<1>2. /\ Nodes = {Coord, w} /\ w # Coord /\ Workers = {w}
      /\ w # NoNode /\ Coord # NoNode
  BY CoordAssumption, NoNodeAssumption DEF TwoWriters, OneWorker, Workers
<1>3. ASSUME NEW n \in Nodes, Waiting(n) PROVE ~mem[n].mapped
  BY <1>3 DEF Waiting, Suspended, PairInv, PairOK, StoresOnly, FaultsInv, SuspendedOK
<1>4. ASSUME NEW n \in Nodes, ~mem[n].mapped PROVE status[n] \in {"EMPTY", "PENDING"}
  BY <1>1, <1>4 DEF FaultsInv, MappedInv, ValidIsMapped, Present, PageStatus
<1> QED
  BY <1>1, <1>2, <1>3, <1>4 DEF coordinator_fd

\* Stores and faults.
LEMMA AppPair ==
  ASSUME NEW w \in Workers, TwoWriters, PairInv(w), NEW t \in Threads, App(t)
  PROVE  PairOK(w)'
<1>1. /\ thr \in [Threads -> Thread] /\ mem \in [Nodes -> Mapping]
      /\ NodeOf \in [Threads -> Nodes] /\ Nodes = {Coord, w} /\ PairOK(w)
  BY PairFacts DEF PairInv
<1>2. /\ UNCHANGED <<handler, reqq, status, engine, chan, pend, gpd>>
      /\ \A n \in Nodes : mem'[n].mapped = mem[n].mapped /\ mem'[n].wp = mem[n].wp
  BY <1>1 DEF App, Load, Store, Fault, faultVars, dirVars, Mapping
<1>3. thr[t].pc \in {"run", "again"} /\ thr'[t].pc \in {"run", "pending"}
      /\ \A u \in Threads \ {t} : thr'[u] = thr[u]
  BY <1>1 DEF App, Load, Store, Fault, Issues, Running
<1>4. \A n \in Nodes : Waiting(n)' <=> Waiting(n)
  BY <1>3 DEF Waiting
<1>5. thr'[t].pc # "run" => thr'[t].op = "W"
  BY <1>1 DEF App, Load, Store, Fault, Issues, Running, TwoWriters, PairOK, StoresOnly
<1>6. StoresOnly'
  BY <1>1, <1>2, <1>3, <1>5 DEF StoresOnly, PairOK, Serving
<1>7. WorkerTurn(w)' /\ CoordTurn'
  BY <1>1, <1>2, <1>4 DEF PairOK, WorkerTurn, CoordTurn, Asking, Serving, Granting
<1>8. FetchOK(w)' /\ DropOK(w)' /\ OwnerOK(w)'
  BY <1>1, <1>2 DEF PairOK, FetchOK, DropOK, OwnerOK, Fetching, Copying, Answering,
     Dropping, Dropped, Granting, Serving
<1>9. InOrder(w)'
  BY <1>1, <1>2 DEF PairOK, InOrder
<1> QED
  BY <1>6, <1>7, <1>8, <1>9 DEF PairOK

\* The fault handler: its events, like its requests, are single.
LEMMA HandlerPair ==
  ASSUME NEW w \in Workers, TwoWriters, PairInv(w), NEW n \in Nodes, FaultHandler(n)
  PROVE  PairOK(w)'
<1>1. /\ thr \in [Threads -> Thread] /\ status \in [Nodes -> PageStatus]
      /\ handler \in [Nodes -> {"none", "R", "W"}] /\ reqq \in [Nodes -> Seq(BOOLEAN)]
      /\ NodeOf \in [Threads -> Nodes] /\ Nodes = {Coord, w} /\ w # Coord /\ PairOK(w)
      /\ \A k \in Nodes : Waiting(k) => ~mem[k].mapped
      /\ \A k \in Nodes : ~mem[k].mapped => status[k] \in {"EMPTY", "PENDING"}
  BY PairFacts DEF PairInv
<1>2. UNCHANGED <<mem, engine, chan, pend, gpd>>
  BY DEF FaultHandler, ReadFault, HandleFault, dirVars, appVars
<1>3. FetchOK(w)' /\ DropOK(w)' /\ OwnerOK(w)'
  BY <1>1, <1>2 DEF PairOK, FetchOK, DropOK, OwnerOK, Fetching, Copying, Answering,
     Dropping, Dropped, Granting, Serving
<1>4. InOrder(w)'
  BY <1>1, <1>2 DEF PairOK, InOrder
<1>5. ASSUME NEW t \in Threads, ReadFault(n, t)
      PROVE  StoresOnly' /\ WorkerTurn(w)' /\ CoordTurn'
  <2>1. /\ NodeOf[t] = n /\ thr[t].pc = "pending" /\ thr' = [thr EXCEPT ![t].pc = "waiting"]
        /\ handler' = [handler EXCEPT ![n] = thr[t].op] /\ UNCHANGED <<status, reqq>>
    BY <1>5 DEF ReadFault
  <2>2. thr[t].op = "W"
    BY <1>1, <2>1 DEF PairOK, StoresOnly
  <2>3. ~Waiting(n)
    BY <2>1 DEF Waiting, TwoWriters
  <2>4. Waiting(n)' /\ \A k \in Nodes : Waiting(k) => Waiting(k)'
    BY <1>1, <2>1 DEF Waiting, Thread
  <2>5. StoresOnly'
    BY <1>1, <1>2, <2>1, <2>2 DEF PairOK, StoresOnly, Serving, Thread
  <2>6. WorkerTurn(w)'
    BY <1>1, <1>2, <2>1, <2>3, <2>4 DEF PairOK, WorkerTurn, Asking, Serving, Granting
  <2>7. CoordTurn'
    BY <1>1, <1>2, <2>1, <2>3, <2>4 DEF PairOK, CoordTurn
  <2> QED
    BY <2>5, <2>6, <2>7
<1>6. ASSUME HandleFault(n) PROVE StoresOnly' /\ WorkerTurn(w)' /\ CoordTurn'
  <2>1. handler[n] = "W" /\ Waiting(n) /\ reqq[n] = << >>
    BY <1>1, <1>6 DEF HandleFault, PairOK, StoresOnly, WorkerTurn, CoordTurn
  <2>2. ~mem[n].mapped /\ status[n] # "VALID" /\ Len(reqq[n]) # QUEUE_CAPACITY
    BY <1>1, <2>1, BoundAssumption
  <2>3. /\ reqq' = [reqq EXCEPT ![n] = Append(reqq[n], TRUE)] /\ UNCHANGED thr
        /\ handler' = [handler EXCEPT ![n] = "none"]
        /\ status' = [status EXCEPT ![n] = "PENDING"]
    BY <1>6, <2>1, <2>2 DEF HandleFault, appVars
  <2>4. /\ Len(reqq'[n]) = 1
        /\ \A i \in DOMAIN reqq'[n] : reqq'[n][i] = TRUE
    <3>1. reqq'[n] = Append(reqq[n], TRUE) /\ TRUE \in BOOLEAN /\ reqq[n] \in Seq(BOOLEAN)
      BY <1>1, <2>3
    <3>2. /\ Len(Append(reqq[n], TRUE)) = 1
          /\ \A i \in DOMAIN Append(reqq[n], TRUE) : Append(reqq[n], TRUE)[i] = TRUE
      BY <2>1, <3>1, OneElement
    <3> QED
      BY <3>1, <3>2, Zenon
  <2>5. \A k \in Nodes : Waiting(k)' <=> Waiting(k)
    BY <2>3 DEF Waiting
  <2>6. StoresOnly'
    <3>1. ASSUME NEW k \in Nodes
          PROVE  /\ ~mem'[k].wp
                 /\ mem'[k].mapped => status'[k] = "VALID"
                 /\ handler'[k] # "R"
                 /\ \A i \in DOMAIN reqq'[k] : reqq'[k][i]
      <4>1. CASE k = n
        BY <1>1, <1>2, <2>2, <2>3, <2>4, <4>1 DEF PairOK, StoresOnly
      <4>2. CASE k # n
        BY <1>1, <1>2, <2>3, <4>2 DEF PairOK, StoresOnly
      <4> QED
        BY <4>1, <4>2
    <3> QED
      BY <1>1, <1>2, <2>3, <3>1 DEF PairOK, StoresOnly, Serving
  <2>7. WorkerTurn(w)'
    BY <1>1, <1>2, <2>1, <2>3, <2>4, <2>5 DEF PairOK, WorkerTurn, Asking, Serving, Granting
  <2>8. CoordTurn'
    BY <1>1, <1>2, <2>1, <2>3, <2>4, <2>5 DEF PairOK, CoordTurn
  <2> QED
    BY <2>6, <2>7, <2>8
<1> QED
  BY <1>3, <1>4, <1>5, <1>6 DEF FaultHandler, PairOK

\* The request the engine pops is the only one, and a write.
LEMMA PopOne ==
  ASSUME NEW w \in Workers, TwoWriters, PairInv(w), NEW n \in Nodes,
         NEW is_write \in BOOLEAN, Popping(n, is_write)
  PROVE  /\ is_write /\ Waiting(n) /\ ~mem[n].mapped /\ ~Present(n)
         /\ reqq'[n] = << >> /\ \A k \in Nodes \ {n} : reqq'[k] = reqq[k]
         /\ \A k \in Nodes : \A i \in DOMAIN reqq'[k] : reqq'[k][i]
         /\ \A k \in Nodes : engine'[k].pc = "serve" <=> engine[k].pc = "serve"
         /\ engine'[Coord].type = engine[Coord].type
         /\ UNCHANGED <<handler, node_fds>>
<1>1. /\ Nodes = {Coord, w} /\ w # Coord /\ PairOK(w) /\ reqq \in [Nodes -> Seq(BOOLEAN)]
      /\ engine \in [Nodes -> Engine]
      /\ \A k \in Nodes : Waiting(k) => ~mem[k].mapped
      /\ \A k \in Nodes : ~mem[k].mapped => status[k] \in {"EMPTY", "PENDING"}
  BY PairFacts DEF PairInv
<1>2. reqq[n] # << >> /\ reqq[n] \in Seq(BOOLEAN) /\ is_write = Head(reqq[n])
      /\ reqq' = [reqq EXCEPT ![n] = Tail(reqq[n])]
  BY <1>1 DEF Popping
<1>3. Len(reqq[n]) = 1 /\ Waiting(n)
  BY <1>1, <1>2 DEF PairOK, WorkerTurn, CoordTurn
<1>4. Tail(reqq[n]) = << >> /\ 1 \in DOMAIN reqq[n] /\ Head(reqq[n]) = reqq[n][1]
  BY <1>2, <1>3, OneElement
<1>5. is_write
  BY <1>1, <1>2, <1>4 DEF PairOK, StoresOnly
<1>6. reqq'[n] = << >> /\ \A k \in Nodes \ {n} : reqq'[k] = reqq[k]
  BY <1>1, <1>2, <1>4
<1>7. \A k \in Nodes : \A i \in DOMAIN reqq'[k] : reqq'[k][i]
  <2>1. \A i \in DOMAIN reqq'[n] : FALSE
    BY <1>6
  <2> QED
    BY <1>1, <1>6, <2>1 DEF PairOK, StoresOnly
<1>8. ~mem[n].mapped /\ ~Present(n)
  BY <1>1, <1>3 DEF Present
<1>9. /\ \A k \in Nodes : engine'[k].pc = "serve" <=> engine[k].pc = "serve"
      /\ engine'[Coord].type = engine[Coord].type
      /\ UNCHANGED <<handler, node_fds>>
  BY <1>1 DEF Popping, Engine
<1> QED
  BY <1>3, <1>5, <1>6, <1>7, <1>8, <1>9

\* Requests popped from the queue.
LEMMA QueuePair ==
  ASSUME NEW w \in Workers, TwoWriters, PairInv(w), NEW n \in Nodes, QueueSession(n)
  PROVE  PairOK(w)'
<1>1. /\ IInv /\ LocalOK /\ ChanOK(chan) /\ Nodes = {Coord, w} /\ w # Coord /\ PairOK(w)
      /\ mem \in [Nodes -> Mapping] /\ status \in [Nodes -> PageStatus]
      /\ thr \in [Threads -> Thread] /\ pend \in [Nodes -> Pending] /\ gpd \in [Nodes -> Entry]
      /\ \A k \in Nodes : Waiting(k) => ~mem[k].mapped
      /\ \A k \in Nodes : /\ coordinator_fd(k) = NoNode <=> k = Coord
                          /\ k # Coord => coordinator_fd(k) = Coord
  BY PairFacts DEF PairInv
<1>2. PICK is_write \in BOOLEAN : \/ PopForward(n, is_write)
                                  \/ PopUpgrade(n, is_write)
                                  \/ PopFetch(n, is_write)
                                  \/ PopZeroFill(n, is_write)
  BY DEF QueueSession
<1>3. Popping(n, is_write)
  BY <1>2 DEF PopForward, PopUpgrade, PopFetch, PopZeroFill
<1>4. /\ is_write /\ Waiting(n) /\ ~mem[n].mapped /\ ~Present(n)
      /\ reqq'[n] = << >> /\ \A k \in Nodes \ {n} : reqq'[k] = reqq[k]
      /\ \A k \in Nodes : \A i \in DOMAIN reqq'[k] : reqq'[k][i]
      /\ \A k \in Nodes : engine'[k].pc = "serve" <=> engine[k].pc = "serve"
      /\ engine'[Coord].type = engine[Coord].type
      /\ UNCHANGED <<handler, node_fds>> /\ reqq[n] # << >>
  BY <1>3, PopOne DEF Popping
<1>5. CASE PopForward(n, is_write)
  <2> DEFINE m == Pkt("REQUEST_PAGE_WRITE", n)
  <2>1. n = w /\ chan' = Send(chan, n, {Coord}, m) /\ UNCHANGED <<thr, mem, status, pend, gpd>>
    BY <1>1, <1>4, <1>5 DEF PopForward, ReqOf, localVars
  <2>2. m \in Packet /\ m.type = "REQUEST_PAGE_WRITE"
    BY PacketType DEF NodeOrNone, Pkt, ReqType
  <2> HIDE DEF m
  <2>3. \A k \in Nodes : Waiting(k)' <=> Waiting(k)
    BY <2>1 DEF Waiting
  <2>4. \A type : /\ Sent(chan', w, Coord, type) <=>
                       Sent(chan, w, Coord, type) \/ type = "REQUEST_PAGE_WRITE"
                  /\ Sent(chan', Coord, w, type) <=> Sent(chan, Coord, w, type)
    BY <1>1, <2>1, <2>2, AfterSend
  <2>5. ~Sent(chan, w, Coord, "REQUEST_PAGE_WRITE")
    BY <1>1, <1>4, <2>1 DEF PairOK, WorkerTurn, Asking
  <2>6. InOrder(w)'
    BY <1>1, <2>1, <2>2, <2>4, <2>5, AfterSend DEF PairOK, InOrder
  <2>7. StoresOnly'
    BY <1>1, <1>4, <2>1 DEF PairOK, StoresOnly, Serving
  <2>8. WorkerTurn(w)' /\ CoordTurn'
    BY <1>1, <1>4, <2>1, <2>3, <2>4
    DEF PairOK, WorkerTurn, CoordTurn, Asking, Serving, Granting
  <2>9. FetchOK(w)' /\ DropOK(w)' /\ OwnerOK(w)'
    BY <1>1, <1>4, <2>1, <2>4 DEF PairOK, FetchOK, DropOK, OwnerOK, Fetching, Copying,
       Answering, Dropping, Dropped, Granting, Serving
  <2> QED
    BY <2>6, <2>7, <2>8, <2>9 DEF PairOK
<1>6. ~PopUpgrade(n, is_write)
  BY <1>4 DEF PopUpgrade
<1>7. CASE PopFetch(n, is_write)
  <2> DEFINE m == Pkt("REQUEST_PAGE_READ", n)
             owner == gpd[n].owner
  <2>1. /\ n = Coord /\ chan' = Send(chan, n, {owner}, m) /\ owner \in node_fds[n]
        /\ UNCHANGED <<thr, mem, status, gpd>>
        /\ pend' = [pend EXCEPT ![n] =
             [pend[n] EXCEPT !.requester = n, !.type = "REQUEST_PAGE_WRITE",
                             !.client_fd = NoNode, !.expected_acks = 0]]
    BY <1>1, <1>4, <1>7 DEF PopFetch, ReqOf, localVars
  <2>2. m \in Packet /\ m.type = "REQUEST_PAGE_READ"
    BY PacketType DEF NodeOrNone, Pkt, ReqType
  <2>3. owner = w
    BY <1>1, <2>1 DEF IInv, DirOK
  <2> HIDE DEF m
  <2>4. /\ pend'[Coord].requester = Coord /\ pend'[Coord].expected_acks = 0
        /\ pend'[Coord].type = "REQUEST_PAGE_WRITE"
    BY <1>1, <2>1 DEF Pending
  <2>5. \A k \in Nodes : Waiting(k)' <=> Waiting(k)
    BY <2>1 DEF Waiting
  <2>6. \A type : /\ Sent(chan', Coord, w, type) <=>
                       Sent(chan, Coord, w, type) \/ type = "REQUEST_PAGE_READ"
                  /\ Sent(chan', w, Coord, type) <=> Sent(chan, w, Coord, type)
    BY <1>1, <2>1, <2>2, <2>3, AfterSend
  <2>7. pend[Coord].requester # Coord
    BY <1>1, <1>4, <2>1 DEF PairOK, CoordTurn
  <2>8. /\ ~Fetching(w) /\ ~Copying(w) /\ ~Answering(w) /\ ~Dropping(w) /\ ~Dropped(w)
    BY <1>1, <2>7 DEF PairOK, FetchOK, DropOK
  <2>9. InOrder(w)'
    BY <1>1, <2>1, <2>2, <2>6, <2>8, AfterSend DEF PairOK, InOrder, Fetching
  <2>10. StoresOnly'
    BY <1>1, <1>4, <2>1 DEF PairOK, StoresOnly, Serving
  <2>11. WorkerTurn(w)' /\ CoordTurn'
    BY <1>1, <1>4, <2>1, <2>4, <2>5, <2>6
    DEF PairOK, WorkerTurn, CoordTurn, Asking, Serving, Granting
  <2>12. FetchOK(w)' /\ DropOK(w)' /\ OwnerOK(w)'
    BY <1>1, <1>4, <2>1, <2>3, <2>4, <2>6, <2>8 DEF PairOK, FetchOK, DropOK, OwnerOK,
       Fetching, Copying, Answering, Dropping, Dropped, Granting, Serving
  <2> QED
    BY <2>9, <2>10, <2>11, <2>12 DEF PairOK
<1>8. CASE PopZeroFill(n, is_write)
  <2>1. /\ n = Coord /\ UNCHANGED <<pend, chan>> /\ gpd[n].owner \notin node_fds[n]
        /\ InstallPage(n, {}) /\ gpd'[Coord] = gpd_transition_to_modified(gpd[Coord], Coord)
    BY <1>1, <1>4, <1>8 DEF PopZeroFill
  <2>2. gpd'[Coord].owner = Coord /\ gpd'[Coord].state = "MODIFIED"
    BY <2>1 DEF gpd_transition_to_modified
  <2>3. gpd[Coord].owner # w
    BY <1>1, <2>1, PairFacts DEF IInv, DirOK
  <2>4. pend[Coord].requester # Coord
    BY <1>1, <1>4, <2>1 DEF PairOK, CoordTurn
  <2>5. /\ ~Fetching(w) /\ ~Copying(w) /\ ~Answering(w) /\ ~Dropping(w) /\ ~Dropped(w)
    BY <1>1, <2>4 DEF PairOK, FetchOK, DropOK
  <2>6. ~mem[w].mapped /\ ~Granting(w)
    BY <1>1, <2>3, <2>5 DEF PairOK, OwnerOK
  <2>7. /\ mem'[Coord].mapped /\ ~mem'[Coord].wp /\ status'[Coord] = "VALID"
        /\ mem'[w] = mem[w] /\ status'[w] = status[w] /\ thr' = Wake(Coord)
    BY <1>1, <2>1 DEF InstallPage
  <2>8. Waiting(w)' <=> Waiting(w)
    BY <1>1, <2>7 DEF Waiting, Wake
  <2>9. \A t \in Threads : thr'[t].pc # "run" => thr'[t].op = "W"
    BY <1>1, <2>7 DEF Wake, PairOK, StoresOnly, Thread
  <2>10. StoresOnly'
    BY <1>1, <1>4, <2>2, <2>7, <2>9 DEF PairOK, StoresOnly, Serving
  <2>11. handler[Coord] = "none"
    BY <1>1, <1>4, <2>1 DEF PairOK, CoordTurn
  <2>12. WorkerTurn(w)' /\ CoordTurn'
    BY <1>1, <1>4, <2>1, <2>4, <2>8, <2>11
    DEF PairOK, WorkerTurn, CoordTurn, Asking, Serving, Granting
  <2>13. FetchOK(w)' /\ DropOK(w)' /\ OwnerOK(w)'
    BY <1>1, <1>4, <2>1, <2>2, <2>5, <2>6, <2>7 DEF PairOK, FetchOK, DropOK, OwnerOK,
       Fetching, Copying, Answering, Dropping, Dropped, Granting, Serving
  <2>14. InOrder(w)'
    BY <1>1, <2>1 DEF PairOK, InOrder
  <2> QED
    BY <2>10, <2>12, <2>13, <2>14 DEF PairOK
<1> QED
  BY <1>2, <1>5, <1>6, <1>7, <1>8

\* The channels after the coordinator has taken a packet of the worker's.
LEMMA CoordTakes ==
  ASSUME NEW w \in Workers, TwoWriters, PairInv(w), NEW types, Arrived(Coord, w, types)
  PROVE  LET new == Received(Coord, w)
             type0 == Head(chan[w][Coord]).type
         IN
         /\ ChanOK(new) /\ Head(chan[w][Coord]) \in Packet
         /\ type0 \in types /\ Sent(chan, w, Coord, type0)
         /\ \A type : /\ Sent(new, w, Coord, type) <=>
                           Sent(chan, w, Coord, type) /\ type # type0
                      /\ Sent(new, Coord, w, type) <=> Sent(chan, Coord, w, type)
         /\ Single(new, w, Coord) /\ Single(new, Coord, w)
         /\ Before(new, Coord, w, "SEND_PAGE", "REQUEST_PAGE_READ")
         /\ Before(new, w, Coord, "INVALIDATE_ACK", "REQUEST_PAGE_WRITE")
         /\ type0 = "REQUEST_PAGE_WRITE" => ~Dropped(w)
<1>1. IInv /\ InOrder(w) /\ Coord \in Nodes /\ w \in Nodes /\ w # Coord
  BY PairFacts DEF PairInv, PairOK
<1>2. Single(chan, w, Coord) /\ Single(chan, Coord, w)
      /\ Before(chan, Coord, w, "SEND_PAGE", "REQUEST_PAGE_READ")
      /\ Before(chan, w, Coord, "INVALIDATE_ACK", "REQUEST_PAGE_WRITE")
  BY <1>1 DEF InOrder
<1>3. Head(chan[w][Coord]) \in Packet
  BY <1>1, Arrival
<1> QED
  BY <1>1, <1>2, <1>3, AfterReceive DEF Dropped

\* The channels after the worker has taken a packet of the coordinator's.
LEMMA WorkerTakes ==
  ASSUME NEW w \in Workers, TwoWriters, PairInv(w), NEW types, Arrived(w, Coord, types)
  PROVE  LET new == Received(w, Coord)
             type0 == Head(chan[Coord][w]).type
         IN
         /\ ChanOK(new) /\ type0 \in types /\ Sent(chan, Coord, w, type0)
         /\ \A type : /\ Sent(new, Coord, w, type) <=>
                           Sent(chan, Coord, w, type) /\ type # type0
                      /\ Sent(new, w, Coord, type) <=> Sent(chan, w, Coord, type)
         /\ Single(new, w, Coord) /\ Single(new, Coord, w)
         /\ Before(new, Coord, w, "SEND_PAGE", "REQUEST_PAGE_READ")
         /\ Before(new, w, Coord, "INVALIDATE_ACK", "REQUEST_PAGE_WRITE")
         /\ type0 = "REQUEST_PAGE_READ" => ~Granting(w)
<1>1. IInv /\ InOrder(w) /\ Coord \in Nodes /\ w \in Nodes /\ w # Coord
  BY PairFacts DEF PairInv, PairOK
<1>2. Single(chan, w, Coord) /\ Single(chan, Coord, w)
      /\ Before(chan, Coord, w, "SEND_PAGE", "REQUEST_PAGE_READ")
      /\ Before(chan, w, Coord, "INVALIDATE_ACK", "REQUEST_PAGE_WRITE")
  BY <1>1 DEF InOrder
<1> QED
  BY <1>1, <1>2, AfterReceive DEF Granting

\* A grant to the worker: the page is on its way.
LEMMA GrantPair ==
  ASSUME NEW w \in Workers, TwoWriters, PairInv(w), NEW ch, ChanOK(ch),
         NEW m \in Packet, m.type = "SEND_PAGE", chan' = Send(ch, Coord, {w}, m),
         Single(ch, w, Coord), Single(ch, Coord, w),
         Before(ch, Coord, w, "SEND_PAGE", "REQUEST_PAGE_READ"),
         Before(ch, w, Coord, "INVALIDATE_ACK", "REQUEST_PAGE_WRITE"),
         \A type : /\ Sent(ch, w, Coord, type) <=>
                        Sent(chan, w, Coord, type) /\ type # "REQUEST_PAGE_WRITE"
                   /\ Sent(ch, Coord, w, type) <=> Sent(chan, Coord, w, type),
         Waiting(w), handler[w] = "none", reqq[w] = << >>, ~Granting(w), ~Dropped(w),
         gpd[Coord].owner # w, gpd'[Coord].owner = w, gpd'[Coord].state = "MODIFIED",
         pend'[Coord] = pend[Coord], UNCHANGED <<thr, handler, reqq>>,
         engine'[Coord].pc # "serve", engine'[w] = engine[w],
         mem'[w] = mem[w], status'[w] = status[w],
         ~mem'[Coord].mapped, ~mem'[Coord].wp
  PROVE  PairOK(w)'
<1>1. /\ Nodes = {Coord, w} /\ w # Coord /\ PairOK(w) /\ ~mem[w].mapped
  BY PairFacts DEF PairInv
<1>2. \A n \in Nodes : Waiting(n)' <=> Waiting(n)
  BY DEF Waiting
<1>3. ~Fetching(w) /\ ~Copying(w) /\ ~Answering(w) /\ ~Dropping(w)
  BY <1>1 DEF PairOK, FetchOK, DropOK
<1>4. \A type : /\ Sent(chan', Coord, w, type) <=>
                     Sent(chan, Coord, w, type) \/ type = "SEND_PAGE"
                /\ Sent(chan', w, Coord, type) <=>
                     Sent(chan, w, Coord, type) /\ type # "REQUEST_PAGE_WRITE"
  BY <1>1, AfterSend
<1>5. ~Sent(ch, Coord, w, "SEND_PAGE") /\ ~Sent(ch, Coord, w, "REQUEST_PAGE_READ")
  BY <1>3 DEF Granting, Fetching
<1>6. InOrder(w)'
  BY <1>1, <1>4, <1>5, AfterSend DEF PairOK, InOrder
<1>7. StoresOnly'
  BY <1>1 DEF PairOK, StoresOnly, Serving
<1>8. WorkerTurn(w)' /\ CoordTurn'
  BY <1>1, <1>2, <1>4 DEF PairOK, WorkerTurn, CoordTurn, Asking, Serving, Granting
<1>9. FetchOK(w)' /\ DropOK(w)' /\ OwnerOK(w)'
  BY <1>1, <1>3, <1>4 DEF PairOK, FetchOK, DropOK, OwnerOK,
     Fetching, Copying, Answering, Dropping, Dropped, Granting, Serving
<1> QED
  BY <1>6, <1>7, <1>8, <1>9 DEF PairOK

\* What the coordinator's engine does with the worker's packets.
LEMMA CoordPeerPair ==
  ASSUME NEW w \in Workers, TwoWriters, PairInv(w), IInv', PeerSession(Coord, w)
  PROVE  PairOK(w)'
<1> DEFINE R == Received(Coord, w)
           m == Head(chan[w][Coord])
<1>1. /\ IInv /\ LocalOK /\ ChanOK(chan) /\ Nodes = {Coord, w} /\ w # Coord /\ PairOK(w)
      /\ w # NoNode /\ Coord # NoNode /\ engine \in [Nodes -> Engine]
      /\ mem \in [Nodes -> Mapping] /\ status \in [Nodes -> PageStatus]
      /\ thr \in [Threads -> Thread] /\ pend \in [Nodes -> Pending] /\ gpd \in [Nodes -> Entry]
      /\ \A k \in Nodes : Waiting(k) => ~mem[k].mapped
      /\ \A k \in Nodes : ~mem[k].mapped => status[k] \in {"EMPTY", "PENDING"}
      /\ coordinator_fd(Coord) = NoNode
  BY PairFacts DEF PairInv
<1>2. UNCHANGED <<handler, reqq>> /\ ~Serving
  BY DEF PeerSession, RecvJoin, RecvAnswerWrite, RecvAnswerRead, RecvPage, RecvInvalidate,
     RecvAck, RecvRequestServe, RecvRequestFetch, RecvRequestZero, RecvRequest, faultVars,
     Idle, Serving
<1>3. CASE RecvJoin(Coord, w)
  <2>1. /\ Arrived(Coord, w, {"NODE_JOIN"}) /\ chan' = R
        /\ UNCHANGED <<thr, mem, status, engine, gpd, pend>>
    BY <1>3 DEF RecvJoin, localVars
  <2>2. \A type : type # "NODE_JOIN" =>
          /\ Sent(chan', w, Coord, type) <=> Sent(chan, w, Coord, type)
          /\ Sent(chan', Coord, w, type) <=> Sent(chan, Coord, w, type)
    BY <2>1, CoordTakes
  <2>3. InOrder(w)'
    BY <1>1, <2>1, <2>2, CoordTakes DEF PairOK, InOrder
  <2>4. \A k \in Nodes : Waiting(k)' <=> Waiting(k)
    BY <2>1 DEF Waiting
  <2>5. StoresOnly'
    BY <1>1, <1>2, <2>1 DEF PairOK, StoresOnly, Serving
  <2>6. WorkerTurn(w)' /\ CoordTurn'
    BY <1>1, <1>2, <2>1, <2>2, <2>4
    DEF PairOK, WorkerTurn, CoordTurn, Asking, Serving, Granting
  <2>7. FetchOK(w)' /\ DropOK(w)' /\ OwnerOK(w)'
    BY <1>1, <2>1, <2>2 DEF PairOK, FetchOK, DropOK, OwnerOK,
       Fetching, Copying, Answering, Dropping, Dropped, Granting, Serving
  <2> QED
    BY <2>3, <2>5, <2>6, <2>7 DEF PairOK
<1>4. ASSUME Arrived(Coord, w, {"SEND_PAGE"})
      PROVE  /\ Answering(w) /\ pend[Coord].requester = Coord
             /\ pend[Coord].type = "REQUEST_PAGE_WRITE" /\ gpd[Coord].owner = w
             /\ mem[w].mapped /\ ~Fetching(w) /\ ~Copying(w)
             /\ ~Dropping(w) /\ ~Dropped(w) /\ Waiting(Coord)
  <2>1. Answering(w)
    BY <1>4, CoordTakes DEF Answering
  <2>2. /\ pend[Coord].requester = Coord /\ gpd[Coord].owner = w /\ mem[w].mapped
        /\ ~Fetching(w) /\ ~Copying(w)
    BY <1>1, <2>1 DEF PairOK, FetchOK
  <2> QED
    BY <1>1, <2>1, <2>2 DEF PairOK, CoordTurn, DropOK
<1>5. ~RecvAnswerRead(Coord, w) /\ ~RecvPage(Coord, w)
  BY <1>1, <1>4 DEF RecvAnswerRead, RecvPage
<1>6. CASE RecvAnswerWrite(Coord, w)
  <2> DEFINE inv == Pkt("INVALIDATE", NoNode)
             targets == Targets(Coord, Coord)
             granted == [pend[Coord] EXCEPT !.requester = NoNode]
  <2>1. /\ Arrived(Coord, w, {"SEND_PAGE"}) /\ UNCHANGED <<engine, node_fds>>
        /\ GrantWrite(Coord, Coord, pend[Coord].client_fd, m.payload, R, granted, m)
    BY <1>4, <1>6 DEF RecvAnswerWrite
  <2>2. /\ Answering(w) /\ pend[Coord].requester = Coord
        /\ pend[Coord].type = "REQUEST_PAGE_WRITE" /\ gpd[Coord].owner = w
        /\ mem[w].mapped /\ ~Fetching(w) /\ ~Copying(w)
        /\ ~Dropping(w) /\ ~Dropped(w) /\ Waiting(Coord)
    BY <1>4, <2>1
  <2>3. gpd[Coord].state = "MODIFIED" /\ w \in node_fds[Coord]
    BY <1>1, <2>2 DEF IInv, DirOK, EntryOK
  <2>4. holders_mask(gpd[Coord]) = {w}
    BY <1>1, <2>2, <2>3 DEF holders_mask
  <2>5. targets = {w} /\ Coord \notin invalidate_mask(gpd[Coord], Coord)
    BY <1>1, <2>1, <2>3, <2>4 DEF Targets, invalidate_mask
  <2>6. Cardinality({w}) = 1
    BY FS_Singleton
  <2>7. /\ chan' = Send(R, Coord, {w}, inv)
        /\ gpd'[Coord].owner = Coord /\ gpd'[Coord].state = "MODIFIED"
        /\ pend'[Coord].requester = Coord /\ pend'[Coord].expected_acks = 1
        /\ pend'[Coord].type = "REQUEST_PAGE_WRITE"
    BY <1>1, <2>1, <2>5, <2>6 DEF GrantWrite, gpd_transition_to_modified
  <2>8. UNCHANGED <<thr, mem, status>>
    BY <1>1, <1>6, <2>2, <2>5 DEF RecvAnswerWrite, localVars
  <2>9. inv \in Packet /\ inv.type = "INVALIDATE"
    BY PacketType DEF NodeOrNone, Pkt
  <2> HIDE DEF inv, targets, granted, R, m
  <2>10. /\ ChanOK(R) /\ Single(R, w, Coord) /\ Single(R, Coord, w)
         /\ Before(R, Coord, w, "SEND_PAGE", "REQUEST_PAGE_READ")
         /\ Before(R, w, Coord, "INVALIDATE_ACK", "REQUEST_PAGE_WRITE")
         /\ \A type : /\ Sent(R, w, Coord, type) <=>
                           Sent(chan, w, Coord, type) /\ type # "SEND_PAGE"
                      /\ Sent(R, Coord, w, type) <=> Sent(chan, Coord, w, type)
    BY <2>1, CoordTakes DEF R
  <2>11. \A type : /\ Sent(chan', Coord, w, type) <=>
                        Sent(chan, Coord, w, type) \/ type = "INVALIDATE"
                   /\ Sent(chan', w, Coord, type) <=>
                        Sent(chan, w, Coord, type) /\ type # "SEND_PAGE"
    BY <1>1, <2>7, <2>9, <2>10, AfterSend
  <2>12. InOrder(w)'
    <3>1. ~Sent(R, Coord, w, "INVALIDATE")
      BY <2>2, <2>10 DEF Dropping
    <3> QED
      BY <1>1, <2>7, <2>9, <2>10, <2>11, <3>1, AfterSend DEF PairOK, InOrder
  <2>13. \A k \in Nodes : Waiting(k)' <=> Waiting(k)
    BY <2>8 DEF Waiting
  <2>14. StoresOnly'
    BY <1>1, <1>2, <2>1, <2>7, <2>8 DEF PairOK, StoresOnly, Serving
  <2>15. WorkerTurn(w)' /\ CoordTurn'
    BY <1>1, <1>2, <2>1, <2>2, <2>7, <2>11, <2>13
    DEF PairOK, WorkerTurn, CoordTurn, Asking, Serving, Granting
  <2>16. FetchOK(w)' /\ DropOK(w)' /\ OwnerOK(w)'
    <3>1. ~Granting(w) /\ ~Serving
      BY <1>1, <2>2 DEF PairOK, WorkerTurn, OwnerOK
    <3>2. ~Fetching(w)' /\ ~Copying(w)' /\ ~Answering(w)' /\ ~Granting(w)' /\ ~Serving'
      BY <2>1, <2>2, <2>11, <3>1 DEF Fetching, Copying, Answering, Granting, Serving
    <3>3. Dropping(w)' /\ ~Dropped(w)'
      BY <2>2, <2>11 DEF Dropping, Dropped
    <3> QED
      BY <1>1, <2>2, <2>7, <2>8, <3>2, <3>3 DEF FetchOK, DropOK, OwnerOK
  <2> QED
    BY <2>12, <2>14, <2>15, <2>16 DEF PairOK
<1>7. ~RecvInvalidate(Coord, w)
  BY <1>1, Sender DEF RecvInvalidate, Arrived
<1>8. CASE RecvAck(Coord, w)
  <2>1. Arrived(Coord, w, {"INVALIDATE_ACK"}) /\ UNCHANGED <<engine, gpd>>
    BY <1>8 DEF RecvAck
  <2>2. Dropped(w)
    BY <2>1, CoordTakes DEF Dropped
  <2>3. /\ pend[Coord].requester = Coord /\ pend[Coord].expected_acks = 1
        /\ gpd[Coord].owner = Coord /\ ~mem[w].mapped /\ ~Dropping(w) /\ Waiting(Coord)
        /\ ~Fetching(w) /\ ~Copying(w) /\ ~Answering(w) /\ ~Granting(w)
        /\ handler[Coord] = "none" /\ reqq[Coord] = << >>
    BY <1>1, <2>2 DEF PairOK, DropOK, CoordTurn, FetchOK, OwnerOK
  <2>4. status[Coord] # "WRITE_PENDING"
    BY <1>1, <2>3
  <2>5. /\ chan' = R /\ InstallPage(Coord, pend[Coord].deferred_payload)
        /\ pend'[Coord].requester = NoNode
    <3>1. /\ pend[Coord].expected_acks - 1 = 0 /\ ~(pend[Coord].expected_acks - 1 > 0)
          /\ pend[Coord].expected_acks # 0
      BY <2>3
    <3>2. /\ pend' = [pend EXCEPT ![Coord].expected_acks = 0, ![Coord].requester = NoNode]
          /\ chan' = R /\ InstallPage(Coord, pend[Coord].deferred_payload)
      BY <1>8, <2>3, <2>4, <3>1 DEF RecvAck
    <3> QED
      BY <1>1, <3>2 DEF Pending
  <2>6. /\ mem'[Coord].mapped /\ ~mem'[Coord].wp /\ status'[Coord] = "VALID"
        /\ mem'[w] = mem[w] /\ status'[w] = status[w] /\ thr' = Wake(Coord)
    BY <1>1, <2>5 DEF InstallPage
  <2> HIDE DEF R, m
  <2>7. \A type : /\ Sent(chan', w, Coord, type) <=>
                       Sent(chan, w, Coord, type) /\ type # "INVALIDATE_ACK"
                  /\ Sent(chan', Coord, w, type) <=> Sent(chan, Coord, w, type)
    BY <2>1, <2>5, CoordTakes DEF R
  <2>8. InOrder(w)'
    BY <1>1, <2>1, <2>5, <2>7, CoordTakes DEF PairOK, InOrder, R
  <2>9. Waiting(w)' <=> Waiting(w)
    BY <1>1, <2>6 DEF Waiting, Wake
  <2>10. \A t \in Threads : thr'[t].pc # "run" => thr'[t].op = "W"
    BY <1>1, <2>6 DEF Wake, PairOK, StoresOnly, Thread
  <2>11. StoresOnly'
    BY <1>1, <1>2, <2>1, <2>6, <2>10 DEF PairOK, StoresOnly, Serving
  <2>12. WorkerTurn(w)' /\ CoordTurn'
    BY <1>1, <1>2, <2>1, <2>3, <2>5, <2>7, <2>9
    DEF PairOK, WorkerTurn, CoordTurn, Asking, Serving, Granting
  <2>13. FetchOK(w)' /\ DropOK(w)' /\ OwnerOK(w)'
    <3>1. ~Fetching(w)' /\ ~Copying(w)' /\ ~Answering(w)' /\ ~Granting(w)'
      BY <2>1, <2>3, <2>7 DEF Fetching, Copying, Answering, Granting
    <3>2. ~Dropping(w)' /\ ~Dropped(w)'
      BY <2>3, <2>7 DEF Dropping, Dropped
    <3>3. ~mem'[w].mapped /\ mem'[Coord].mapped /\ gpd'[Coord].owner = Coord
      BY <2>1, <2>3, <2>6
    <3> QED
      BY <1>1, <3>1, <3>2, <3>3 DEF FetchOK, DropOK, OwnerOK
  <2> QED
    BY <2>8, <2>11, <2>12, <2>13 DEF PairOK
<1>9. ASSUME RecvRequest(Coord, w)
      PROVE  /\ m.type = "REQUEST_PAGE_WRITE" /\ m.sender = w
             /\ Asking(w) /\ Waiting(w) /\ ~Granting(w) /\ ~Dropped(w) /\ ~mem[w].mapped
             /\ handler[w] = "none" /\ reqq[w] = << >> /\ gpd[Coord].owner # w
             /\ node_fds'[Coord] \subseteq Nodes \ {Coord}
             /\ Arrived(Coord, w, {"REQUEST_PAGE_WRITE"})
  <2>1. Arrived(Coord, w, ReqType) /\ m.sender = w
        /\ node_fds'[Coord] \subseteq Nodes \ {Coord}
    BY <1>1, <1>9, Registers DEF RecvRequest
  <2>2. m.type = "REQUEST_PAGE_WRITE"
    BY <1>1, <2>1, CoordTakes DEF PairOK, InOrder, ReqType
  <2>3. Asking(w) /\ ~Dropped(w)
    BY <2>1, <2>2, CoordTakes DEF Asking
  <2>4. /\ Waiting(w) /\ ~Granting(w) /\ handler[w] = "none" /\ reqq[w] = << >>
    BY <1>1, <2>3 DEF PairOK, WorkerTurn
  <2>5. ~mem[w].mapped /\ gpd[Coord].owner # w
    BY <1>1, <2>4 DEF PairOK, OwnerOK
  <2> QED
    BY <2>1, <2>2, <2>3, <2>4, <2>5 DEF Arrived
<1>10. ~RecvRequestFetch(Coord, w)
  BY <1>1, <1>9 DEF RecvRequestFetch
<1>11. CASE RecvRequestServe(Coord, w)
  <2>1. /\ RecvRequest(Coord, w) /\ status[Coord] = "VALID" /\ chan' = R
        /\ UNCHANGED <<thr, mem, status, gpd, pend>>
        /\ engine' = [engine EXCEPT ![Coord] =
                        [pc |-> IF mem[Coord].mapped THEN "serve" ELSE "faulted",
                         fd |-> w, type |-> m.type, payload |-> mem[Coord].val]]
    BY <1>11 DEF RecvRequestServe, localVars
  <2>2. /\ m.type = "REQUEST_PAGE_WRITE" /\ Asking(w) /\ Waiting(w) /\ ~Granting(w)
        /\ handler[w] = "none" /\ reqq[w] = << >>
        /\ Arrived(Coord, w, {"REQUEST_PAGE_WRITE"})
    BY <1>9, <2>1
  <2>3. mem[Coord].mapped
    BY <1>1, <2>1
  <2>4. /\ engine'[Coord].pc = "serve" /\ engine'[Coord].type = "REQUEST_PAGE_WRITE"
        /\ engine'[w] = engine[w]
    BY <1>1, <2>1, <2>2, <2>3
  <2> HIDE DEF R, m
  <2>5. \A type : /\ Sent(chan', w, Coord, type) <=>
                       Sent(chan, w, Coord, type) /\ type # "REQUEST_PAGE_WRITE"
                  /\ Sent(chan', Coord, w, type) <=> Sent(chan, Coord, w, type)
    BY <2>1, <2>2, CoordTakes DEF R
  <2>6. InOrder(w)'
    BY <1>1, <2>1, <2>2, <2>5, CoordTakes DEF PairOK, InOrder, R
  <2>7. \A k \in Nodes : Waiting(k)' <=> Waiting(k)
    BY <2>1 DEF Waiting
  <2>8. StoresOnly'
    BY <1>1, <1>2, <2>1, <2>4 DEF PairOK, StoresOnly, Serving
  <2>9. WorkerTurn(w)' /\ CoordTurn'
    BY <1>1, <1>2, <2>1, <2>2, <2>5, <2>7
    DEF PairOK, WorkerTurn, CoordTurn, Asking, Serving, Granting
  <2>10. FetchOK(w)' /\ DropOK(w)' /\ OwnerOK(w)'
    BY <1>1, <2>1, <2>3, <2>4, <2>5 DEF PairOK, FetchOK, DropOK, OwnerOK,
       Fetching, Copying, Answering, Dropping, Dropped, Granting, Serving
  <2> QED
    BY <2>6, <2>8, <2>9, <2>10 DEF PairOK
<1>12. CASE RecvRequestZero(Coord, w)
  <2> DEFINE zeros == Page(Coord, {})
  <2>1. RecvRequest(Coord, w) /\ status[Coord] # "VALID" /\ UNCHANGED engine
    BY <1>12 DEF RecvRequestZero
  <2>2. /\ m.type = "REQUEST_PAGE_WRITE" /\ m.sender = w
        /\ Asking(w) /\ Waiting(w) /\ ~Granting(w) /\ ~Dropped(w) /\ ~mem[w].mapped
        /\ handler[w] = "none" /\ reqq[w] = << >> /\ gpd[Coord].owner # w
        /\ node_fds'[Coord] \subseteq Nodes \ {Coord}
        /\ Arrived(Coord, w, {"REQUEST_PAGE_WRITE"})
    BY <1>9, <2>1
  <2>3. Targets(Coord, w) = {}
    BY <2>2, NoTargets DEF TwoWriters
  <2>4. /\ GrantWrite(Coord, w, w, {}, R, pend[Coord], zeros)
        /\ invalidate_local_page_copy(Coord) \/ UNCHANGED localVars
    BY <1>12, <2>2 DEF RecvRequestZero
  <2>5. /\ chan' = Send(R, Coord, {w}, zeros) /\ pend'[Coord] = pend[Coord]
        /\ gpd'[Coord].owner = w /\ gpd'[Coord].state = "MODIFIED"
    BY <1>1, <2>3, <2>4 DEF GrantWrite, gpd_transition_to_modified
  <2>6. ~mem[Coord].mapped /\ ~mem[Coord].wp
    BY <1>1, <2>1 DEF PairOK, StoresOnly
  <2>7. /\ UNCHANGED thr /\ mem'[w] = mem[w] /\ status'[w] = status[w]
        /\ ~mem'[Coord].mapped /\ ~mem'[Coord].wp
    BY <1>1, <2>4, <2>6 DEF invalidate_local_page_copy, localVars, Unmapped
  <2>8. zeros \in Packet /\ zeros.type = "SEND_PAGE"
    BY <1>1, PacketType DEF Page, Content
  <2> HIDE DEF R, m, zeros
  <2>9. /\ ChanOK(R) /\ Single(R, w, Coord) /\ Single(R, Coord, w)
        /\ Before(R, Coord, w, "SEND_PAGE", "REQUEST_PAGE_READ")
        /\ Before(R, w, Coord, "INVALIDATE_ACK", "REQUEST_PAGE_WRITE")
        /\ \A type : /\ Sent(R, w, Coord, type) <=>
                          Sent(chan, w, Coord, type) /\ type # "REQUEST_PAGE_WRITE"
                     /\ Sent(R, Coord, w, type) <=> Sent(chan, Coord, w, type)
    BY <2>2, CoordTakes DEF R
  <2>10. engine'[Coord].pc # "serve" /\ engine'[w] = engine[w]
    BY <1>2, <2>1 DEF Serving
  <2> QED
    BY <1>2, <2>2, <2>5, <2>7, <2>8, <2>9, <2>10, GrantPair
<1> QED
  BY <1>3, <1>5, <1>6, <1>7, <1>8, <1>10, <1>11, <1>12 DEF PeerSession

\* What the worker's engine does with the coordinator's packets.
LEMMA WorkerPeerPair ==
  ASSUME NEW w \in Workers, TwoWriters, PairInv(w), IInv', PeerSession(w, Coord)
  PROVE  PairOK(w)'
<1> DEFINE R == Received(w, Coord)
           m == Head(chan[Coord][w])
<1>1. /\ IInv /\ LocalOK /\ ChanOK(chan) /\ Nodes = {Coord, w} /\ w # Coord /\ PairOK(w)
      /\ w # NoNode /\ Coord # NoNode /\ engine \in [Nodes -> Engine]
      /\ mem \in [Nodes -> Mapping] /\ status \in [Nodes -> PageStatus]
      /\ thr \in [Threads -> Thread]
      /\ \A k \in Nodes : Waiting(k) => ~mem[k].mapped
      /\ \A k \in Nodes : ~mem[k].mapped => status[k] \in {"EMPTY", "PENDING"}
      /\ coordinator_fd(w) = Coord
  BY PairFacts DEF PairInv
<1>2. UNCHANGED <<handler, reqq>> /\ ~Copying(w)
  BY DEF PeerSession, RecvJoin, RecvAnswerWrite, RecvAnswerRead, RecvPage, RecvInvalidate,
     RecvAck, RecvRequestServe, RecvRequestFetch, RecvRequestZero, RecvRequest, faultVars,
     Idle, Copying
<1>3. /\ ~RecvJoin(w, Coord) /\ ~RecvAck(w, Coord)
      /\ ~RecvAnswerWrite(w, Coord) /\ ~RecvAnswerRead(w, Coord)
  BY <1>1, Sender DEF RecvJoin, RecvAck, RecvAnswerWrite, RecvAnswerRead, Arrived
<1>4. CASE RecvPage(w, Coord)
  <2>1. /\ Arrived(w, Coord, {"SEND_PAGE"}) /\ chan' = R /\ UNCHANGED <<engine, gpd, pend>>
    BY <1>4 DEF RecvPage
  <2>2. Granting(w)
    BY <2>1, WorkerTakes DEF Granting
  <2>3. /\ gpd[Coord].owner = w /\ Waiting(w) /\ ~mem[w].mapped /\ ~mem[Coord].mapped
        /\ handler[w] = "none" /\ reqq[w] = << >> /\ ~Asking(w) /\ ~Serving
        /\ ~Dropping(w) /\ ~Dropped(w)
    BY <1>1, <2>2 DEF PairOK, OwnerOK, WorkerTurn, DropOK
  <2>4. InstallPage(w, m.payload)
    BY <1>1, <1>4, <2>3 DEF RecvPage
  <2>5. /\ mem'[w].mapped /\ ~mem'[w].wp /\ status'[w] = "VALID"
        /\ mem'[Coord] = mem[Coord] /\ status'[Coord] = status[Coord] /\ thr' = Wake(w)
    BY <1>1, <2>4 DEF InstallPage
  <2> HIDE DEF R, m
  <2>6. \A type : /\ Sent(chan', Coord, w, type) <=>
                       Sent(chan, Coord, w, type) /\ type # "SEND_PAGE"
                  /\ Sent(chan', w, Coord, type) <=> Sent(chan, w, Coord, type)
    BY <2>1, WorkerTakes DEF R
  <2>7. InOrder(w)'
    BY <1>1, <2>1, <2>6, WorkerTakes DEF PairOK, InOrder, R
  <2>8. Waiting(Coord)' <=> Waiting(Coord)
    BY <1>1, <2>5 DEF Waiting, Wake
  <2>9. \A t \in Threads : thr'[t].pc # "run" => thr'[t].op = "W"
    BY <1>1, <2>5 DEF Wake, PairOK, StoresOnly, Thread
  <2>10. StoresOnly'
    BY <1>1, <1>2, <2>1, <2>5, <2>9 DEF PairOK, StoresOnly, Serving
  <2>11. WorkerTurn(w)' /\ CoordTurn'
    BY <1>1, <1>2, <2>1, <2>3, <2>6, <2>8
    DEF PairOK, WorkerTurn, CoordTurn, Asking, Serving, Granting
  <2>12. FetchOK(w)' /\ DropOK(w)' /\ OwnerOK(w)'
    <3>1. /\ Fetching(w)' <=> Fetching(w)
          /\ Answering(w)' <=> Answering(w)
          /\ ~Copying(w)' /\ ~Granting(w)' /\ ~Dropping(w)' /\ ~Dropped(w)' /\ ~Serving'
      BY <1>2, <2>1, <2>3, <2>6
      DEF Fetching, Answering, Copying, Granting, Dropping, Dropped, Serving
    <3> QED
      BY <1>1, <2>1, <2>3, <2>5, <3>1 DEF PairOK, FetchOK, DropOK, OwnerOK
  <2> QED
    BY <2>7, <2>10, <2>11, <2>12 DEF PairOK
<1>5. CASE RecvInvalidate(w, Coord)
  <2> DEFINE ack == Pkt("INVALIDATE_ACK", w)
  <2>1. /\ Arrived(w, Coord, {"INVALIDATE"}) /\ chan' = Send(R, w, {Coord}, ack)
        /\ UNCHANGED <<thr, engine, gpd, pend>> /\ invalidate_local_page_copy(w)
    BY <1>1, <1>5 DEF RecvInvalidate, invalidate_local_page_copy
  <2>2. /\ ~mem'[w].mapped /\ ~mem'[w].wp
        /\ mem'[Coord] = mem[Coord] /\ status'[Coord] = status[Coord]
    BY <1>1, <2>1 DEF invalidate_local_page_copy, Unmapped
  <2>3. Dropping(w)
    BY <2>1, WorkerTakes DEF Dropping
  <2>4. /\ pend[Coord].requester = Coord /\ pend[Coord].expected_acks = 1
        /\ gpd[Coord].owner = Coord /\ mem[w].mapped /\ ~Dropped(w)
        /\ ~Fetching(w) /\ ~Answering(w) /\ ~Granting(w)
        /\ ~Asking(w) /\ ~mem[Coord].mapped /\ ~Serving
    BY <1>1, <2>3 DEF PairOK, DropOK, FetchOK, OwnerOK, WorkerTurn, CoordTurn
  <2>5. ack \in Packet /\ ack.type = "INVALIDATE_ACK"
    BY <1>1, PacketType DEF NodeOrNone, Pkt
  <2> HIDE DEF R, m, ack
  <2>6. /\ ChanOK(R) /\ Single(R, w, Coord) /\ Single(R, Coord, w)
        /\ Before(R, Coord, w, "SEND_PAGE", "REQUEST_PAGE_READ")
        /\ Before(R, w, Coord, "INVALIDATE_ACK", "REQUEST_PAGE_WRITE")
        /\ \A type : /\ Sent(R, Coord, w, type) <=>
                          Sent(chan, Coord, w, type) /\ type # "INVALIDATE"
                     /\ Sent(R, w, Coord, type) <=> Sent(chan, w, Coord, type)
    BY <2>1, WorkerTakes DEF R
  <2>7. \A type : /\ Sent(chan', Coord, w, type) <=>
                       Sent(chan, Coord, w, type) /\ type # "INVALIDATE"
                  /\ Sent(chan', w, Coord, type) <=>
                       Sent(chan, w, Coord, type) \/ type = "INVALIDATE_ACK"
    BY <1>1, <2>1, <2>5, <2>6, AfterSend
  <2>8. InOrder(w)'
    <3>1. ~Sent(R, w, Coord, "INVALIDATE_ACK") /\ ~Sent(R, w, Coord, "REQUEST_PAGE_WRITE")
      BY <2>4, <2>6 DEF Dropped, Asking
    <3> QED
      BY <1>1, <2>1, <2>5, <2>6, <2>7, <3>1, AfterSend DEF PairOK, InOrder
  <2>9. \A k \in Nodes : Waiting(k)' <=> Waiting(k)
    BY <2>1 DEF Waiting
  <2>10. StoresOnly'
    BY <1>1, <1>2, <2>1, <2>2 DEF PairOK, StoresOnly, Serving
  <2>11. WorkerTurn(w)' /\ CoordTurn'
    BY <1>1, <1>2, <2>1, <2>7, <2>9
    DEF PairOK, WorkerTurn, CoordTurn, Asking, Serving, Granting
  <2>12. FetchOK(w)' /\ DropOK(w)' /\ OwnerOK(w)'
    <3>1. /\ ~Fetching(w)' /\ ~Copying(w)' /\ ~Answering(w)'
          /\ ~Granting(w)' /\ ~Dropping(w)' /\ ~Serving'
      BY <1>2, <2>1, <2>4, <2>7
      DEF Fetching, Copying, Answering, Granting, Dropping, Serving
    <3> QED
      BY <1>1, <2>1, <2>2, <2>4, <3>1 DEF FetchOK, DropOK, OwnerOK
  <2> QED
    BY <2>8, <2>10, <2>11, <2>12 DEF PairOK
<1>6. ASSUME RecvRequest(w, Coord)
      PROVE  /\ Arrived(w, Coord, {"REQUEST_PAGE_READ"}) /\ Fetching(w)
             /\ mem[w].mapped /\ status[w] = "VALID"
  <2>1. Arrived(w, Coord, {"REQUEST_PAGE_READ"})
    BY <1>1, <1>6, Registers DEF RecvRequest, Arrived
  <2>2. Fetching(w) /\ ~Granting(w)
    BY <2>1, WorkerTakes DEF Fetching
  <2>3. mem[w].mapped
    BY <1>1, <2>2 DEF PairOK, FetchOK, OwnerOK
  <2> QED
    BY <1>1, <2>1, <2>2, <2>3 DEF PairOK, StoresOnly
<1>7. ~RecvRequestZero(w, Coord) /\ ~RecvRequestFetch(w, Coord)
  BY <1>6 DEF RecvRequestZero, RecvRequestFetch
<1>8. CASE RecvRequestServe(w, Coord)
  <2>1. /\ RecvRequest(w, Coord) /\ chan' = R /\ UNCHANGED <<thr, mem, status, gpd, pend>>
        /\ engine' = [engine EXCEPT ![w] =
                        [pc |-> IF mem[w].mapped THEN "serve" ELSE "faulted",
                         fd |-> Coord, type |-> m.type, payload |-> mem[w].val]]
    BY <1>8 DEF RecvRequestServe, localVars
  <2>2. Arrived(w, Coord, {"REQUEST_PAGE_READ"}) /\ Fetching(w) /\ mem[w].mapped
    BY <1>6, <2>1
  <2>3. engine'[w].pc = "serve" /\ engine'[Coord] = engine[Coord]
    BY <1>1, <2>1, <2>2
  <2> HIDE DEF R, m
  <2>4. \A type : /\ Sent(chan', Coord, w, type) <=>
                       Sent(chan, Coord, w, type) /\ type # "REQUEST_PAGE_READ"
                  /\ Sent(chan', w, Coord, type) <=> Sent(chan, w, Coord, type)
    BY <2>1, <2>2, WorkerTakes DEF R
  <2>5. InOrder(w)'
    BY <1>1, <2>1, <2>2, <2>4, WorkerTakes DEF PairOK, InOrder, R
  <2>6. \A k \in Nodes : Waiting(k)' <=> Waiting(k)
    BY <2>1 DEF Waiting
  <2>7. StoresOnly'
    BY <1>1, <1>2, <2>1, <2>3 DEF PairOK, StoresOnly, Serving
  <2>8. WorkerTurn(w)' /\ CoordTurn'
    BY <1>1, <1>2, <2>1, <2>3, <2>4, <2>6
    DEF PairOK, WorkerTurn, CoordTurn, Asking, Serving, Granting
  <2>9. FetchOK(w)' /\ DropOK(w)' /\ OwnerOK(w)'
    <3>1. /\ ~Fetching(w)' /\ Copying(w)'
          /\ Answering(w)' <=> Answering(w)
          /\ Granting(w)' <=> Granting(w)
          /\ Dropping(w)' <=> Dropping(w)
          /\ Dropped(w)' <=> Dropped(w)
          /\ Serving' <=> Serving
      BY <2>3, <2>4 DEF Fetching, Copying, Answering, Granting, Dropping, Dropped, Serving
    <3> QED
      BY <1>1, <2>1, <2>2, <3>1 DEF PairOK, FetchOK, DropOK, OwnerOK
  <2> QED
    BY <2>5, <2>7, <2>8, <2>9 DEF PairOK
<1> QED
  BY <1>3, <1>4, <1>5, <1>7, <1>8 DEF PeerSession

\* The page that was copied is sent.
LEMMA ServePair ==
  ASSUME NEW w \in Workers, TwoWriters, PairInv(w), IInv', NEW n \in Nodes, Serve(n)
  PROVE  PairOK(w)'
<1>1. /\ IInv /\ LocalOK /\ ChanOK(chan) /\ Nodes = {Coord, w} /\ w # Coord /\ PairOK(w)
      /\ w # NoNode /\ Coord # NoNode /\ engine \in [Nodes -> Engine]
      /\ mem \in [Nodes -> Mapping] /\ status \in [Nodes -> PageStatus]
      /\ pend \in [Nodes -> Pending] /\ gpd \in [Nodes -> Entry]
      /\ \A k \in Nodes : Waiting(k) => ~mem[k].mapped
  BY PairFacts DEF PairInv
<1>2. /\ engine[n].pc = "serve" /\ UNCHANGED <<handler, reqq, node_fds>>
      /\ engine' = [engine EXCEPT ![n] = Looping]
  BY DEF Serve, ServeWrite, ServeRead, faultVars
<1>3. /\ Page(n, engine[n].payload) \in Packet
      /\ Page(n, engine[n].payload).type = "SEND_PAGE"
  BY <1>1, PacketType DEF Page, Engine
<1>4. CASE n = Coord
  <2> DEFINE page == Page(Coord, engine[Coord].payload)
  <2>1. Serving /\ engine[Coord].type = "REQUEST_PAGE_WRITE" /\ engine[Coord].fd = w
    BY <1>1, <1>2, <1>4 DEF Serving, PairOK, StoresOnly, IInv, EngineOK, DirOK
  <2>2. /\ Waiting(w) /\ handler[w] = "none" /\ reqq[w] = << >> /\ ~Asking(w) /\ ~Granting(w)
        /\ mem[Coord].mapped /\ gpd[Coord].owner = Coord
    BY <1>1, <2>1 DEF PairOK, WorkerTurn, OwnerOK
  <2>3. ~Dropped(w)
    BY <1>1, <2>2 DEF PairOK, DropOK, CoordTurn
  <2>4. ServeWrite(Coord)
    BY <1>4, <2>1 DEF Serve, ServeRead
  <2>5. Targets(Coord, w) = {}
    <3>1. node_fds'[Coord] \subseteq Nodes \ {Coord}
      BY <1>1, <1>2 DEF IInv, DirOK
    <3> QED
      BY <3>1, NoTargets DEF TwoWriters
  <2>6. /\ GrantWrite(Coord, w, w, engine[Coord].payload, chan, pend[Coord], page)
        /\ invalidate_local_page_copy(Coord)
    BY <2>1, <2>4 DEF ServeWrite
  <2>7. /\ chan' = Send(chan, Coord, {w}, page) /\ pend'[Coord] = pend[Coord]
        /\ gpd'[Coord].owner = w /\ gpd'[Coord].state = "MODIFIED"
    BY <1>1, <2>5, <2>6 DEF GrantWrite, gpd_transition_to_modified
  <2>8. /\ UNCHANGED thr /\ mem'[w] = mem[w] /\ status'[w] = status[w]
        /\ ~mem'[Coord].mapped /\ ~mem'[Coord].wp
    BY <1>1, <2>6 DEF invalidate_local_page_copy, Unmapped
  <2>9. engine'[Coord].pc # "serve" /\ engine'[w] = engine[w]
    BY <1>1, <1>2, <1>4 DEF Looping
  <2>10. page \in Packet /\ page.type = "SEND_PAGE"
    BY <1>3, <1>4
  <2> HIDE DEF page
  <2>11. /\ Single(chan, w, Coord) /\ Single(chan, Coord, w)
         /\ Before(chan, Coord, w, "SEND_PAGE", "REQUEST_PAGE_READ")
         /\ Before(chan, w, Coord, "INVALIDATE_ACK", "REQUEST_PAGE_WRITE")
         /\ ~Sent(chan, w, Coord, "REQUEST_PAGE_WRITE")
    BY <1>1, <2>2 DEF PairOK, InOrder, Asking
  <2> QED
    BY <1>1, <1>2, <2>2, <2>3, <2>7, <2>8, <2>9, <2>10, <2>11, GrantPair
<1>5. CASE n = w
  <2> DEFINE page == Page(w, engine[w].payload)
  <2>1. Copying(w) /\ engine[w].type = "REQUEST_PAGE_READ" /\ engine[w].fd = Coord
    BY <1>1, <1>2, <1>5 DEF Copying, IInv, EngineOK
  <2>2. gpd[w].owner = NoNode
    BY <1>1 DEF IInv, DirOK, WorkerDirectoryPassive, Workers
  <2>3. /\ chan' = Send(chan, w, {Coord}, page) /\ UNCHANGED <<thr, mem, status, pend>>
        /\ gpd'[Coord] = gpd[Coord]
    BY <1>1, <1>5, <2>1, <2>2 DEF Serve, ServeWrite, ServeRead, localVars
  <2>4. engine'[w].pc # "serve" /\ engine'[Coord] = engine[Coord]
    BY <1>1, <1>2, <1>5 DEF Looping
  <2>5. page \in Packet /\ page.type = "SEND_PAGE"
    BY <1>3, <1>5
  <2> HIDE DEF page
  <2>6. \A type : /\ Sent(chan', w, Coord, type) <=>
                       Sent(chan, w, Coord, type) \/ type = "SEND_PAGE"
                  /\ Sent(chan', Coord, w, type) <=> Sent(chan, Coord, w, type)
    BY <1>1, <2>3, <2>5, AfterSend
  <2>7. ~Answering(w) /\ ~Fetching(w) /\ mem[w].mapped
    BY <1>1, <2>1 DEF PairOK, FetchOK
  <2>8. InOrder(w)'
    <3>1. ~Sent(chan, w, Coord, "SEND_PAGE")
      BY <2>7 DEF Answering
    <3> QED
      BY <1>1, <2>3, <2>5, <2>6, <3>1, AfterSend DEF PairOK, InOrder
  <2>9. \A k \in Nodes : Waiting(k)' <=> Waiting(k)
    BY <2>3 DEF Waiting
  <2>10. StoresOnly'
    BY <1>1, <1>2, <2>3, <2>4 DEF PairOK, StoresOnly, Serving
  <2>11. WorkerTurn(w)' /\ CoordTurn'
    BY <1>1, <1>2, <2>3, <2>4, <2>6, <2>9
    DEF PairOK, WorkerTurn, CoordTurn, Asking, Serving, Granting
  <2>12. FetchOK(w)' /\ DropOK(w)' /\ OwnerOK(w)'
    <3>1. /\ ~Fetching(w)' /\ ~Copying(w)' /\ Answering(w)'
          /\ Granting(w)' <=> Granting(w)
          /\ Dropping(w)' <=> Dropping(w)
          /\ Dropped(w)' <=> Dropped(w)
          /\ Serving' <=> Serving
      BY <2>4, <2>6, <2>7
      DEF Fetching, Copying, Answering, Granting, Dropping, Dropped, Serving
    <3> QED
      BY <1>1, <2>1, <2>3, <2>7, <3>1 DEF PairOK, FetchOK, DropOK, OwnerOK
  <2> QED
    BY <2>8, <2>10, <2>11, <2>12 DEF PairOK
<1> QED
  BY <1>1, <1>4, <1>5

\* Every step keeps the invariant.
LEMMA PairStep ==
  ASSUME NEW w \in Workers, TwoWriters, PairInv(w), [Next]_vars
  PROVE  PairInv(w)'
<1>1. FaultsInv' /\ IInv'
  <2>1. FaultsInv'
    BY FaultsStep DEF PairInv, TwoWriters
  <2> QED
    BY <2>1 DEF FaultsInv, MappedInv
<1>2. IInv /\ Nodes = {Coord, w} /\ w # Coord
  BY PairFacts
<1>3. ASSUME NEW n \in Nodes PROVE ~EvictVisit(n)
  BY DEF EvictVisit, EvictInspect, EvictPage, PairInv, FaultsInv, MappedInv
<1>4. ASSUME NEW n \in Nodes, NEW p \in Nodes, PeerSession(n, p) PROVE PairOK(w)'
  <2>1. \E types : Arrived(n, p, types)
    BY <1>4 DEF PeerSession, RecvJoin, RecvAnswerWrite, RecvAnswerRead, RecvPage,
       RecvInvalidate, RecvAck, RecvRequestServe, RecvRequestFetch, RecvRequestZero,
       RecvRequest
  <2>2. n = Coord <=> p # Coord
    BY <1>2, <2>1, Sender
  <2>3. (n = Coord /\ p = w) \/ (n = w /\ p = Coord)
    BY <1>2, <2>2
  <2> QED
    BY <1>1, <1>4, <2>3, CoordPeerPair, WorkerPeerPair
<1>5. ASSUME UNCHANGED vars PROVE PairOK(w)'
  <2>1. UNCHANGED <<thr, mem, handler, status, reqq, engine, gpd, pend, chan>>
    BY <1>5 DEF vars
  <2>2. /\ \A k \in Nodes : Waiting(k)' <=> Waiting(k)
        /\ Serving' <=> Serving
        /\ Copying(w)' <=> Copying(w)
    BY <2>1 DEF Waiting, Serving, Copying
  <2>3. \A a, b, type : Sent(chan', a, b, type) <=> Sent(chan, a, b, type)
    BY <2>1
  <2>4. PairOK(w)
    BY DEF PairInv
  <2>5. StoresOnly' /\ InOrder(w)'
    BY <2>1, <2>2, <2>3, <2>4 DEF PairOK, StoresOnly, InOrder
  <2>6. /\ Asking(w)' <=> Asking(w)
        /\ Granting(w)' <=> Granting(w)
        /\ Fetching(w)' <=> Fetching(w)
        /\ Answering(w)' <=> Answering(w)
        /\ Dropping(w)' <=> Dropping(w)
        /\ Dropped(w)' <=> Dropped(w)
    BY <2>3 DEF Asking, Granting, Fetching, Answering, Dropping, Dropped
  <2>7. WorkerTurn(w)' /\ CoordTurn'
    BY <1>2, <2>1, <2>2, <2>4, <2>6 DEF PairOK, WorkerTurn, CoordTurn
  <2>8. FetchOK(w)' /\ DropOK(w)' /\ OwnerOK(w)'
    BY <2>1, <2>2, <2>4, <2>6 DEF PairOK, FetchOK, DropOK, OwnerOK
  <2> QED
    BY <2>5, <2>7, <2>8 DEF PairOK
<1>6. PairOK(w)'
  BY <1>1, <1>3, <1>4, <1>5, AppPair, HandlerPair, QueuePair, ServePair DEF Next
<1> QED
  BY <1>1, <1>6 DEF PairInv

\* The initial states satisfy it: all that can be on its way is the worker's
\* NODE_JOIN.
LEMMA InitPair ==
  ASSUME NEW w \in Workers, TwoWriters, Evictable = {}, Init
  PROVE  PairInv(w)
<1>1. FaultsInv
  BY InitFaults
<1>2. w \in Nodes /\ w # Coord /\ Coord \in Nodes /\ w # NoNode /\ Coord # NoNode
  BY CoordAssumption, NoNodeAssumption DEF Workers
<1>3. chan[Coord][w] = << >>
  BY <1>2 DEF Init, Workers
<1>4. /\ chan[w][Coord] \in Seq(Packet)
      /\ \A i \in DOMAIN chan[w][Coord] : i = 1 /\ chan[w][Coord][i].type = "NODE_JOIN"
  <2>1. PICK joins \in SUBSET Workers :
          chan = [a \in Nodes |-> [b \in Nodes |->
                    IF a \in joins /\ b = Coord
                    THEN <<Pkt("NODE_JOIN", a)>> ELSE << >>]]
    BY DEF Init
  <2>2. chan[w][Coord] = IF w \in joins THEN <<Pkt("NODE_JOIN", w)>> ELSE << >>
    BY <1>2, <2>1
  <2>3. chan[w][Coord] \in Seq(Packet)
    BY <1>1, <1>2 DEF FaultsInv, MappedInv, IInv, ChanOK
  <2>4. Pkt("NODE_JOIN", w).type = "NODE_JOIN"
    BY DEF Pkt
  <2> QED
    BY <2>2, <2>3, <2>4
<1>5. /\ \A type : ~Sent(chan, Coord, w, type)
      /\ \A type : Sent(chan, w, Coord, type) => type = "NODE_JOIN"
  BY <1>3, <1>4 DEF Sent
<1>6. InOrder(w)
  BY <1>3, <1>4, <1>5 DEF InOrder, Single, Before
<1>7. StoresOnly
  BY <1>2 DEF Init, StoresOnly, Unmapped, Running, Serving, Looping, gpd_init
<1>8. /\ ~Asking(w) /\ ~Serving /\ ~Granting(w) /\ ~Fetching(w) /\ ~Copying(w)
      /\ ~Answering(w) /\ ~Dropping(w) /\ ~Dropped(w)
  BY <1>2, <1>5 DEF Init, Asking, Serving, Granting, Fetching, Copying, Answering,
     Dropping, Dropped, Looping
<1>9. WorkerTurn(w) /\ CoordTurn
  BY <1>2, <1>8 DEF Init, WorkerTurn, CoordTurn, NoPending
<1>10. FetchOK(w) /\ DropOK(w) /\ OwnerOK(w)
  BY <1>2, <1>8 DEF Init, FetchOK, DropOK, OwnerOK, Unmapped, gpd_init
<1> QED
  BY <1>1, <1>6, <1>7, <1>9, <1>10 DEF PairInv, PairOK

\* Two nodes that write the page in turn: at most one of them has it mapped,
\* in whatever order faults, requests, grants, invalidations and acks are
\* handled. Grants of ownership wait for the ack of handle_peer_session's
\* MSG_INVALIDATE_PAGE, and neither side asks again before it was answered.
THEOREM OnlyOneCopy ==
  Evictable = {} /\ TwoWriters => (Spec => []OneCopy)
<1> SUFFICES ASSUME Evictable = {}, TwoWriters PROVE Spec => []OneCopy
  OBVIOUS
<1>1. CASE Workers = {}
  <2>1. IInv => OneCopy
    BY <1>1, CoordAssumption DEF OneCopy, Workers
  <2> QED
    BY <2>1, Invariance, PTL
<1>2. ASSUME NEW w \in Workers PROVE Spec => []OneCopy
  <2>1. Init => PairInv(w)
    BY InitPair
  <2>2. PairInv(w) /\ [Next]_vars => PairInv(w)'
    BY PairStep
  <2>3. PairInv(w) => OneCopy
    <3> SUFFICES ASSUME PairInv(w), mem[w].mapped, mem[Coord].mapped PROVE FALSE
      BY PairFacts DEF OneCopy
    <3>1. /\ gpd[Coord].owner = Coord /\ Dropping(w) /\ ~Waiting(Coord)
      BY PairFacts DEF PairInv, PairOK, OwnerOK
    <3>2. pend[Coord].requester = Coord
      BY <3>1 DEF PairInv, PairOK, DropOK
    <3> QED
      BY <3>1, <3>2 DEF PairInv, PairOK, CoordTurn
  <2> QED
    BY <2>1, <2>2, <2>3, PTL DEF Spec
<1> QED
  BY <1>1, <1>2

=============================================================================
