---------------------------- MODULE FaultProofs ----------------------------
(***************************************************************************)
(* What the fault path of TeleportDSM keeps, for every set of threads,     *)
(* every workload and every capacity of the request queue: a node that     *)
(* runs alone never loses a store, and a coordinator with at most one      *)
(* worker never forgets a fault.                                           *)
(***************************************************************************)
EXTENDS TeleportDSMProofs, SequenceTheorems

Suspended(t) == thr[t].pc \in {"pending", "waiting"}

----------------------------------------------------------------------------
(* A node that runs alone.  The danger is in the queue: a fault that finds *)
(* it full resets the status to EMPTY, also of a page that is mapped, and   *)
(* the next request popped would then zero the page.  That an event held   *)
(* by the handler when the page is installed finds room in the queue, and  *)
(* that no other event comes after it, is what AloneInv adds.               *)

AloneOK ==
  /\ engine[Coord].pc \in {"loop", "drain"}
  /\ mem[Coord].mapped =>
       /\ ~mem[Coord].wp
       /\ mem[Coord].val = 1..stores
       /\ Present(Coord)
       /\ \A t \in Threads : ~Suspended(t)
       /\ handler[Coord] # "none" =>
            status[Coord] = "VALID" /\ Len(reqq[Coord]) < QUEUE_CAPACITY
  /\ ~mem[Coord].mapped => stores = 0 /\ ~Present(Coord)

AloneInv == IInv /\ AloneOK

\* Nobody to talk to: no connection, no packet, nobody to invalidate.
LEMMA Nobody ==
  ASSUME IInv, Nodes = {Coord}
  PROVE  /\ node_fds[Coord] = {}
         /\ \A n, p \in Nodes : chan[p][n] = << >>
         /\ \A t \in Threads : NodeOf[t] = Coord
<1>1. node_fds[Coord] = {}
  BY CoordAssumption DEF IInv, DirOK
<1>2. ASSUME NEW n \in Nodes, NEW p \in Nodes PROVE chan[p][n] = << >>
  <2>1. n = Coord /\ p = Coord /\ chan[p][n] \in Seq(Packet)
    BY DEF IInv, ChanOK
  <2>2. SUFFICES ASSUME chan[p][n] # << >> PROVE FALSE
    OBVIOUS
  <2>3. Permitted(p, n, Head(chan[p][n]))
    BY <2>2, Receives DEF IInv
  <2> QED
    BY <2>1, <2>3 DEF Permitted
<1>3. \A t \in Threads : NodeOf[t] = Coord
  BY ThreadAssumption
<1> QED
  BY <1>1, <1>2, <1>3

\* The first fault on, the page stays where it is.
LEMMA AloneStep ==
  ASSUME Nodes = {Coord}, AloneInv, [Next]_vars
  PROVE  AloneInv'
<1>1. IInv /\ IInv' /\ AloneOK
  BY NextIInv DEF AloneInv
<1>2. /\ thr \in [Threads -> Thread] /\ mem \in [Nodes -> Mapping]
      /\ status \in [Nodes -> PageStatus] /\ handler \in [Nodes -> {"none", "R", "W"}]
      /\ reqq \in [Nodes -> Seq(BOOLEAN)] /\ stores \in Nat
      /\ engine \in [Nodes -> Engine] /\ Coord \in Nodes
      /\ Len(reqq[Coord]) <= QUEUE_CAPACITY /\ Len(reqq[Coord]) \in Nat
      /\ QUEUE_CAPACITY \in Nat \ {0}
  BY <1>1, CoordAssumption, BoundAssumption
  DEF IInv, LocalOK, FaultOK, RestOK, EngineOK
<1>3. /\ node_fds[Coord] = {}
      /\ \A n, p \in Nodes : chan[p][n] = << >>
      /\ \A t \in Threads : NodeOf[t] = Coord
  BY <1>1, Nobody
<1>4. ASSUME NEW t \in Threads, App(t) PROVE AloneOK'
  <2>1. CASE Load(t)
    BY <1>1, <1>2, <2>1
    DEF Load, AloneOK, Present, Suspended, Running, faultVars
  <2>2. CASE Store(t)
    <3>1. /\ mem[Coord].mapped /\ mem'[Coord].mapped /\ stores' = stores + 1
          /\ mem'[Coord].wp = mem[Coord].wp
          /\ mem'[Coord].val = mem[Coord].val \cup {stores + 1}
          /\ thr' = [thr EXCEPT ![t] = Running]
          /\ UNCHANGED <<engine, status, handler, reqq>>
      BY <1>2, <1>3, <2>2 DEF Store, CanAccess, Mapping, faultVars
    <3>2. (1..stores) \cup {stores + 1} = 1..(stores + 1)
      BY <1>2
    <3>3. \A u \in Threads : ~Suspended(u)'
      BY <1>1, <1>2, <3>1 DEF AloneOK, Suspended, Running
    <3> QED
      BY <1>1, <3>1, <3>2, <3>3 DEF AloneOK, Present
  <2>3. ASSUME NEW op \in {"R", "W"}, Fault(t, op) PROVE AloneOK'
    BY <1>1, <1>2, <1>3, <2>3 DEF Fault, CanAccess, AloneOK, Present, faultVars
  <2> QED
    BY <1>4, <2>1, <2>2, <2>3 DEF App
<1>5. ASSUME NEW n \in Nodes, FaultHandler(n) PROVE AloneOK'
  <2>1. n = Coord
    OBVIOUS
  <2>2. ASSUME NEW t \in Threads, ReadFault(n, t) PROVE AloneOK'
    BY <1>1, <2>2 DEF ReadFault, AloneOK, Present, Suspended
  <2>3. CASE HandleFault(n)
    <3>1. /\ UNCHANGED <<thr, mem, stores, engine>> /\ handler'[Coord] = "none"
          /\ mem[Coord].mapped => status'[Coord] \in {"VALID", "WRITE_PENDING"}
          /\ ~mem[Coord].mapped => status'[Coord] \in {"EMPTY", "PENDING"}
      BY <1>1, <1>2, <2>1, <2>3 DEF HandleFault, appVars, AloneOK, Present, PageStatus
    <3> QED
      BY <1>1, <3>1 DEF AloneOK, Present, Suspended
  <2> QED
    BY <1>5, <2>2, <2>3 DEF FaultHandler
<1>6. ASSUME NEW n \in Nodes, QueueSession(n) PROVE AloneOK'
  <2>1. PICK is_write \in BOOLEAN : \/ PopForward(n, is_write)
                                    \/ PopUpgrade(n, is_write)
                                    \/ PopFetch(n, is_write)
                                    \/ PopZeroFill(n, is_write)
    BY <1>6 DEF QueueSession
  <2>2. n = Coord /\ coordinator_fd(n) = NoNode /\ Popping(n, is_write)
    BY <2>1 DEF coordinator_fd, PopForward, PopUpgrade, PopFetch, PopZeroFill
  <2>3. /\ engine'[Coord].pc \in {"loop", "drain"} /\ UNCHANGED <<stores, handler>>
        /\ Len(reqq'[Coord]) < QUEUE_CAPACITY
    <3>1. Len(Tail(reqq[Coord])) = Len(reqq[Coord]) - 1
      BY <1>2, <2>2, TailType DEF Popping
    <3> QED
      BY <1>2, <2>2, <3>1 DEF Popping, Engine
  <2>4. CASE PopUpgrade(n, is_write)
    <3>1. Targets(n, n) = {}
      BY <1>2, <1>3, <2>2, <2>4 DEF Targets, PopUpgrade, Popping
    <3>2. CASE is_write
      <4>1. LiftProtection(Coord)
        BY <2>2, <2>4, <3>1, <3>2 DEF PopUpgrade
      <4>2. /\ Present(Coord) /\ mem'[Coord] = [mem[Coord] EXCEPT !.wp = FALSE]
            /\ status'[Coord] = "VALID" /\ thr' = Wake(Coord)
        BY <1>2, <2>2, <2>4, <4>1 DEF LiftProtection, PopUpgrade
      <4>3. \A t \in Threads : ~Suspended(t)'
        BY <1>2, <1>3, <4>2 DEF Wake, Suspended, Thread
      <4>4. mem'[Coord].mapped = mem[Coord].mapped /\ mem'[Coord].val = mem[Coord].val
            /\ ~mem'[Coord].wp
        BY <1>2, <4>2 DEF Mapping
      <4> QED
        BY <1>1, <2>3, <4>2, <4>3, <4>4 DEF AloneOK, Present
    <3>3. CASE ~is_write
      BY <1>1, <2>3, <2>4, <3>3 DEF PopUpgrade, localVars, AloneOK, Present, Suspended
    <3> QED
      BY <3>2, <3>3
  <2>5. CASE PopFetch(n, is_write)
    BY <1>3, <2>2, <2>5 DEF PopFetch
  <2>6. CASE PopZeroFill(n, is_write)
    <3>1. ~Present(Coord) /\ InstallPage(Coord, {})
      BY <2>2, <2>6 DEF PopZeroFill
    <3>2. /\ mem'[Coord] = [mapped |-> TRUE, wp |-> FALSE, val |-> {}]
          /\ status'[Coord] = "VALID" /\ thr' = Wake(Coord)
      BY <1>2, <3>1 DEF InstallPage
    <3>3. \A t \in Threads : ~Suspended(t)'
      BY <1>2, <1>3, <3>2 DEF Wake, Suspended, Thread
    <3>4. stores = 0 /\ 1..0 = {}
      BY <1>1, <3>1 DEF AloneOK
    <3> QED
      BY <2>3, <3>2, <3>3, <3>4 DEF AloneOK, Present
  <2>7. ~PopForward(n, is_write)
    BY <2>2 DEF PopForward
  <2> QED
    BY <2>1, <2>4, <2>5, <2>6, <2>7
<1>7. ASSUME NEW n \in Nodes, NEW p \in Nodes PROVE ~PeerSession(n, p)
  BY <1>3 DEF PeerSession, RecvJoin, RecvAnswerWrite, RecvAnswerRead, RecvPage,
     RecvInvalidate, RecvAck, RecvRequestServe, RecvRequestFetch, RecvRequestZero,
     RecvRequest, Arrived
<1>8. ASSUME NEW n \in Nodes PROVE ~Serve(n) /\ ~EvictVisit(n)
  <2>1. n = Coord
    OBVIOUS
  <2> QED
    BY <1>1, <2>1 DEF Serve, ServeWrite, ServeRead, EvictVisit, AloneOK, coordinator_fd
<1>9. ASSUME UNCHANGED vars PROVE AloneOK'
  BY <1>1, <1>9 DEF vars, AloneOK, Present, Suspended
<1>10. ASSUME Next PROVE AloneOK'
  <2>1. \/ \E t \in Threads : App(t)
        \/ \E n \in Nodes : FaultHandler(n) \/ QueueSession(n)
    BY <1>7, <1>8, <1>10 DEF Next
  <2> QED
    BY <1>4, <1>5, <1>6, <2>1
<1>11. AloneOK'
  BY <1>9, <1>10
<1> QED
  BY <1>1, <1>11 DEF AloneInv

\* A node that runs alone keeps every store: whatever the threads do and
\* however small the queue, a mapped page shows all the stores executed.  A
\* fault dropped because the queue was full never leads to a second zero-fill.
THEOREM AloneKeepsStores == Nodes = {Coord} => (Spec => []NoStaleCopy)
<1> SUFFICES ASSUME Nodes = {Coord} PROVE Spec => []NoStaleCopy
  OBVIOUS
<1>1. Init => AloneInv
  <2> SUFFICES ASSUME Init PROVE AloneInv
    OBVIOUS
  <2>1. AloneOK
    BY CoordAssumption DEF Init, AloneOK, Looping, Unmapped, Present
  <2> QED
    BY <2>1, InitIInv DEF AloneInv
<1>2. AloneInv => NoStaleCopy
  BY DEF AloneInv, AloneOK, NoStaleCopy
<1> QED
  BY <1>1, <1>2, AloneStep, PTL DEF Spec

----------------------------------------------------------------------------
(* A coordinator with at most one worker.  A second worker is what breaks   *)
(* the property: its request overwrites the pending record of the first.    *)

OneWorker == \A a, b \in Workers : a = b

\* A packet of one of these types is on the way from a to b.
On(ch, a, b, types) == \E i \in DOMAIN ch[a][b] : ch[a][b][i].type \in types

\* A thread is suspended only while its access cannot be made, and only the
\* coordinator's page is ever write-protected.
SuspendedOK ==
  /\ \A t \in Threads : Suspended(t) /\ mem[NodeOf[t]].mapped =>
                          thr[t].op = "W" /\ mem[NodeOf[t]].wp
  /\ \A n \in Workers : ~mem[n].wp

\* What will wake the coordinator's threads.  A read popped while the page is
\* present does nothing: then a write has to be coming.
ServedCoord ==
  \/ pend[Coord].requester = Coord
  \/ Present(Coord) /\ (handler[Coord] = "W" \/ \E i \in DOMAIN reqq[Coord] : reqq[Coord][i])
  \/ ~Present(Coord) /\ (handler[Coord] # "none" \/ reqq[Coord] # << >>)

\* What will wake a worker's threads.
ServedWorker(n) ==
  \/ handler[n] # "none" \/ reqq[n] # << >>
  \/ On(chan, n, Coord, ReqType) \/ On(chan, Coord, n, {"SEND_PAGE"})
  \/ engine[Coord].pc = "serve" /\ engine[Coord].fd = n

Waiting(n) == \E t \in Threads : NodeOf[t] = n /\ thr[t].pc = "waiting"

\* Only the coordinator itself ever waits in its pending record.
Remembered ==
  /\ pend[Coord].requester \in {Coord, NoNode}
  /\ Waiting(Coord) => ServedCoord
  /\ \A n \in Workers : Waiting(n) => ServedWorker(n)

FaultsInv == MappedInv /\ SuspendedOK /\ Remembered

\* What was behind the first element.
LEMMA TailAt ==
  ASSUME NEW S, NEW s \in Seq(S), s # << >>
  PROVE  /\ Head(s) = s[1]
         /\ \A i \in DOMAIN s \ {1} : i - 1 \in DOMAIN Tail(s) /\ Tail(s)[i - 1] = s[i]
OBVIOUS

\* Sending only adds packets.
LEMMA OnSend ==
  ASSUME NEW ch, ChanOK(ch), NEW n \in Nodes, NEW dests, NEW m \in Packet,
         NEW a \in Nodes, NEW b \in Nodes, NEW types
  PROVE  LET new == Send(ch, n, dests, m) IN
         /\ On(ch, a, b, types) => On(new, a, b, types)
         /\ a = n /\ b \in dests /\ m.type \in types => On(new, a, b, types)
<1> DEFINE new == Send(ch, n, dests, m)
<1>1. /\ ch[a][b] \in Seq(Packet)
      /\ new[a][b] = IF a = n /\ b \in dests THEN Append(ch[a][b], m) ELSE ch[a][b]
  BY DEF ChanOK, Send
<1>2. CASE a = n /\ b \in dests
  <2>1. new[a][b] = Append(ch[a][b], m)
    BY <1>1, <1>2
  <2>2. /\ \A i \in DOMAIN ch[a][b] : i \in DOMAIN new[a][b] /\ new[a][b][i] = ch[a][b][i]
        /\ Len(ch[a][b]) + 1 \in DOMAIN new[a][b]
        /\ new[a][b][Len(ch[a][b]) + 1] = m
    BY <1>1, <2>1
  <2> QED
    BY <2>2 DEF On
<1>3. CASE ~(a = n /\ b \in dests)
  BY <1>1, <1>3 DEF On
<1> QED
  BY <1>2, <1>3

\* Taking a packet of another type, or from another connection.
LEMMA OnReceived ==
  ASSUME IInv, NEW n \in Nodes, NEW p \in Nodes, chan[p][n] # << >>,
         NEW a \in Nodes, NEW b \in Nodes, NEW types, On(chan, a, b, types),
         a = p /\ b = n => Head(chan[p][n]).type \notin types
  PROVE  On(Received(n, p), a, b, types)
<1> DEFINE new == Received(n, p)
<1>1. /\ chan[a][b] \in Seq(Packet) /\ chan[p][n] \in Seq(Packet)
      /\ new[a][b] = IF a = p /\ b = n THEN Tail(chan[a][b]) ELSE chan[a][b]
  BY DEF IInv, ChanOK, Received
<1>2. CASE a = p /\ b = n
  <2>1. PICK i \in DOMAIN chan[a][b] : chan[a][b][i].type \in types
    BY DEF On
  <2>2. Head(chan[a][b]) = chan[a][b][1]
    BY <1>1, <1>2
  <2>3. i # 1
    BY <1>2, <2>1, <2>2
  <2>4. new[a][b] = Tail(chan[a][b]) /\ i \in 1..Len(chan[a][b])
    BY <1>1, <1>2
  <2> HIDE DEF new
  <2>5. i - 1 \in DOMAIN new[a][b] /\ new[a][b][i - 1] = chan[a][b][i]
    BY <1>1, <1>2, <2>3, <2>4, TailAt
  <2> QED
    BY <2>1, <2>5 DEF On, new
<1>3. CASE ~(a = p /\ b = n)
  BY <1>1, <1>3 DEF On
<1> QED
  BY <1>2, <1>3

\* The coordinator's threads go on being served while its page is not
\* installed anew and its records are left alone.
LEMMA CoordKept ==
  ASSUME ServedCoord, reqq[Coord] \in Seq(BOOLEAN),
         handler'[Coord] = handler[Coord], reqq'[Coord] = reqq[Coord],
         pend'[Coord].requester = pend[Coord].requester,
         Present(Coord)' => Present(Coord)
  PROVE  ServedCoord'
BY DEF ServedCoord

\* A woken node has no thread that waits, and nobody else's state changes.
LEMMA Woken ==
  ASSUME LocalOK, NEW n \in Nodes, thr' = Wake(n)
  PROVE  /\ ~Waiting(n)'
         /\ \A k \in Nodes : Waiting(k)' => Waiting(k)
         /\ \A t \in Threads : Suspended(t)' => Suspended(t) /\ NodeOf[t] # n /\ thr'[t] = thr[t]
BY DEF Waiting, Wake, Thread, LocalOK, Suspended

\* A worker whose threads wait does not have the page.
LEMMA WorkerWaits ==
  ASSUME FaultsInv, NEW n \in Workers, Waiting(n)
  PROVE  ~mem[n].mapped /\ ~Present(n) /\ status[n] \in {"EMPTY", "PENDING"}
<1>1. ~mem[n].mapped
  BY DEF FaultsInv, SuspendedOK, Waiting, Suspended
<1>2. ~Present(n)
  BY <1>1 DEF FaultsInv, MappedInv, ValidIsMapped, Workers
<1> QED
  BY <1>1, <1>2 DEF Present, FaultsInv, MappedInv, IInv, LocalOK, PageStatus, Workers

\* Whoever is suspended is suspended for a reason, after every step: the page
\* is installed, or its protection lifted, only together with the wake-up.
LEMMA SuspendedStep ==
  ASSUME FaultsInv, [Next]_vars
  PROVE  SuspendedOK'
<1>1. /\ IInv /\ LocalOK /\ thr \in [Threads -> Thread] /\ mem \in [Nodes -> Mapping]
      /\ SuspendedOK /\ NodeOf \in [Threads -> Nodes] /\ Coord \in Nodes
      /\ \A n \in Nodes : ring[n] = "evicted"
  BY ThreadAssumption, CoordAssumption DEF FaultsInv, MappedInv, IInv, LocalOK
<1>2. ASSUME UNCHANGED <<thr, mem>> PROVE SuspendedOK'
  BY <1>1, <1>2 DEF SuspendedOK, Suspended
<1>3. ASSUME NEW n \in Nodes, NEW v, InstallPage(n, v) PROVE SuspendedOK'
  <2>1. /\ thr' = Wake(n)
        /\ mem' = [mem EXCEPT ![n] = [mapped |-> TRUE, wp |-> FALSE, val |-> v]]
    BY <1>3 DEF InstallPage
  <2>2. \A t \in Threads : Suspended(t)' =>
                             Suspended(t) /\ NodeOf[t] # n /\ thr'[t] = thr[t]
    BY <1>1, <2>1, Woken
  <2> QED
    BY <1>1, <2>1, <2>2 DEF SuspendedOK, Workers
<1>4. ASSUME NEW n \in Nodes, LiftProtection(n) PROVE SuspendedOK'
  <2>1. thr' = Wake(n) /\ mem' = [mem EXCEPT ![n].wp = FALSE]
    BY <1>4 DEF LiftProtection
  <2>2. \A t \in Threads : Suspended(t)' =>
                             Suspended(t) /\ NodeOf[t] # n /\ thr'[t] = thr[t]
    BY <1>1, <2>1, Woken
  <2> QED
    BY <1>1, <2>1, <2>2 DEF SuspendedOK, Workers, Mapping
<1>5. ASSUME NEW n \in Nodes, invalidate_local_page_copy(n) PROVE SuspendedOK'
  BY <1>1, <1>5 DEF invalidate_local_page_copy, SuspendedOK, Suspended, Workers, Unmapped
<1>6. ASSUME writeprotect_local_page_copy(Coord) PROVE SuspendedOK'
  BY <1>1, <1>6 DEF writeprotect_local_page_copy, SuspendedOK, Suspended, Workers, Mapping
<1>7. ASSUME NEW t \in Threads, App(t) PROVE SuspendedOK'
  <2>1. CASE Load(t)
    BY <1>1, <2>1 DEF Load, SuspendedOK, Suspended, Running
  <2>2. CASE Store(t)
    BY <1>1, <2>2 DEF Store, SuspendedOK, Suspended, Running, Workers, Mapping
  <2>3. ASSUME NEW op \in {"R", "W"}, Fault(t, op) PROVE SuspendedOK'
    BY <1>1, <2>3 DEF Fault, CanAccess, SuspendedOK, Suspended
  <2> QED
    BY <1>7, <2>1, <2>2, <2>3 DEF App
<1>8. ASSUME NEW n \in Nodes, FaultHandler(n) PROVE SuspendedOK'
  <2>1. CASE HandleFault(n)
    BY <1>2, <2>1 DEF HandleFault, appVars
  <2>2. ASSUME NEW t \in Threads, ReadFault(n, t) PROVE SuspendedOK'
    BY <1>1, <2>2 DEF ReadFault, SuspendedOK, Suspended, Thread
  <2> QED
    BY <1>8, <2>1, <2>2 DEF FaultHandler
<1>9. ASSUME NEW n \in Nodes, QueueSession(n) PROVE SuspendedOK'
  BY <1>2, <1>3, <1>4, <1>9
  DEF QueueSession, PopForward, PopUpgrade, PopFetch, PopZeroFill, localVars
<1>10. ASSUME NEW n \in Nodes, NEW p \in Nodes, PeerSession(n, p) PROVE SuspendedOK'
  <2>1. \/ UNCHANGED <<thr, mem>>
        \/ \E v : InstallPage(n, v)
        \/ LiftProtection(n)
        \/ invalidate_local_page_copy(n)
    BY <1>10 DEF PeerSession, RecvJoin, RecvAnswerWrite, RecvAnswerRead, RecvPage,
       RecvInvalidate, RecvAck, RecvRequestServe, RecvRequestFetch, RecvRequestZero, localVars
  <2> QED
    BY <1>2, <1>3, <1>4, <1>5, <2>1
<1>11. ASSUME NEW n \in Nodes, Serve(n) PROVE SuspendedOK'
  <2>1. gpd[n].owner = n => n = Coord
    BY <1>1, NoNodeAssumption DEF IInv, DirOK, WorkerDirectoryPassive, Workers
  <2>2. \/ UNCHANGED <<thr, mem>>
        \/ invalidate_local_page_copy(n)
        \/ writeprotect_local_page_copy(Coord)
    BY <1>11, <2>1 DEF Serve, ServeWrite, ServeRead, localVars
  <2> QED
    BY <1>2, <1>5, <1>6, <2>2
<1>12. ASSUME UNCHANGED vars PROVE SuspendedOK'
  BY <1>2, <1>12 DEF vars
<1>13. ASSUME NEW n \in Nodes PROVE ~EvictVisit(n)
  BY <1>1 DEF EvictVisit, EvictInspect, EvictPage
<1> QED
  BY <1>7, <1>8, <1>9, <1>10, <1>11, <1>12, <1>13 DEF Next

\* Loads, stores and faults, and the fault handler.
LEMMA HandlerRemembers ==
  ASSUME FaultsInv, NEW n \in Nodes, FaultHandler(n)
  PROVE  Remembered'
<1>1. /\ IInv /\ thr \in [Threads -> Thread] /\ NodeOf \in [Threads -> Nodes]
      /\ status \in [Nodes -> PageStatus] /\ handler \in [Nodes -> {"none", "R", "W"}]
      /\ reqq \in [Nodes -> Seq(BOOLEAN)] /\ Coord \in Nodes /\ Workers \subseteq Nodes
      /\ SuspendedOK /\ Remembered
      /\ Present(n) => mem[n].mapped
  BY ThreadAssumption, CoordAssumption
  DEF FaultsInv, MappedInv, IInv, LocalOK, FaultOK, Workers, ValidIsMapped
<1>2. ASSUME NEW t \in Threads, ReadFault(n, t) PROVE Remembered'
  <2>1. /\ NodeOf[t] = n /\ thr[t].pc = "pending" /\ handler'[n] = thr[t].op
        /\ thr' = [thr EXCEPT ![t].pc = "waiting"] /\ thr[t].op \in {"R", "W"}
        /\ \A k \in Nodes \ {n} : handler'[k] = handler[k]
        /\ UNCHANGED <<status, reqq, pend, chan, engine>>
    BY <1>1, <1>2 DEF ReadFault, dirVars, Thread
  <2>2. \A k \in Nodes \ {n} : Waiting(k)' => Waiting(k)
    BY <1>1, <2>1 DEF Waiting
  <2>3. Present(n) => thr[t].op = "W"
    BY <1>1, <2>1 DEF SuspendedOK, Suspended
  <2>4. Waiting(Coord)' => ServedCoord'
    <3>1. CASE n = Coord
      BY <2>1, <2>3, <3>1 DEF ServedCoord, Present
    <3>2. CASE n # Coord
      BY <1>1, <2>1, <2>2, <3>2, CoordKept DEF Remembered, Present
    <3> QED
      BY <3>1, <3>2
  <2>5. ASSUME NEW k \in Workers, Waiting(k)' PROVE ServedWorker(k)'
    BY <1>1, <2>1, <2>2, <2>5 DEF ServedWorker, Remembered
  <2> QED
    BY <1>1, <2>1, <2>4, <2>5 DEF Remembered
<1>3. CASE HandleFault(n)
  <2> DEFINE is_write == handler[n] = "W"
             full == Len(reqq[n]) = QUEUE_CAPACITY
  <2>1. /\ handler[n] # "none"
        /\ \A k \in Nodes \ {n} : handler'[k] = handler[k] /\ reqq'[k] = reqq[k]
                                  /\ status'[k] = status[k]
        /\ UNCHANGED <<thr, pend, chan, engine>>
    BY <1>1, <1>3 DEF HandleFault, appVars, dirVars
  <2>2. \A k \in Nodes : Waiting(k)' <=> Waiting(k)
    BY <2>1 DEF Waiting
  <2>3. full => reqq[n] # << >>
    BY <1>1, BoundAssumption
  <2>4. Append(reqq[n], is_write) # << >>
        /\ Append(reqq[n], is_write)[Len(reqq[n]) + 1] = is_write
        /\ Len(reqq[n]) + 1 \in DOMAIN Append(reqq[n], is_write)
    <3>1. is_write \in BOOLEAN /\ reqq[n] \in Seq(BOOLEAN)
      BY <1>1
    <3> HIDE DEF is_write
    <3> QED
      BY <3>1
  <2>5. CASE status[n] = "VALID" /\ ~is_write
    <3>1. UNCHANGED <<status, reqq>>
      BY <1>3, <2>5 DEF HandleFault
    <3>2. Waiting(Coord)' => ServedCoord'
      <4>1. CASE n = Coord
        BY <1>1, <2>1, <2>2, <2>5, <3>1, <4>1 DEF Remembered, ServedCoord, Present
      <4>2. CASE n # Coord
        BY <1>1, <2>1, <2>2, <3>1, <4>2, CoordKept DEF Remembered, Present
      <4> QED
        BY <4>1, <4>2
    <3>3. ASSUME NEW k \in Workers, Waiting(k)' PROVE ServedWorker(k)'
      <4>1. Waiting(k) /\ k # n
        BY <1>1, <2>2, <2>5, <3>3, WorkerWaits
      <4> QED
        BY <1>1, <2>1, <3>1, <4>1 DEF Remembered, ServedWorker
    <3> QED
      BY <1>1, <2>1, <3>2, <3>3 DEF Remembered
  <2>6. CASE ~(status[n] = "VALID" /\ ~is_write)
    <3>1. /\ full => reqq'[n] = reqq[n] /\ status'[n] = "EMPTY"
          /\ ~full => /\ reqq'[n] = Append(reqq[n], is_write)
                      /\ status'[n] = IF status[n] = "VALID" THEN "WRITE_PENDING"
                                                            ELSE "PENDING"
      BY <1>1, <1>3, <2>6 DEF HandleFault
    <3>2. reqq'[n] # << >>
      BY <2>3, <2>4, <3>1
    <3>3. Waiting(Coord)' => ServedCoord'
      <4>1. CASE n = Coord
        <5>1. CASE ~full /\ status[n] = "VALID"
          BY <2>4, <2>6, <3>1, <4>1, <5>1 DEF ServedCoord, Present
        <5>2. CASE full \/ status[n] # "VALID"
          BY <3>1, <3>2, <4>1, <5>2 DEF ServedCoord, Present
        <5> QED
          BY <5>1, <5>2
      <4>2. CASE n # Coord
        BY <1>1, <2>1, <2>2, <4>2, CoordKept DEF Remembered, Present
      <4> QED
        BY <4>1, <4>2
    <3>4. ASSUME NEW k \in Workers, Waiting(k)' PROVE ServedWorker(k)'
      BY <1>1, <2>1, <2>2, <3>2, <3>4 DEF Remembered, ServedWorker
    <3> QED
      BY <1>1, <2>1, <3>3, <3>4 DEF Remembered
  <2> QED
    BY <2>5, <2>6
<1> QED
  BY <1>2, <1>3 DEF FaultHandler

\* The types, at hand for the steps of the engine.
LEMMA FaultTypes ==
  ASSUME FaultsInv
  PROVE  /\ IInv /\ LocalOK /\ Remembered /\ ChanOK(chan)
         /\ status \in [Nodes -> PageStatus] /\ engine \in [Nodes -> Engine]
         /\ reqq \in [Nodes -> Seq(BOOLEAN)] /\ pend \in [Nodes -> Pending]
         /\ Coord \in Nodes /\ Workers \subseteq Nodes /\ Coord \notin Workers
         /\ reqq[Coord] \in Seq(BOOLEAN)
BY CoordAssumption
DEF FaultsInv, MappedInv, IInv, LocalOK, FaultOK, EngineOK, DirOK, Workers

\* Nobody is invalidated for the only worker.
LEMMA NoTargets ==
  ASSUME OneWorker, NEW w \in Workers, node_fds'[Coord] \subseteq Nodes \ {Coord}
  PROVE  Targets(Coord, w) = {}
BY DEF OneWorker, Workers, Targets, invalidate_mask

\* A worker's threads go on being served while its requests and the answers
\* to them stay where they are.
LEMMA WorkerKept ==
  ASSUME NEW k \in Workers, ServedWorker(k),
         handler'[k] = handler[k], reqq'[k] = reqq[k],
         engine[Coord].pc = "serve" => engine'[Coord] = engine[Coord],
         On(chan, k, Coord, ReqType) => On(chan', k, Coord, ReqType),
         On(chan, Coord, k, {"SEND_PAGE"}) => On(chan', Coord, k, {"SEND_PAGE"})
  PROVE  ServedWorker(k)'
BY DEF ServedWorker

\* A packet is taken and at most one is sent: the others stay.
LEMMA TakenKept ==
  ASSUME IInv, NEW n \in Nodes, NEW p \in Nodes, NEW taken, Arrived(n, p, taken),
         NEW dests, NEW m \in Packet,
         chan' \in {Received(n, p), Send(Received(n, p), n, dests, m)},
         NEW a \in Nodes, NEW b \in Nodes, NEW types, On(chan, a, b, types),
         a = p /\ b = n => taken \cap types = {}
  PROVE  On(chan', a, b, types)
<1>1. ChanOK(Received(n, p)) /\ chan[p][n] # << >> /\ Head(chan[p][n]).type \in taken
  BY Arrival DEF Arrived
<1>2. On(Received(n, p), a, b, types)
  BY <1>1, OnReceived
<1> QED
  BY <1>1, <1>2, OnSend

\* The requests the engine pops.
LEMMA QueueRemembers ==
  ASSUME FaultsInv, NEW n \in Nodes, QueueSession(n)
  PROVE  Remembered'
<1>1. /\ IInv /\ LocalOK /\ Remembered /\ ChanOK(chan)
      /\ status \in [Nodes -> PageStatus] /\ engine \in [Nodes -> Engine]
      /\ reqq \in [Nodes -> Seq(BOOLEAN)] /\ pend \in [Nodes -> Pending]
      /\ Coord \in Nodes /\ Workers \subseteq Nodes /\ Coord \notin Workers
      /\ reqq[Coord] \in Seq(BOOLEAN)
  BY FaultTypes
<1>2. PICK is_write \in BOOLEAN : \/ PopForward(n, is_write)
                                  \/ PopUpgrade(n, is_write)
                                  \/ PopFetch(n, is_write)
                                  \/ PopZeroFill(n, is_write)
  BY DEF QueueSession
<1>3. Popping(n, is_write)
  BY <1>2 DEF PopForward, PopUpgrade, PopFetch, PopZeroFill
<1>4. /\ UNCHANGED handler /\ \A k \in Nodes \ {n} : reqq'[k] = reqq[k]
      /\ engine[Coord].pc = "serve" => engine'[Coord] = engine[Coord]
  BY <1>1, <1>3 DEF Popping
<1>5. ASSUME NEW k \in Workers \ {n}, Waiting(k), NEW dests, NEW m \in Packet,
             chan' \in {chan, Send(chan, n, dests, m)}
      PROVE  ServedWorker(k)'
  <2>1. ServedWorker(k) /\ k \in Nodes
    BY <1>1, <1>5 DEF Remembered
  <2>2. /\ On(chan, k, Coord, ReqType) => On(chan', k, Coord, ReqType)
        /\ On(chan, Coord, k, {"SEND_PAGE"}) => On(chan', Coord, k, {"SEND_PAGE"})
    BY <1>1, <1>5, <2>1, OnSend
  <2> QED
    BY <1>4, <2>1, <2>2, WorkerKept
<1>6. ASSUME n = Coord, pend'[Coord].requester \in {Coord, NoNode},
             Waiting(Coord)' => ServedCoord', thr' \in {thr, Wake(Coord)},
             NEW dests, NEW m \in Packet, chan' \in {chan, Send(chan, n, dests, m)}
      PROVE  Remembered'
  <2>1. \A k \in Nodes : Waiting(k)' => Waiting(k)
    BY <1>1, <1>6, Woken DEF Waiting
  <2>2. ASSUME NEW k \in Workers, Waiting(k)' PROVE ServedWorker(k)'
    BY <1>1, <1>5, <1>6, <2>1, <2>2
  <2> QED
    BY <1>6, <2>2 DEF Remembered
<1>7. CASE PopForward(n, is_write)
  <2> DEFINE m == Pkt(ReqOf(is_write), n)
  <2>1. n \in Workers /\ chan' = Send(chan, n, {Coord}, m) /\ UNCHANGED <<thr, status, pend>>
    BY <1>7, CoordAssumption DEF PopForward, coordinator_fd, Workers, localVars
  <2>2. m \in Packet /\ m.type \in ReqType
    BY PacketType DEF NodeOrNone, Pkt
  <2> HIDE DEF m
  <2>3. ServedWorker(n)'
    BY <1>1, <2>1, <2>2, OnSend DEF ServedWorker
  <2>4. \A k \in Nodes : Waiting(k)' <=> Waiting(k)
    BY <2>1 DEF Waiting
  <2>5. Waiting(Coord)' => ServedCoord'
    BY <1>1, <1>4, <2>1, <2>4, CoordKept DEF Remembered, Present
  <2>6. ASSUME NEW k \in Workers, Waiting(k)' PROVE ServedWorker(k)'
    BY <1>1, <1>5, <2>1, <2>2, <2>3, <2>4, <2>6
  <2> QED
    BY <1>1, <2>1, <2>5, <2>6 DEF Remembered
<1>8. CASE PopUpgrade(n, is_write)
  <2> DEFINE targets == Targets(n, n)
             m == Pkt("INVALIDATE", NoNode)
  <2>1. n = Coord /\ Present(n)
    BY <1>8, CoordAssumption, NoNodeAssumption DEF PopUpgrade, coordinator_fd
  <2>2. m \in Packet /\ chan' \in {chan, Send(chan, n, targets, m)}
    BY <1>8, PacketType DEF NodeOrNone, PopUpgrade
  <2>3. CASE is_write /\ targets = {}
    <3>1. thr' = Wake(Coord) /\ UNCHANGED pend
      BY <1>8, <2>1, <2>3 DEF PopUpgrade, LiftProtection
    <3>2. ~Waiting(Coord)'
      BY <1>1, <3>1, Woken
    <3> HIDE DEF m, targets
    <3> QED
      BY <1>1, <1>6, <2>1, <2>2, <3>1, <3>2 DEF Remembered
  <2>4. CASE is_write /\ targets # {}
    <3>0. /\ UNCHANGED thr
          /\ pend' = [pend EXCEPT ![n] =
               [@ EXCEPT !.requester = n, !.type = "REQUEST_PAGE_WRITE",
                         !.client_fd = NoNode, !.expected_acks = Cardinality(targets)]]
      BY <1>8, <2>4 DEF PopUpgrade, localVars
    <3>1. pend'[Coord].requester = Coord /\ UNCHANGED thr
      BY <1>1, <2>1, <3>0 DEF Pending
    <3> HIDE DEF m, targets
    <3> QED
      BY <1>6, <2>1, <2>2, <3>1 DEF ServedCoord
  <2>5. CASE ~is_write
    <3>1. UNCHANGED <<thr, status, pend>> /\ reqq[Coord] # << >> /\ ~Head(reqq[Coord])
          /\ reqq'[Coord] = Tail(reqq[Coord])
      BY <1>1, <1>3, <1>8, <2>1, <2>5 DEF PopUpgrade, localVars, Popping
    <3>2. ASSUME NEW i \in DOMAIN reqq[Coord], reqq[Coord][i]
          PROVE  i - 1 \in DOMAIN reqq'[Coord] /\ reqq'[Coord][i - 1]
      <4>1. Head(reqq[Coord]) = reqq[Coord][1]
        BY <1>1, <3>1, TailAt
      <4>2. i # 1
        BY <3>1, <3>2, <4>1, Zenon
      <4>3. i - 1 \in DOMAIN Tail(reqq[Coord]) /\ Tail(reqq[Coord])[i - 1] = reqq[Coord][i]
        BY <1>1, <3>1, <4>2, TailAt
      <4> QED
        BY <3>1, <3>2, <4>3
    <3>3. Waiting(Coord)' => Waiting(Coord)
      BY <3>1 DEF Waiting
    <3>4. Waiting(Coord)' => ServedCoord'
      BY <1>1, <1>4, <2>1, <3>1, <3>2, <3>3 DEF Remembered, ServedCoord, Present
    <3> HIDE DEF m, targets
    <3> QED
      BY <1>1, <1>6, <2>1, <2>2, <3>1, <3>4 DEF Remembered
  <2> QED
    BY <2>3, <2>4, <2>5
<1>9. CASE PopFetch(n, is_write)
  <2> DEFINE m == Pkt("REQUEST_PAGE_READ", n)
  <2>1. n = Coord /\ UNCHANGED thr /\ chan' = Send(chan, n, {gpd[n].owner}, m)
    BY <1>9, CoordAssumption, NoNodeAssumption DEF PopFetch, coordinator_fd, localVars
  <2>2. m \in Packet
    BY PacketType DEF NodeOrNone, ReqType
  <2>3. pend'[Coord].requester = Coord
    BY <1>1, <1>9, <2>1 DEF PopFetch, Pending
  <2> HIDE DEF m
  <2> QED
    BY <1>6, <2>1, <2>2, <2>3 DEF ServedCoord
<1>10. CASE PopZeroFill(n, is_write)
  <2>1. n = Coord /\ thr' = Wake(Coord) /\ UNCHANGED <<pend, chan>>
    BY <1>10, CoordAssumption, NoNodeAssumption DEF PopZeroFill, coordinator_fd, InstallPage
  <2>2. ~Waiting(Coord)'
    BY <1>1, <2>1, Woken
  <2>3. Pkt("INVALIDATE", NoNode) \in Packet
    BY PacketType DEF NodeOrNone
  <2> QED
    BY <1>1, <1>6, <2>1, <2>2, <2>3 DEF Remembered
<1> QED
  BY <1>2, <1>7, <1>8, <1>9, <1>10

\* The coordinator takes a packet that is no request: its worker is served as
\* before.
LEMMA TakenAtCoord ==
  ASSUME FaultsInv, NEW p \in Nodes, NEW taken, Arrived(Coord, p, taken),
         taken \cap ReqType = {}, UNCHANGED <<handler, reqq, engine>>,
         thr' \in {thr, Wake(Coord)}, NEW dests, NEW m \in Packet,
         chan' \in {Received(Coord, p), Send(Received(Coord, p), Coord, dests, m)},
         pend'[Coord].requester \in {Coord, NoNode}, Waiting(Coord)' => ServedCoord'
  PROVE  Remembered'
<1>1. IInv /\ LocalOK /\ Remembered /\ Coord \in Nodes /\ Workers \subseteq Nodes /\ p # Coord
  BY FaultTypes, Sender
<1>2. \A k \in Nodes : Waiting(k)' => Waiting(k)
  BY <1>1, Woken DEF Waiting
<1>3. ASSUME NEW k \in Workers, Waiting(k)' PROVE ServedWorker(k)'
  <2>1. ServedWorker(k) /\ k \in Nodes
    BY <1>1, <1>2, <1>3 DEF Remembered
  <2>2. /\ On(chan, k, Coord, ReqType) => On(chan', k, Coord, ReqType)
        /\ On(chan, Coord, k, {"SEND_PAGE"}) => On(chan', Coord, k, {"SEND_PAGE"})
    BY <1>1, <2>1, TakenKept
  <2> QED
    BY <2>1, <2>2, WorkerKept
<1> QED
  BY <1>3 DEF Remembered

\* A worker takes a packet that is no page: everyone is served as before.
LEMMA TakenAtWorker ==
  ASSUME FaultsInv, NEW n \in Workers, NEW p \in Nodes, NEW taken, Arrived(n, p, taken),
         "SEND_PAGE" \notin taken, UNCHANGED <<handler, reqq, pend, thr>>,
         engine'[Coord] = engine[Coord], status'[Coord] = status[Coord],
         NEW dests, NEW m \in Packet,
         chan' \in {Received(n, p), Send(Received(n, p), n, dests, m)}
  PROVE  Remembered'
<1>1. /\ IInv /\ Remembered /\ Coord \in Nodes /\ Workers \subseteq Nodes
      /\ n # Coord /\ reqq[Coord] \in Seq(BOOLEAN)
  BY FaultTypes
<1>2. \A k \in Nodes : Waiting(k)' <=> Waiting(k)
  BY DEF Waiting
<1>3. Waiting(Coord)' => ServedCoord'
  BY <1>1, <1>2, CoordKept DEF Remembered, Present
<1>4. ASSUME NEW k \in Workers, Waiting(k)' PROVE ServedWorker(k)'
  <2>1. ServedWorker(k) /\ k \in Nodes
    BY <1>1, <1>2, <1>4 DEF Remembered
  <2>2. /\ On(chan, k, Coord, ReqType) => On(chan', k, Coord, ReqType)
        /\ On(chan, Coord, k, {"SEND_PAGE"}) => On(chan', Coord, k, {"SEND_PAGE"})
    BY <1>1, <2>1, TakenKept
  <2> QED
    BY <2>1, <2>2, WorkerKept
<1> QED
  BY <1>1, <1>3, <1>4 DEF Remembered

\* Answers, joins, invalidations and acks.
LEMMA AnswersRemember ==
  ASSUME FaultsInv, NEW n \in Nodes, NEW p \in Nodes,
         \/ RecvJoin(n, p) \/ RecvAnswerWrite(n, p) \/ RecvAnswerRead(n, p)
         \/ RecvPage(n, p) \/ RecvInvalidate(n, p) \/ RecvAck(n, p)
  PROVE  Remembered'
<1> DEFINE m == Head(chan[p][n])
<1>1. /\ IInv /\ LocalOK /\ Remembered /\ ChanOK(chan)
      /\ status \in [Nodes -> PageStatus] /\ engine \in [Nodes -> Engine]
      /\ reqq \in [Nodes -> Seq(BOOLEAN)] /\ pend \in [Nodes -> Pending]
      /\ Coord \in Nodes /\ Workers \subseteq Nodes /\ Coord \notin Workers
      /\ reqq[Coord] \in Seq(BOOLEAN)
  BY FaultTypes
<1>2. UNCHANGED <<handler, reqq, engine>>
  BY DEF RecvJoin, RecvAnswerWrite, RecvAnswerRead, RecvPage, RecvInvalidate, RecvAck, faultVars
<1>3. \A types : Arrived(n, p, types) => m \in Packet
  BY <1>1, Arrival
<1>4. ASSUME thr' = thr, pend'[Coord].requester = pend[Coord].requester,
             status'[Coord] = status[Coord]
      PROVE  Waiting(Coord)' => ServedCoord'
  BY <1>1, <1>2, <1>4, CoordKept DEF Remembered, Present, Waiting
<1>5. CASE RecvJoin(n, p)
  <2>1. /\ Arrived(n, p, {"NODE_JOIN"}) /\ chan' = Received(n, p)
        /\ UNCHANGED <<thr, status, pend>>
    BY <1>5 DEF RecvJoin, localVars
  <2>2. n = Coord /\ m \in Packet
    BY <1>1, <1>3, <2>1, Sender DEF Arrived
  <2>3. {"NODE_JOIN"} \cap ReqType = {}
    BY DEF ReqType
  <2> HIDE DEF m
  <2> QED
    BY <1>1, <1>2, <1>4, <2>1, <2>2, <2>3, TakenAtCoord DEF Remembered
<1>6. CASE RecvAnswerWrite(n, p)
  <2> DEFINE ch == Received(n, p)
             inv == Pkt("INVALIDATE", NoNode)
             w == pend[n].requester
             fd == pend[n].client_fd
             granted == [pend[n] EXCEPT !.requester = NoNode]
             targets == Targets(n, w)
  <2>1. /\ n = Coord /\ w # NoNode /\ Arrived(n, p, {"SEND_PAGE"})
        /\ GrantWrite(n, w, fd, m.payload, ch, granted, m)
    BY <1>6, CoordAssumption, NoNodeAssumption DEF RecvAnswerWrite, coordinator_fd
  <2>2. w = Coord /\ Coord \notin invalidate_mask(gpd[n], w)
    BY <1>1, <2>1 DEF Remembered, invalidate_mask
  <2>3. m \in Packet /\ inv \in Packet
    BY <1>3, <2>1, PacketType DEF NodeOrNone
  <2>4. {"SEND_PAGE"} \cap ReqType = {}
    BY DEF ReqType
  <2>5. CASE targets = {}
    <3>1. chan' = Send(ch, n, {fd}, m) /\ pend' = [pend EXCEPT ![n] = granted]
      BY <2>1, <2>5 DEF GrantWrite
    <3>2. thr' = Wake(Coord)
      BY <1>6, <2>1, <2>2, <2>5 DEF RecvAnswerWrite, InstallPage
    <3>3. ~Waiting(Coord)'
      BY <1>1, <3>2, Woken
    <3>4. pend'[Coord].requester = NoNode
      BY <1>1, <2>1, <3>1 DEF Pending
    <3> HIDE DEF m, targets, granted, inv, fd, w
    <3> QED
      BY <1>2, <2>1, <2>3, <2>4, <3>1, <3>2, <3>3, <3>4, TakenAtCoord
  <2>6. CASE targets # {}
    <3>1. chan' = Send(ch, n, targets, inv)
      BY <2>1, <2>6 DEF GrantWrite
    <3>2. UNCHANGED thr
      BY <1>6, <2>1, <2>2, <2>6 DEF RecvAnswerWrite, localVars
    <3>3. pend'[Coord].requester = Coord
      BY <1>1, <2>1, <2>2, <2>6 DEF GrantWrite
    <3> HIDE DEF m, targets, granted, inv, fd, w
    <3> QED
      BY <1>2, <2>1, <2>3, <2>4, <3>1, <3>2, <3>3, TakenAtCoord DEF ServedCoord
  <2> QED
    BY <2>5, <2>6
<1>7. CASE RecvAnswerRead(n, p)
  <2>1. n = Coord /\ Arrived(n, p, {"SEND_PAGE"}) /\ pend[n].requester # NoNode
    BY <1>7, CoordAssumption, NoNodeAssumption DEF RecvAnswerRead, coordinator_fd
  <2>2. pend[n].requester = n
    BY <1>1, <2>1 DEF Remembered
  <2>3. chan' = Received(n, p) /\ thr' = Wake(Coord) /\ pend'[Coord].requester = NoNode
    BY <1>1, <1>7, <2>1, <2>2 DEF RecvAnswerRead, InstallPage, Pending
  <2>4. ~Waiting(Coord)' /\ m \in Packet
    BY <1>1, <1>3, <2>1, <2>3, Woken
  <2>5. {"SEND_PAGE"} \cap ReqType = {}
    BY DEF ReqType
  <2> HIDE DEF m
  <2> QED
    BY <1>2, <2>1, <2>3, <2>4, <2>5, TakenAtCoord
<1>8. CASE RecvPage(n, p)
  <2>1. /\ Arrived(n, p, {"SEND_PAGE"}) /\ chan' = Received(n, p) /\ UNCHANGED pend
        /\ \/ thr' = Wake(n)
           \/ UNCHANGED <<thr, status>> /\ status[n] = "VALID"
    BY <1>8 DEF RecvPage, LiftProtection, InstallPage, localVars
  <2>2. m \in Packet /\ {"SEND_PAGE"} \cap ReqType = {}
    BY <1>3, <2>1 DEF ReqType
  <2>3. CASE n = Coord
    <3>1. Waiting(Coord)' => ServedCoord'
      BY <1>1, <1>4, <2>1, <2>3, Woken
    <3> HIDE DEF m
    <3> QED
      BY <1>1, <1>2, <2>1, <2>2, <2>3, <3>1, TakenAtCoord DEF Remembered
  <2>4. CASE n # Coord
    <3>1. n \in Workers /\ p = Coord /\ status'[Coord] = status[Coord]
      BY <1>1, <1>8, <2>1, <2>4, Sender
      DEF Workers, RecvPage, LiftProtection, InstallPage, localVars
    <3>2. /\ \A k \in Nodes : Waiting(k)' => Waiting(k)
          /\ ~Waiting(n)'
      <4>1. CASE thr' = Wake(n)
        BY <1>1, <4>1, Woken
      <4>2. CASE UNCHANGED thr /\ status[n] = "VALID"
        BY <3>1, <4>2, WorkerWaits DEF Waiting
      <4> QED
        BY <2>1, <4>1, <4>2
    <3>3. Waiting(Coord)' => ServedCoord'
      BY <1>1, <1>2, <2>1, <3>1, <3>2, CoordKept DEF Remembered, Present
    <3>4. ASSUME NEW k \in Workers, Waiting(k)' PROVE ServedWorker(k)'
      <4>1. ServedWorker(k) /\ k \in Nodes /\ k # n
        BY <1>1, <3>2, <3>4 DEF Remembered
      <4>2. /\ On(chan, k, Coord, ReqType) => On(chan', k, Coord, ReqType)
            /\ On(chan, Coord, k, {"SEND_PAGE"}) => On(chan', Coord, k, {"SEND_PAGE"})
        BY <1>1, <2>1, <2>2, <2>4, <4>1, TakenKept
      <4> QED
        BY <1>2, <4>1, <4>2, WorkerKept
    <3> QED
      BY <1>1, <2>1, <3>3, <3>4 DEF Remembered
  <2> QED
    BY <2>3, <2>4
<1>9. CASE RecvInvalidate(n, p)
  <2> DEFINE ack == Pkt("INVALIDATE_ACK", n)
             dests == {IF coordinator_fd(n) # NoNode THEN coordinator_fd(n) ELSE p}
  <2>1. /\ Arrived(n, p, {"INVALIDATE"}) /\ chan' = Send(Received(n, p), n, dests, ack)
        /\ UNCHANGED <<thr, pend>> /\ status' = [status EXCEPT ![n] = "EMPTY"]
    BY <1>9 DEF RecvInvalidate, invalidate_local_page_copy
  <2>2. n \in Workers /\ ack \in Packet /\ "SEND_PAGE" \notin {"INVALIDATE"}
    BY <1>1, <2>1, Sender, PacketType DEF Workers, Arrived, NodeOrNone
  <2>3. status'[Coord] = status[Coord]
    BY <1>1, <2>1, <2>2
  <2> HIDE DEF ack, dests
  <2> QED
    BY <1>2, <2>1, <2>2, <2>3, TakenAtWorker
<1>10. CASE RecvAck(n, p)
  <2> DEFINE page == Page(n, pend[n].deferred_payload)
             dests == {pend[n].client_fd}
  <2>1. n = Coord /\ Arrived(n, p, {"INVALIDATE_ACK"})
    BY <1>1, <1>10, Sender DEF RecvAck, Arrived
  <2>2. page \in Packet /\ {"INVALIDATE_ACK"} \cap ReqType = {}
    BY <1>1, PacketType DEF Pending, ReqType
  <2>3. /\ chan' \in {Received(n, p), Send(Received(n, p), n, dests, page)}
        /\ \/ /\ thr' = thr /\ status' = status
              /\ pend'[Coord].requester = pend[Coord].requester
           \/ /\ thr' = Wake(Coord) /\ pend'[Coord].requester = NoNode
           \/ /\ thr' = thr /\ status' = status /\ pend[Coord].requester # Coord
              /\ pend'[Coord].requester = NoNode
    BY <1>1, <1>10, <2>1 DEF RecvAck, localVars, LiftProtection, InstallPage, Pending
  <2>4. pend'[Coord].requester \in {Coord, NoNode} /\ thr' \in {thr, Wake(Coord)}
    BY <1>1, <2>3 DEF Remembered
  <2>5. Waiting(Coord)' => ServedCoord'
    <3>1. CASE thr' = Wake(Coord)
      BY <1>1, <3>1, Woken
    <3>2. CASE /\ thr' = thr /\ status' = status
               /\ pend'[Coord].requester = pend[Coord].requester
      BY <1>4, <3>2
    <3>3. CASE /\ thr' = thr /\ status' = status /\ pend[Coord].requester # Coord
               /\ pend'[Coord].requester = NoNode
      BY <1>1, <1>4, <3>3 DEF Remembered
    <3> QED
      BY <2>3, <3>1, <3>2, <3>3
  <2> HIDE DEF page, dests
  <2> QED
    BY <1>2, <2>1, <2>2, <2>3, <2>4, <2>5, TakenAtCoord
<1> QED
  BY <1>5, <1>6, <1>7, <1>8, <1>9, <1>10

\* A request the coordinator takes from its only worker is answered, or the
\* engine is about to answer it; a worker answers the coordinator's.
LEMMA RequestsRemember ==
  ASSUME FaultsInv, IInv', OneWorker, NEW n \in Nodes, NEW p \in Nodes,
         RecvRequestServe(n, p) \/ RecvRequestFetch(n, p) \/ RecvRequestZero(n, p)
  PROVE  Remembered'
<1> DEFINE m == Head(chan[p][n])
           zeros == Page(n, {})
<1>1. /\ IInv /\ LocalOK /\ Remembered /\ ChanOK(chan)
      /\ status \in [Nodes -> PageStatus] /\ engine \in [Nodes -> Engine]
      /\ reqq \in [Nodes -> Seq(BOOLEAN)] /\ pend \in [Nodes -> Pending]
      /\ Coord \in Nodes /\ Workers \subseteq Nodes /\ Coord \notin Workers
      /\ reqq[Coord] \in Seq(BOOLEAN)
  BY FaultTypes
<1>2. RecvRequest(n, p) /\ UNCHANGED <<handler, reqq>> /\ Arrived(n, p, ReqType)
  BY DEF RecvRequestServe, RecvRequestFetch, RecvRequestZero, RecvRequest, faultVars
<1>3. /\ m.sender = p /\ m \in Packet /\ ChanOK(Received(n, p))
      /\ n = Coord => p \in Workers
      /\ n # Coord => n \in Workers /\ p = Coord /\ m.type = "REQUEST_PAGE_READ"
      /\ node_fds'[n] \subseteq Nodes
      /\ node_fds'[Coord] \subseteq Nodes \ {Coord}
  BY <1>1, <1>2, Registers DEF Workers, IInv, DirOK
<1>4. zeros \in Packet /\ zeros.type = "SEND_PAGE" /\ "SEND_PAGE" \notin ReqType
  BY PacketType DEF Content, ReqType, Page
<1>5. ASSUME n = Coord, thr' = thr, pend'[Coord].requester = pend[Coord].requester,
             Present(Coord)' => Present(Coord), ServedWorker(p)'
      PROVE  Remembered'
  <2>1. Waiting(Coord)' => ServedCoord'
    BY <1>1, <1>2, <1>5, CoordKept DEF Remembered, Waiting
  <2>2. \A k \in Workers : k = p
    BY <1>3, <1>5 DEF OneWorker
  <2> QED
    BY <1>1, <1>5, <2>1, <2>2 DEF Remembered
<1>6. CASE RecvRequestServe(n, p)
  <2>1. /\ status[n] = "VALID" /\ UNCHANGED <<thr, status, pend>> /\ chan' = Received(n, p)
        /\ engine' = [engine EXCEPT ![n] =
                        [pc |-> IF mem[n].mapped THEN "serve" ELSE "faulted",
                         fd |-> p, type |-> m.type, payload |-> mem[n].val]]
    BY <1>6 DEF RecvRequestServe, localVars
  <2>2. CASE n = Coord
    <3>1. mem[n].mapped
      BY <2>1 DEF FaultsInv, MappedInv, ValidIsMapped, Present
    <3>2. ServedWorker(p)'
      BY <1>1, <2>1, <2>2, <3>1 DEF ServedWorker
    <3> QED
      BY <1>5, <2>1, <2>2, <3>2 DEF Present
  <2>3. CASE n # Coord
    <3>1. engine'[Coord] = engine[Coord] /\ status'[Coord] = status[Coord]
      BY <1>1, <2>1, <2>3
    <3> HIDE DEF m
    <3> QED
      BY <1>2, <1>3, <1>4, <2>1, <2>3, <3>1, TakenAtWorker
  <2> QED
    BY <2>2, <2>3
<1>7. CASE RecvRequestFetch(n, p)
  <2>1. gpd[n].owner \in node_fds'[n] /\ gpd[n].owner # p
    BY <1>3, <1>7 DEF RecvRequestFetch
  <2>2. CASE n = Coord
    BY <1>3, <2>1, <2>2 DEF OneWorker, Workers
  <2>3. CASE n # Coord
    BY <1>1, <1>3, <2>1, <2>3, NoNodeAssumption DEF IInv, DirOK, WorkerDirectoryPassive
  <2> QED
    BY <2>2, <2>3
<1>8. CASE RecvRequestZero(n, p)
  <2>1. CASE n # Coord
    <3>1. /\ UNCHANGED <<thr, status, pend, engine>>
          /\ chan' = Send(Received(n, p), n, {p}, zeros)
      BY <1>3, <1>8, <2>1 DEF RecvRequestZero, localVars
    <3> HIDE DEF m, zeros
    <3> QED
      BY <1>2, <1>3, <1>4, <2>1, <3>1, TakenAtWorker
  <2>2. CASE n = Coord
    <3>1. Targets(Coord, p) = {}
      BY <1>3, <2>2, NoTargets
    <3>2. /\ chan' = Send(Received(n, p), n, {p}, zeros) /\ thr' = thr
          /\ pend'[Coord].requester = pend[Coord].requester
          /\ status' \in {status, [status EXCEPT ![n] = "EMPTY"]}
      <4>1. CASE m.type = "REQUEST_PAGE_WRITE"
        <5>1. /\ GrantWrite(n, p, p, {}, Received(n, p), pend[n], zeros)
              /\ \/ invalidate_local_page_copy(n)
                 \/ UNCHANGED localVars
          BY <1>3, <1>8, <4>1 DEF RecvRequestZero
        <5>2. chan' = Send(Received(n, p), n, {p}, zeros)
              /\ pend' = [pend EXCEPT ![n] = pend[n]]
          BY <2>2, <3>1, <5>1 DEF GrantWrite
        <5> QED
          BY <1>1, <2>2, <5>1, <5>2 DEF invalidate_local_page_copy, localVars
      <4>2. CASE m.type # "REQUEST_PAGE_WRITE"
        BY <1>8, <4>2 DEF RecvRequestZero, localVars
      <4> QED
        BY <4>1, <4>2
    <3>3. On(chan', Coord, p, {"SEND_PAGE"})
      BY <1>1, <1>3, <1>4, <2>2, <3>2, OnSend
    <3>4. Present(Coord)' => Present(Coord)
      BY <1>1, <2>2, <3>2 DEF Present
    <3> QED
      BY <1>5, <2>2, <3>2, <3>3, <3>4 DEF ServedWorker
  <2> QED
    BY <2>1, <2>2
<1> QED
  BY <1>6, <1>7, <1>8

\* The page that was copied is sent.
LEMMA ServeRemembers ==
  ASSUME FaultsInv, IInv', OneWorker, NEW n \in Nodes, Serve(n)
  PROVE  Remembered'
<1> DEFINE r == engine[n].fd
           page == Page(n, engine[n].payload)
<1>1. /\ IInv /\ LocalOK /\ Remembered /\ ChanOK(chan)
      /\ status \in [Nodes -> PageStatus] /\ engine \in [Nodes -> Engine]
      /\ reqq \in [Nodes -> Seq(BOOLEAN)] /\ pend \in [Nodes -> Pending]
      /\ Coord \in Nodes /\ Workers \subseteq Nodes /\ Coord \notin Workers
      /\ reqq[Coord] \in Seq(BOOLEAN)
  BY FaultTypes
<1>2. /\ engine[n].pc = "serve" /\ UNCHANGED <<handler, reqq, node_fds>>
      /\ engine' = [engine EXCEPT ![n] = Looping]
  BY DEF Serve, ServeWrite, ServeRead, faultVars
<1>3. /\ n = Coord => r \in Workers /\ node_fds'[Coord] \subseteq Nodes \ {Coord}
      /\ n # Coord => r = Coord /\ engine[n].type = "REQUEST_PAGE_READ"
  BY <1>1, <1>2 DEF IInv, EngineOK, DirOK, Workers
<1>4. page \in Packet /\ page.type = "SEND_PAGE"
  BY <1>1, PacketType DEF Page, Engine
<1>5. /\ chan' = Send(chan, n, {r}, page) /\ thr' = thr
      /\ pend'[Coord].requester = pend[Coord].requester
      /\ status' \in {status, [status EXCEPT ![n] = "EMPTY"]}
      /\ n # Coord => status' = status
  <2>1. CASE ServeRead(n)
    BY <2>1 DEF ServeRead, writeprotect_local_page_copy, localVars
  <2>2. CASE ServeWrite(n)
    <3>1. n = Coord
      BY <1>3, <2>2 DEF ServeWrite
    <3>2. Targets(Coord, r) = {}
      BY <1>3, <3>1, NoTargets
    <3>3. GrantWrite(n, r, r, engine[n].payload, chan, pend[n], page)
          /\ invalidate_local_page_copy(n)
      BY <2>2 DEF ServeWrite
    <3>4. chan' = Send(chan, n, {r}, page) /\ pend' = [pend EXCEPT ![n] = pend[n]]
      BY <3>1, <3>2, <3>3 DEF GrantWrite
    <3> QED
      BY <1>1, <3>1, <3>3, <3>4 DEF invalidate_local_page_copy
  <2> QED
    BY <2>1, <2>2 DEF Serve
<1> HIDE DEF page
<1>6. \A k \in Nodes : Waiting(k)' <=> Waiting(k)
  BY <1>5 DEF Waiting
<1>7. Present(Coord)' => Present(Coord)
  BY <1>1, <1>5 DEF Present
<1>8. Waiting(Coord)' => ServedCoord'
  BY <1>1, <1>2, <1>5, <1>6, <1>7, CoordKept DEF Remembered
<1>9. ASSUME NEW k \in Workers, Waiting(k)' PROVE ServedWorker(k)'
  <2>1. k \in Nodes /\ ServedWorker(k)
    BY <1>1, <1>6, <1>9 DEF Remembered
  <2>2. CASE n = Coord
    <3>1. k = r
      BY <1>3, <2>2 DEF OneWorker
    <3>2. On(chan', Coord, k, {"SEND_PAGE"})
      BY <1>1, <1>4, <1>5, <2>1, <2>2, <3>1, OnSend
    <3> QED
      BY <3>2 DEF ServedWorker
  <2>3. CASE n # Coord
    <3>1. /\ On(chan, k, Coord, ReqType) => On(chan', k, Coord, ReqType)
          /\ On(chan, Coord, k, {"SEND_PAGE"}) => On(chan', Coord, k, {"SEND_PAGE"})
      BY <1>1, <1>4, <1>5, <2>1, OnSend
    <3>2. engine'[Coord] = engine[Coord]
      BY <1>1, <1>2, <2>3
    <3> QED
      BY <1>2, <2>1, <3>1, <3>2, WorkerKept
  <2> QED
    BY <2>2, <2>3
<1> QED
  BY <1>1, <1>5, <1>8, <1>9 DEF Remembered

\* The initial states satisfy it if no page is evictable.
LEMMA InitFaults == Evictable = {} /\ Init => FaultsInv
<1> SUFFICES ASSUME Evictable = {}, Init PROVE FaultsInv
  OBVIOUS
<1>1. MappedInv
  <2>1. \A n \in Nodes : ring[n] = "evicted"
    BY DEF Init
  <2>2. ValidIsMapped
    BY DEF Init, ValidIsMapped, Present, Looping
  <2> QED
    BY <2>1, <2>2, InitIInv DEF MappedInv
<1>2. SuspendedOK
  BY DEF Init, SuspendedOK, Suspended, Running, Unmapped, Workers
<1>3. Remembered
  BY CoordAssumption DEF Init, Remembered, Waiting, Running, NoPending
<1> QED
  BY <1>1, <1>2, <1>3 DEF FaultsInv

\* Every step keeps the invariant.
LEMMA FaultsStep == OneWorker /\ FaultsInv /\ [Next]_vars => FaultsInv'
<1> SUFFICES ASSUME OneWorker, FaultsInv, [Next]_vars PROVE FaultsInv'
  OBVIOUS
<1>1. MappedInv' /\ IInv' /\ SuspendedOK'
  <2>1. MappedInv'
    BY MappedStep DEF FaultsInv
  <2> QED
    BY <2>1, SuspendedStep DEF MappedInv
<1>2. Remembered /\ reqq[Coord] \in Seq(BOOLEAN) /\ thr \in [Threads -> Thread]
  BY FaultTypes DEF LocalOK
<1>3. ASSUME UNCHANGED <<handler, reqq, status, engine, pend, chan>>,
             \A k \in Nodes : Waiting(k)' => Waiting(k)
      PROVE  Remembered'
  BY <1>2, <1>3, CoordAssumption
  DEF Remembered, ServedCoord, ServedWorker, Present, Workers
<1>4. ASSUME NEW t \in Threads, App(t) PROVE Remembered'
  <2>1. \A k \in Nodes : Waiting(k)' => Waiting(k)
    BY <1>2, <1>4 DEF App, Load, Store, Fault, Running, Waiting
  <2> QED
    BY <1>3, <1>4, <2>1 DEF App, Load, Store, Fault, faultVars, dirVars
<1>5. ASSUME UNCHANGED vars PROVE Remembered'
  BY <1>3, <1>5 DEF vars, Waiting
<1>6. ASSUME NEW n \in Nodes PROVE ~EvictVisit(n)
  BY DEF EvictVisit, EvictInspect, EvictPage, FaultsInv, MappedInv
<1>7. ASSUME NEW n \in Nodes, NEW p \in Nodes, PeerSession(n, p) PROVE Remembered'
  BY <1>1, <1>7, AnswersRemember, RequestsRemember DEF PeerSession
<1>8. Remembered'
  BY <1>1, <1>4, <1>5, <1>6, <1>7, HandlerRemembers, QueueRemembers, ServeRemembers DEF Next
<1> QED
  BY <1>1, <1>8 DEF FaultsInv

\* With at most one worker and no eviction, no fault is forgotten: whatever
\* the threads do and however small the queue, while a thread is suspended on
\* a fault that fault_handler has read, something is under way that wakes it,
\* also if its own request was dropped because the queue was full.
THEOREM FaultsRemembered ==
  Evictable = {} /\ OneWorker => (Spec => []NoForgottenFault)
<1> SUFFICES ASSUME Evictable = {}, OneWorker PROVE Spec => []NoForgottenFault
  OBVIOUS
<1>1. Init => FaultsInv
  BY InitFaults
<1>2. FaultsInv => NoForgottenFault
  <2> SUFFICES ASSUME FaultsInv, NEW t \in Threads, thr[t].pc = "waiting"
               PROVE  Outstanding(NodeOf[t])
    BY DEF NoForgottenFault
  <2>1. NodeOf[t] \in Nodes /\ Waiting(NodeOf[t]) /\ Remembered
    BY ThreadAssumption DEF Waiting, FaultsInv
  <2>2. CASE NodeOf[t] = Coord
    <3>1. ServedCoord /\ reqq[Coord] \in Seq(BOOLEAN)
      BY <2>1, <2>2, FaultTypes DEF Remembered
    <3>2. (\E i \in DOMAIN reqq[Coord] : reqq[Coord][i]) => reqq[Coord] # << >>
      OBVIOUS
    <3> QED
      BY <2>2, <3>1, <3>2 DEF ServedCoord, Outstanding
  <2>3. CASE NodeOf[t] # Coord
    BY <2>1, <2>3 DEF Remembered, ServedWorker, Outstanding, On, InTransit, Workers
  <2> QED
    BY <2>2, <2>3
<1> QED
  BY <1>1, <1>2, FaultsStep, PTL DEF Spec

=============================================================================
