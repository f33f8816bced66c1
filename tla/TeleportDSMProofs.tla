------------------------- MODULE TeleportDSMProofs -------------------------
(***************************************************************************)
(* What is proved about TeleportDSM for every set of nodes, threads and    *)
(* every workload: the properties of the coordinator's bookkeeping and of  *)
(* the channels, and, without eviction, that the page table does not run   *)
(* ahead of the kernel's mapping.                                          *)
(***************************************************************************)
EXTENDS TeleportDSM, FiniteSetTheorems, TLAPS

----------------------------------------------------------------------------
(* The directory's transitions. *)

\* An entry that names an owner exactly when it is MODIFIED, and so on.
EntryOK(e) ==
  /\ e \in Entry
  /\ e.state = "MODIFIED" <=> e.owner # NoNode
  /\ e.state = "MODIFIED" => e.sharers = {}
  /\ e.state = "SHARED" => e.sharers # {}

\* A read makes the entry SHARED by the former holders and the reader.
LEMMA SharedEntry ==
  ASSUME NEW e, EntryOK(e), NEW r \in Nodes
  PROVE  /\ EntryOK(gpd_transition_to_shared(e, r))
         /\ gpd_transition_to_shared(e, r).owner = NoNode
         /\ holders_mask(gpd_transition_to_shared(e, r))
              \subseteq holders_mask(e) \cup e.sharers \cup {r}
BY NoNodeAssumption DEF EntryOK, Entry, MsiState, gpd_transition_to_shared, holders_mask

\* A write makes the writer the only holder.
LEMMA ModifiedEntry ==
  ASSUME NEW e, EntryOK(e), NEW w \in Nodes
  PROVE  /\ EntryOK(gpd_transition_to_modified(e, w))
         /\ holders_mask(gpd_transition_to_modified(e, w)) = {w}
BY NoNodeAssumption DEF EntryOK, Entry, MsiState, gpd_transition_to_modified, holders_mask

----------------------------------------------------------------------------
(* The channels. *)

ChanOK(ch) ==
  /\ ch \in [Nodes -> [Nodes -> Seq(Packet)]]
  /\ \A a, b \in Nodes : \A i \in DOMAIN ch[a][b] : Permitted(a, b, ch[a][b][i])

\* ChanOK says of chan what the type invariant and ChannelDiscipline say.
LEMMA ChanOKMeans ==
  ASSUME chan \in [Nodes -> [Nodes -> Seq(Packet)]]
  PROVE  ChanOK(chan) <=> ChannelDiscipline
BY DEF ChanOK, ChannelDiscipline, InTransit

\* Sending what may be sent keeps the channels in order.
LEMMA Sends ==
  ASSUME NEW ch, ChanOK(ch), NEW n \in Nodes, NEW dests, NEW m \in Packet,
         \A b \in dests \cap Nodes : Permitted(n, b, m)
  PROVE  ChanOK(Send(ch, n, dests, m))
<1> DEFINE new == Send(ch, n, dests, m)
<1>1. /\ new \in [Nodes -> [Nodes -> Seq(Packet)]]
      /\ \A a, b \in Nodes : new[a][b] = IF a = n /\ b \in dests
                                         THEN Append(ch[a][b], m) ELSE ch[a][b]
  BY DEF ChanOK, Send
<1>2. ASSUME NEW a \in Nodes, NEW b \in Nodes, NEW i \in DOMAIN new[a][b]
      PROVE  Permitted(a, b, new[a][b][i])
  <2>1. CASE a = n /\ b \in dests
    <3>1. new[a][b] = Append(ch[a][b], m) /\ ch[a][b] \in Seq(Packet)
      BY <1>1, <2>1 DEF ChanOK
    <3>2. \/ i \in DOMAIN ch[a][b] /\ new[a][b][i] = ch[a][b][i]
          \/ new[a][b][i] = m
      BY <3>1
    <3> QED BY <3>2, <2>1 DEF ChanOK
  <2>2. CASE ~(a = n /\ b \in dests)
    BY <1>1, <2>2 DEF ChanOK
  <2> QED BY <2>1, <2>2
<1> QED BY <1>1, <1>2 DEF ChanOK

\* Taking a packet from a channel keeps the channels in order, and the packet
\* is one that may travel there.
LEMMA Receives ==
  ASSUME ChanOK(chan), NEW n \in Nodes, NEW p \in Nodes, chan[p][n] # << >>
  PROVE  /\ ChanOK(Received(n, p))
         /\ Head(chan[p][n]) \in Packet
         /\ Permitted(p, n, Head(chan[p][n]))
<1> DEFINE new == Received(n, p)
<1>0. chan[p][n] \in Seq(Packet)
  BY DEF ChanOK
<1>1. /\ new \in [Nodes -> [Nodes -> Seq(Packet)]]
      /\ \A a, b \in Nodes : new[a][b] = IF a = p /\ b = n
                                         THEN Tail(chan[a][b]) ELSE chan[a][b]
  BY <1>0 DEF ChanOK, Received
<1>2. ASSUME NEW a \in Nodes, NEW b \in Nodes, NEW i \in DOMAIN new[a][b]
      PROVE  Permitted(a, b, new[a][b][i])
  <2>1. CASE a = p /\ b = n
    <3>1. new[a][b] = Tail(chan[a][b]) /\ chan[a][b] \in Seq(Packet)
      BY <1>0, <1>1, <2>1
    <3>2. i + 1 \in DOMAIN chan[a][b] /\ new[a][b][i] = chan[a][b][i + 1]
      BY <3>1, <2>1
    <3> QED BY <3>2 DEF ChanOK
  <2>2. CASE ~(a = p /\ b = n)
    BY <1>1, <2>2 DEF ChanOK
  <2> QED BY <2>1, <2>2
<1>3. Head(chan[p][n]) = chan[p][n][1] /\ 1 \in DOMAIN chan[p][n]
  BY <1>0
<1> QED BY <1>0, <1>1, <1>2, <1>3 DEF ChanOK

----------------------------------------------------------------------------
(* The inductive invariant.  TypeOK is not inductive by itself: that the    *)
(* bitmap of sharers holds node ids only depends on DirectoryConsistent    *)
(* (an owner shifted into it is not 0) and on the ids in the packets, and  *)
(* those on who sends what to whom.                                        *)

LocalOK ==
  /\ thr \in [Threads -> Thread]
  /\ mem \in [Nodes -> Mapping]
  /\ status \in [Nodes -> PageStatus]
  /\ accessed \in [Nodes -> BOOLEAN]

FaultOK ==
  /\ handler \in [Nodes -> {"none", "R", "W"}]
  /\ reqq \in [Nodes -> Seq(BOOLEAN)]
  /\ \A n \in Nodes : Len(reqq[n]) <= QUEUE_CAPACITY

RestOK == stores \in Nat /\ ring \in [Nodes -> RingEntry]

\* The node an engine is serving is known to it, and a worker serves only the
\* coordinator's reads.
EngineOK ==
  /\ engine \in [Nodes -> Engine]
  /\ \A n \in Nodes : engine[n].pc = "serve" =>
       /\ engine[n].type \in ReqType
       /\ n = Coord => engine[n].fd \in node_fds[Coord]
       /\ n # Coord => engine[n].fd = Coord /\ engine[n].type = "REQUEST_PAGE_READ"

\* Whoever may become a holder - a pending requester - is as reachable as the
\* holders are.
DirOK ==
  /\ pend \in [Nodes -> Pending]
  /\ node_fds \in [Nodes -> SUBSET Nodes]
  /\ gpd \in [Nodes -> Entry]
  /\ \A n \in Nodes : EntryOK(gpd[n])
  /\ gpd[Coord].sharers \cup {gpd[Coord].owner}
       \subseteq node_fds[Coord] \cup {Coord, NoNode}
  /\ pend[Coord].requester \in node_fds[Coord] \cup {Coord, NoNode}
  /\ pend[Coord].client_fd # Coord
  /\ Coord \notin node_fds[Coord]
  /\ WorkerDirectoryPassive

IInv == LocalOK /\ FaultOK /\ RestOK /\ EngineOK /\ DirOK /\ ChanOK(chan)

\* The inductive invariant gives the properties.
LEMMA IInvImplies ==
  ASSUME IInv
  PROVE  /\ TypeOK
         /\ DirectoryConsistent
         /\ ChannelDiscipline
         /\ HoldersRegistered
         /\ WorkerDirectoryPassive
<1>1. chan \in [Nodes -> [Nodes -> Seq(Packet)]]
  BY DEF IInv, ChanOK
<1>2. TypeOK
  BY <1>1 DEF IInv, TypeOK, LocalOK, FaultOK, RestOK, EngineOK, DirOK
<1>3. DirectoryConsistent
  BY DEF IInv, DirOK, DirectoryConsistent, EntryOK
<1>4. ChannelDiscipline
  BY <1>1, ChanOKMeans DEF IInv
<1>5. HoldersRegistered
  BY CoordAssumption, NoNodeAssumption DEF IInv, DirOK, HoldersRegistered, holders_mask, EntryOK,
     Entry, MsiState
<1> QED
  BY <1>2, <1>3, <1>4, <1>5 DEF IInv, DirOK

----------------------------------------------------------------------------
(* What the helpers do to the local state. *)

\* Waking the threads that are suspended on the page.
LEMMA WakeType ==
  ASSUME thr \in [Threads -> Thread], NEW n
  PROVE  Wake(n) \in [Threads -> Thread]
BY DEF Wake, Thread

\* UFFDIO_COPY, the status and the access bit that follow it.
LEMMA InstallLocal ==
  ASSUME LocalOK, NEW n \in Nodes, NEW v \in Content, InstallPage(n, v)
  PROVE  LocalOK'
BY WakeType DEF LocalOK, InstallPage, Mapping, PageStatus

\* UFFDIO_WRITEPROTECT and the status that follows it.
LEMMA LiftLocal ==
  ASSUME LocalOK, NEW n \in Nodes, LiftProtection(n),
         accessed' \in [Nodes -> BOOLEAN]
  PROVE  LocalOK'
BY WakeType DEF LocalOK, LiftProtection, Mapping, PageStatus

\* invalidate_local_page_copy.
LEMMA InvalidateLocal ==
  ASSUME LocalOK, NEW n \in Nodes, invalidate_local_page_copy(n)
  PROVE  LocalOK'
BY DEF LocalOK, invalidate_local_page_copy, Mapping, Unmapped, Content, PageStatus

\* writeprotect_local_page_copy.
LEMMA ProtectLocal ==
  ASSUME LocalOK, NEW n \in Nodes, writeprotect_local_page_copy(n)
  PROVE  LocalOK'
BY DEF LocalOK, writeprotect_local_page_copy, Mapping

\* The rest of a nonempty sequence.
LEMMA TailType ==
  ASSUME NEW S, NEW s \in Seq(S), s # << >>
  PROVE  Tail(s) \in Seq(S) /\ Len(Tail(s)) = Len(s) - 1
OBVIOUS

\* A sequence with one more element at its end (queue_push).
LEMMA AppendType ==
  ASSUME NEW S, NEW s \in Seq(S), NEW x \in S
  PROVE  Append(s, x) \in Seq(S) /\ Len(Append(s, x)) = Len(s) + 1
OBVIOUS

\* Lengths are natural numbers.
LEMMA LenType ==
  ASSUME NEW S, NEW s \in Seq(S)
  PROVE  Len(s) \in Nat
OBVIOUS

\* What is popped is a Boolean, and the engine is not serving a page then.
LEMMA Pops ==
  ASSUME IInv, NEW n \in Nodes, NEW is_write \in BOOLEAN, Popping(n, is_write)
  PROVE  FaultOK' /\ RestOK' /\ EngineOK'
<1>1. FaultOK'
  <2>1. reqq[n] \in Seq(BOOLEAN) /\ reqq[n] # << >>
    BY DEF IInv, FaultOK, Popping
  <2>2. Tail(reqq[n]) \in Seq(BOOLEAN) /\ Len(Tail(reqq[n])) = Len(reqq[n]) - 1
    BY <2>1, TailType
  <2> QED BY <2>1, <2>2, BoundAssumption DEF IInv, FaultOK, Popping
<1>2. RestOK' /\ EngineOK'
  BY DEF IInv, RestOK, EngineOK, Engine, Popping
<1> QED BY <1>1, <1>2

\* Invalidations go to nodes that can be reached, finitely many of them.
LEMMA TargetsType ==
  ASSUME NEW n \in Nodes, NEW w, gpd[n] \in Entry
  PROVE  /\ Targets(n, w) \subseteq Nodes \ {n}
         /\ Cardinality(Targets(n, w)) \in Nat
<1>1. Targets(n, w) \subseteq Nodes \ {n}
  BY DEF Targets, invalidate_mask, holders_mask, Entry, MsiState
<1>2. IsFiniteSet(Targets(n, w))
  BY <1>1, NodesAssumption, FS_Subset
<1> QED BY <1>1, <1>2, FS_CardinalityType

----------------------------------------------------------------------------
(* What a step may do to the directories and the channels. *)

\* A change of the coordinator's entry, pending record and connections.
LEMMA CoordDirStep ==
  ASSUME DirOK, NEW e, NEW r, NEW F,
         EntryOK(e), e.sharers \cup {e.owner} \subseteq F \cup {Coord, NoNode},
         r \in Pending, r.requester \in F \cup {Coord, NoNode}, r.client_fd # Coord,
         F \subseteq Nodes \ {Coord},
         gpd' = [gpd EXCEPT ![Coord] = e],
         pend' = [pend EXCEPT ![Coord] = r],
         node_fds' = [node_fds EXCEPT ![Coord] = F]
  PROVE  DirOK'
BY CoordAssumption DEF DirOK, EntryOK, WorkerDirectoryPassive, Workers

\* A change of a worker's entry and connections.
LEMMA WorkerDirStep ==
  ASSUME DirOK, NEW n \in Workers, NEW e, NEW F \in SUBSET Nodes,
         EntryOK(e), e.owner = NoNode,
         gpd' = [gpd EXCEPT ![n] = e],
         UNCHANGED pend,
         node_fds' = [node_fds EXCEPT ![n] = F]
  PROVE  DirOK'
BY CoordAssumption DEF DirOK, EntryOK, WorkerDirectoryPassive, Workers

\* The engines stay in order when connections are only added.
LEMMA EngineKept ==
  ASSUME EngineOK, UNCHANGED engine, node_fds[Coord] \subseteq node_fds'[Coord]
  PROVE  EngineOK'
BY CoordAssumption DEF EngineOK

\* The packets the engine builds are packets.
LEMMA PacketType ==
  /\ \A type \in ReqType \cup {"NODE_JOIN", "INVALIDATE", "INVALIDATE_ACK"},
        sender \in NodeOrNone : Pkt(type, sender) \in Packet
  /\ \A sender \in Nodes, v \in Content : Page(sender, v) \in Packet
  /\ \A is_write \in BOOLEAN : ReqOf(is_write) \in ReqType
BY DEF Pkt, Page, Packet, Content, NodeOrNone, ReqOf, ReqType

\* The packet an engine takes next.
LEMMA Arrival ==
  ASSUME IInv, NEW n \in Nodes, NEW p \in Nodes, NEW types, Arrived(n, p, types)
  PROVE  /\ ChanOK(Received(n, p))
         /\ Head(chan[p][n]) \in Packet
         /\ Head(chan[p][n]).type \in types
         /\ Permitted(p, n, Head(chan[p][n]))
BY Receives DEF IInv, Arrived

\* A grant of ownership by the coordinator.
LEMMA Grants ==
  ASSUME DirOK, NEW F, F \subseteq Nodes \ {Coord},
         node_fds' = [node_fds EXCEPT ![Coord] = F],
         NEW w \in F \cup {Coord}, NEW fd \in NodeOrNone \ {Coord},
         NEW v \in Content, NEW ch, ChanOK(ch),
         NEW granted \in Pending, granted.client_fd # Coord,
         granted.requester \in F \cup {Coord, NoNode},
         NEW ungranted \in Packet, ungranted.type = "SEND_PAGE",
         GrantWrite(Coord, w, fd, v, ch, granted, ungranted)
  PROVE  DirOK' /\ ChanOK(chan)'
<1> DEFINE targets == Targets(Coord, w)
           waiting == [requester |-> w, type |-> "REQUEST_PAGE_WRITE",
                       client_fd |-> fd, expected_acks |-> Cardinality(targets),
                       deferred_payload |-> v]
<1>1. w \in Nodes /\ Coord \in Nodes /\ gpd[Coord] \in Entry /\ EntryOK(gpd[Coord])
  BY CoordAssumption DEF DirOK
<1>2. targets \subseteq Nodes \ {Coord} /\ Cardinality(targets) \in Nat
  BY <1>1, TargetsType
<1>3. DirOK'
  <2> DEFINE e == gpd_transition_to_modified(gpd[Coord], w)
             r == IF targets = {} THEN granted ELSE waiting
  <2>1. EntryOK(e) /\ e.sharers = {} /\ e.owner = w
    BY <1>1, ModifiedEntry DEF gpd_transition_to_modified
  <2>2. waiting \in Pending
    BY <1>1, <1>2 DEF Pending, NodeOrNone, ReqType
  <2>3. r \in Pending /\ r.requester \in F \cup {Coord, NoNode} /\ r.client_fd # Coord
    BY <2>2
  <2>4. gpd' = [gpd EXCEPT ![Coord] = e] /\ pend' = [pend EXCEPT ![Coord] = r]
    BY DEF GrantWrite
  <2> HIDE DEF e, r
  <2> QED BY <2>1, <2>3, <2>4, CoordDirStep
<1>4. ChanOK(chan')
  <2>1. CASE targets = {}
    <3>1. \A b \in {fd} \cap Nodes : Permitted(Coord, b, ungranted)
      BY DEF Permitted
    <3> QED BY <1>1, <2>1, <3>1, Sends DEF GrantWrite
  <2>2. CASE targets # {}
    <3>1. Pkt("INVALIDATE", NoNode) \in Packet
      BY PacketType DEF NodeOrNone
    <3>2. \A b \in targets \cap Nodes : Permitted(Coord, b, Pkt("INVALIDATE", NoNode))
      BY <1>2 DEF Permitted, Pkt
    <3> QED BY <1>1, <2>2, <3>1, <3>2, Sends DEF GrantWrite
  <2> QED BY <2>1, <2>2
<1> QED BY <1>3, <1>4

----------------------------------------------------------------------------
(* Every step preserves the invariant, action by action. *)

\* Loads, stores and faults of an application thread.
LEMMA AppStep ==
  ASSUME IInv, NEW t \in Threads, App(t)
  PROVE  IInv'
<1> USE DEF IInv
<1>0. NodeOf[t] \in Nodes
  BY ThreadAssumption
<1>1. CASE Load(t)
  <2>1. LocalOK'
    BY <1>1 DEF Load, LocalOK, Thread, Running
  <2> QED BY <1>1, <2>1 DEF Load, faultVars, dirVars, FaultOK, RestOK, EngineOK,
                DirOK, WorkerDirectoryPassive
<1>2. CASE Store(t)
  <2>1. LocalOK' /\ RestOK'
    BY <1>0, <1>2 DEF Store, LocalOK, RestOK, Thread, Running, Mapping, Content
  <2> QED BY <1>2, <2>1 DEF Store, faultVars, dirVars, FaultOK, EngineOK, DirOK,
                WorkerDirectoryPassive
<1>3. ASSUME NEW op \in {"R", "W"}, Fault(t, op)
      PROVE  IInv'
  <2>1. LocalOK'
    BY <1>3 DEF Fault, LocalOK, Thread
  <2> QED BY <1>3, <2>1 DEF Fault, faultVars, dirVars, FaultOK, RestOK, EngineOK,
                DirOK, WorkerDirectoryPassive
<1> QED BY <1>1, <1>2, <1>3 DEF App

\* fault_handler reads an event, or handles it: a full queue takes nothing.
LEMMA FaultHandlerStep ==
  ASSUME IInv, NEW n \in Nodes, FaultHandler(n)
  PROVE  IInv'
<1> USE DEF IInv
<1>1. ASSUME NEW t \in Threads, ReadFault(n, t)
      PROVE  IInv'
  <2>1. LocalOK' /\ FaultOK'
    BY <1>1 DEF ReadFault, LocalOK, FaultOK, Thread
  <2> QED BY <1>1, <2>1 DEF ReadFault, dirVars, RestOK, EngineOK, DirOK,
                WorkerDirectoryPassive
<1>2. CASE HandleFault(n)
  <2>1. LocalOK'
    BY <1>2 DEF HandleFault, LocalOK, appVars, PageStatus
  <2>2. FaultOK'
    <3>1. reqq[n] \in Seq(BOOLEAN) /\ Len(reqq[n]) <= QUEUE_CAPACITY
      BY DEF FaultOK
    <3>2. CASE reqq' = reqq
      BY <1>2, <3>2 DEF HandleFault, FaultOK
    <3>3. CASE /\ Len(reqq[n]) # QUEUE_CAPACITY
               /\ reqq' = [reqq EXCEPT ![n] = Append(@, handler[n] = "W")]
      <4>1. /\ Append(reqq[n], handler[n] = "W") \in Seq(BOOLEAN)
            /\ Len(Append(reqq[n], handler[n] = "W")) = Len(reqq[n]) + 1
        BY <3>1, AppendType
      <4> QED BY <1>2, <3>1, <3>3, <4>1, LenType, BoundAssumption DEF HandleFault, FaultOK
    <3> QED BY <1>2, <3>2, <3>3 DEF HandleFault
  <2> QED BY <1>2, <2>1, <2>2 DEF HandleFault, appVars, dirVars, RestOK, EngineOK,
                DirOK, WorkerDirectoryPassive
<1> QED BY <1>1, <1>2 DEF FaultHandler

\* The engine pops a request of its own node's fault handler.
LEMMA QueueSessionStep ==
  ASSUME IInv, NEW n \in Nodes, QueueSession(n)
  PROVE  IInv'
<1>0. PICK is_write \in BOOLEAN : \/ PopForward(n, is_write)
                                   \/ PopUpgrade(n, is_write)
                                   \/ PopFetch(n, is_write)
                                   \/ PopZeroFill(n, is_write)
  BY DEF QueueSession
<1>1. Popping(n, is_write)
  BY <1>0 DEF PopForward, PopUpgrade, PopFetch, PopZeroFill
<1>2. FaultOK' /\ RestOK' /\ EngineOK'
  BY <1>1, Pops
<1>3. UNCHANGED node_fds
  BY <1>1 DEF Popping
<1>4. CASE PopForward(n, is_write)
  <2>1. n # Coord /\ coordinator_fd(n) = Coord
    BY <1>4 DEF PopForward, coordinator_fd
  <2>2. /\ Pkt(ReqOf(is_write), n) \in Packet
        /\ Permitted(n, Coord, Pkt(ReqOf(is_write), n))
    BY <2>1, PacketType DEF Permitted, Pkt, ReqOf, NodeOrNone
  <2>3. ChanOK(chan')
    BY <1>4, <2>1, <2>2, Sends DEF PopForward, IInv
  <2> QED BY <1>2, <1>3, <1>4, <2>3 DEF PopForward, localVars, IInv, LocalOK, DirOK,
                WorkerDirectoryPassive
<1>5. CASE PopUpgrade(n, is_write)
  <2> DEFINE targets == Targets(n, n)
  <2>1. n = Coord
    BY <1>5, CoordAssumption, NoNodeAssumption DEF PopUpgrade, coordinator_fd
  <2>2. EntryOK(gpd[n]) /\ gpd[n] \in Entry /\ pend[n] \in Pending
    BY DEF IInv, DirOK
  <2>3. targets \subseteq Nodes \ {n} /\ Cardinality(targets) \in Nat
    BY <2>2, TargetsType
  <2>4. LocalOK'
    <3>1. CASE is_write /\ targets = {}
      BY <1>5, <3>1, LiftLocal DEF PopUpgrade, IInv, LocalOK
    <3>2. CASE ~(is_write /\ targets = {})
      BY <1>5, <3>2 DEF PopUpgrade, localVars, IInv, LocalOK
    <3> QED BY <3>1, <3>2
  <2>5. DirOK'
    <3> DEFINE e == IF is_write THEN gpd_transition_to_modified(gpd[n], n) ELSE gpd[n]
               r == IF is_write /\ targets # {}
                    THEN [pend[n] EXCEPT !.requester = n, !.type = "REQUEST_PAGE_WRITE",
                            !.client_fd = NoNode,
                            !.expected_acks = Cardinality(targets)]
                    ELSE pend[n]
    <3>1. EntryOK(gpd_transition_to_modified(gpd[n], n))
      BY <2>2, ModifiedEntry
    <3>2. /\ EntryOK(e)
          /\ e.sharers \cup {e.owner} \subseteq node_fds[Coord] \cup {Coord, NoNode}
      BY <2>1, <2>2, <3>1 DEF gpd_transition_to_modified, IInv, DirOK
    <3>3. /\ r \in Pending /\ r.client_fd # Coord
          /\ r.requester \in node_fds[Coord] \cup {Coord, NoNode}
      BY <2>1, <2>2, <2>3, CoordAssumption, NoNodeAssumption
         DEF IInv, DirOK, Pending, NodeOrNone, ReqType
    <3>4. /\ gpd' = [gpd EXCEPT ![Coord] = e]
          /\ pend' = [pend EXCEPT ![Coord] = r]
          /\ node_fds' = [node_fds EXCEPT ![Coord] = node_fds[Coord]]
          /\ node_fds[Coord] \subseteq Nodes \ {Coord}
      BY <1>3, <1>5, <2>1, CoordAssumption DEF PopUpgrade, IInv, DirOK
    <3> HIDE DEF e, r
    <3> QED BY <3>2, <3>3, <3>4, CoordDirStep DEF IInv
  <2>6. ChanOK(chan')
    <3>1. /\ Pkt("INVALIDATE", NoNode) \in Packet
          /\ \A b \in targets \cap Nodes : Permitted(n, b, Pkt("INVALIDATE", NoNode))
      BY <2>1, <2>3, PacketType DEF NodeOrNone, Permitted, Pkt
    <3> QED BY <1>5, <3>1, Sends DEF PopUpgrade, IInv
  <2> QED BY <1>2, <2>4, <2>5, <2>6 DEF IInv
<1>6. CASE PopFetch(n, is_write)
  <2>1. n = Coord
    BY <1>6, CoordAssumption, NoNodeAssumption DEF PopFetch, coordinator_fd
  <2>2. LocalOK'
    BY <1>6 DEF PopFetch, localVars, IInv, LocalOK
  <2>3. DirOK'
    <3> DEFINE r == [pend[n] EXCEPT !.requester = n, !.type = ReqOf(is_write),
                       !.client_fd = NoNode, !.expected_acks = 0]
    <3>0. ReqOf(is_write) \in ReqType /\ pend[n] \in Pending
      BY PacketType DEF IInv, DirOK
    <3>1. /\ r \in Pending /\ r.client_fd # Coord /\ r.requester = Coord
      BY <2>1, <3>0, CoordAssumption, NoNodeAssumption DEF Pending, NodeOrNone
    <3>2. /\ gpd' = [gpd EXCEPT ![Coord] = gpd[Coord]]
          /\ pend' = [pend EXCEPT ![Coord] = r]
          /\ node_fds' = [node_fds EXCEPT ![Coord] = node_fds[Coord]]
          /\ node_fds[Coord] \subseteq Nodes \ {Coord}
          /\ EntryOK(gpd[Coord])
          /\ gpd[Coord].sharers \cup {gpd[Coord].owner}
               \subseteq node_fds[Coord] \cup {Coord, NoNode}
      BY <1>3, <1>6, <2>1, CoordAssumption DEF PopFetch, IInv, DirOK
    <3> HIDE DEF r
    <3> QED BY <3>1, <3>2, CoordDirStep DEF IInv
  <2>4. ChanOK(chan')
    <3>1. Pkt("REQUEST_PAGE_READ", n) \in Packet
      BY PacketType DEF NodeOrNone, ReqType
    <3>2. gpd[n].owner # Coord
      BY <1>6, <2>1 DEF PopFetch, IInv, DirOK
    <3>3. Permitted(n, gpd[n].owner, Pkt("REQUEST_PAGE_READ", n))
      BY <2>1, <3>2 DEF Permitted, Pkt
    <3> QED BY <1>6, <3>1, <3>3, Sends DEF PopFetch, IInv
  <2> QED BY <1>2, <2>2, <2>3, <2>4 DEF IInv
<1>7. CASE PopZeroFill(n, is_write)
  <2>1. n = Coord
    BY <1>7, CoordAssumption, NoNodeAssumption DEF PopZeroFill, coordinator_fd
  <2>2. LocalOK'
    BY <1>7, InstallLocal DEF PopZeroFill, IInv, Content
  <2>3. DirOK'
    <3> DEFINE e == IF is_write THEN gpd_transition_to_modified(gpd[n], n)
                                ELSE gpd_transition_to_shared(gpd[n], n)
    <3>1. EntryOK(gpd[n])
      BY DEF IInv, DirOK
    <3>2. EntryOK(e)
      BY <3>1, ModifiedEntry, SharedEntry
    <3>3. e.sharers \cup {e.owner} \subseteq node_fds[Coord] \cup {Coord, NoNode}
      BY <2>1 DEF gpd_transition_to_modified, gpd_transition_to_shared, IInv, DirOK
    <3>4. /\ gpd' = [gpd EXCEPT ![Coord] = e]
          /\ pend' = [pend EXCEPT ![Coord] = pend[Coord]]
          /\ node_fds' = [node_fds EXCEPT ![Coord] = node_fds[Coord]]
          /\ node_fds[Coord] \subseteq Nodes \ {Coord}
          /\ pend[Coord] \in Pending /\ pend[Coord].client_fd # Coord
          /\ pend[Coord].requester \in node_fds[Coord] \cup {Coord, NoNode}
      BY <1>3, <1>7, <2>1, CoordAssumption DEF PopZeroFill, IInv, DirOK
    <3> HIDE DEF e
    <3> QED BY <3>2, <3>3, <3>4, CoordDirStep DEF IInv
  <2> QED BY <1>2, <1>7, <2>2, <2>3 DEF PopZeroFill, IInv
<1> QED BY <1>0, <1>4, <1>5, <1>6, <1>7

\* What a packet a node takes tells about the node.
LEMMA Sender ==
  ASSUME IInv, NEW n \in Nodes, NEW p \in Nodes, NEW types, Arrived(n, p, types)
  PROVE  LET m == Head(chan[p][n]) IN
         /\ n = Coord => p # Coord /\ m.sender = p /\ m.type # "INVALIDATE"
         /\ n # Coord => /\ p = Coord
                         /\ m.type \in {"REQUEST_PAGE_READ", "SEND_PAGE", "INVALIDATE"}
                         /\ m.type = "REQUEST_PAGE_READ" => m.sender = Coord
         /\ m.payload \in Content
BY Arrival DEF Permitted, Packet

\* MSG_NODE_JOIN reaches the coordinator only.
LEMMA JoinStep ==
  ASSUME IInv, NEW n \in Nodes, NEW p \in Nodes, RecvJoin(n, p)
  PROVE  IInv'
<1> DEFINE m == Head(chan[p][n])
<1>1. /\ n = Coord /\ m.sender = p /\ p # Coord
      /\ ChanOK(chan')
  BY Sender, Arrival DEF RecvJoin
<1>2. DirOK' /\ node_fds[Coord] \subseteq node_fds'[Coord]
  BY <1>1, CoordAssumption DEF RecvJoin, IInv, DirOK, WorkerDirectoryPassive
<1>3. EngineOK'
  BY <1>2, EngineKept DEF RecvJoin, IInv
<1> QED BY <1>1, <1>2, <1>3 DEF RecvJoin, localVars, faultVars, IInv, LocalOK, FaultOK, RestOK

\* The owner's answer to the coordinator's fetch, for a write.
LEMMA AnswerWriteStep ==
  ASSUME IInv, NEW n \in Nodes, NEW p \in Nodes, RecvAnswerWrite(n, p)
  PROVE  IInv'
<1> DEFINE m == Head(chan[p][n])
           w == pend[n].requester
           granted == [pend[n] EXCEPT !.requester = NoNode]
<1>1. n = Coord
  BY CoordAssumption, NoNodeAssumption DEF RecvAnswerWrite, coordinator_fd
<1>2. m \in Packet /\ m.payload \in Content /\ m.type = "SEND_PAGE" /\ ChanOK(Received(n, p))
  BY Sender, Arrival DEF RecvAnswerWrite
<1>3. LocalOK'
  BY <1>2, InvalidateLocal, InstallLocal DEF RecvAnswerWrite, localVars, IInv, LocalOK
<1>4. DirOK' /\ ChanOK(chan)'
  <2>1. pend[n] \in Pending
    BY DEF IInv, DirOK
  <2>2. granted \in Pending /\ granted.client_fd # Coord /\ granted.requester = NoNode
    BY <1>1, <2>1 DEF IInv, DirOK, Pending, NodeOrNone
  <2>3. w \in node_fds[Coord] \cup {Coord}
    BY <1>1 DEF RecvAnswerWrite, IInv, DirOK
  <2>4. pend[n].client_fd \in NodeOrNone \ {Coord}
    BY <1>1, <2>1 DEF IInv, DirOK, Pending
  <2>5. /\ node_fds' = [node_fds EXCEPT ![Coord] = node_fds[Coord]]
        /\ node_fds[Coord] \subseteq Nodes \ {Coord}
    BY CoordAssumption DEF RecvAnswerWrite, IInv, DirOK
  <2>6. GrantWrite(Coord, w, pend[n].client_fd, m.payload, Received(n, p), granted, m)
    BY <1>1 DEF RecvAnswerWrite
  <2> HIDE DEF m, w, granted
  <2> QED BY <1>2, <2>2, <2>3, <2>4, <2>5, <2>6, Grants DEF IInv
<1>5. EngineOK'
  BY EngineKept DEF RecvAnswerWrite, IInv
<1> QED BY <1>3, <1>4, <1>5 DEF RecvAnswerWrite, faultVars, IInv, FaultOK, RestOK

\* The owner's answer to the coordinator's fetch, for a read.
LEMMA AnswerReadStep ==
  ASSUME IInv, NEW n \in Nodes, NEW p \in Nodes, RecvAnswerRead(n, p)
  PROVE  IInv'
<1> DEFINE m == Head(chan[p][n])
           r == pend[n].requester
           e == gpd_transition_to_shared(gpd[Coord], r)
           q == [pend[n] EXCEPT !.requester = NoNode]
<1>1. n = Coord
  BY CoordAssumption, NoNodeAssumption DEF RecvAnswerRead, coordinator_fd
<1>2. m \in Packet /\ m.payload \in Content /\ m.type = "SEND_PAGE" /\ ChanOK(Received(n, p))
  BY Sender, Arrival DEF RecvAnswerRead
<1>3. LocalOK'
  BY <1>2, InstallLocal DEF RecvAnswerRead, localVars, IInv, LocalOK
<1>4. DirOK'
  <2>1. pend[n] \in Pending /\ EntryOK(gpd[Coord])
    BY CoordAssumption DEF IInv, DirOK
  <2>2. q \in Pending /\ q.client_fd # Coord /\ q.requester = NoNode
    BY <1>1, <2>1 DEF IInv, DirOK, Pending, NodeOrNone
  <2>3. r \in node_fds[Coord] \cup {Coord} /\ r \in Nodes
    BY <1>1, CoordAssumption DEF RecvAnswerRead, IInv, DirOK
  <2>4. EntryOK(e)
    BY <2>1, <2>3, SharedEntry
  <2>5. e.sharers \cup {e.owner} \subseteq node_fds[Coord] \cup {Coord, NoNode}
    BY <2>3 DEF gpd_transition_to_shared, IInv, DirOK
  <2>6. /\ gpd' = [gpd EXCEPT ![Coord] = e]
        /\ pend' = [pend EXCEPT ![Coord] = q]
        /\ node_fds' = [node_fds EXCEPT ![Coord] = node_fds[Coord]]
        /\ node_fds[Coord] \subseteq Nodes \ {Coord}
    BY <1>1, CoordAssumption DEF RecvAnswerRead, IInv, DirOK
  <2> HIDE DEF e, q
  <2> QED BY <2>2, <2>4, <2>5, <2>6, CoordDirStep DEF IInv
<1>5. ChanOK(chan')
  <2>1. \A b \in {pend[n].client_fd} \cap Nodes : Permitted(n, b, m)
    BY <1>1, <1>2 DEF IInv, DirOK, Permitted
  <2> QED BY <1>2, <2>1, Sends DEF RecvAnswerRead
<1>6. EngineOK'
  BY EngineKept DEF RecvAnswerRead, IInv
<1> QED BY <1>3, <1>4, <1>5, <1>6 DEF RecvAnswerRead, faultVars, IInv, FaultOK, RestOK

\* A page for the node itself.
LEMMA PageStep ==
  ASSUME IInv, NEW n \in Nodes, NEW p \in Nodes, RecvPage(n, p)
  PROVE  IInv'
<1> DEFINE m == Head(chan[p][n])
<1>1. m.payload \in Content /\ ChanOK(chan')
  BY Sender, Arrival DEF RecvPage
<1>2. LocalOK'
  <2>1. CASE LiftProtection(n) /\ accessed' = [accessed EXCEPT ![n] = TRUE]
    BY <2>1, LiftLocal DEF IInv, LocalOK
  <2>2. CASE InstallPage(n, m.payload)
    BY <1>1, <2>2, InstallLocal DEF IInv
  <2>3. CASE UNCHANGED localVars
    BY <2>3 DEF IInv, LocalOK, localVars
  <2> QED BY <2>1, <2>2, <2>3 DEF RecvPage
<1>3. EngineOK' /\ DirOK'
  BY DEF RecvPage, IInv, EngineOK, DirOK, WorkerDirectoryPassive
<1> QED BY <1>1, <1>2, <1>3 DEF RecvPage, faultVars, IInv, FaultOK, RestOK

\* MSG_INVALIDATE reaches workers only, and their ack the coordinator.
LEMMA InvalidateStep ==
  ASSUME IInv, NEW n \in Nodes, NEW p \in Nodes, RecvInvalidate(n, p)
  PROVE  IInv'
<1>1. n # Coord /\ coordinator_fd(n) = Coord /\ coordinator_fd(n) # NoNode
  BY Sender, Arrival, CoordAssumption, NoNodeAssumption DEF RecvInvalidate, coordinator_fd
<1>2. LocalOK'
  BY InvalidateLocal DEF RecvInvalidate, IInv
<1>3. ChanOK(chan')
  <2>1. /\ Pkt("INVALIDATE_ACK", n) \in Packet
        /\ Permitted(n, Coord, Pkt("INVALIDATE_ACK", n))
    BY <1>1, PacketType DEF NodeOrNone, Permitted, Pkt
  <2>2. ChanOK(Received(n, p))
    BY Arrival DEF RecvInvalidate
  <2>3. chan' = Send(Received(n, p), n, {Coord}, Pkt("INVALIDATE_ACK", n))
    BY <1>1 DEF RecvInvalidate
  <2> QED BY <2>1, <2>2, <2>3, Sends
<1>4. EngineOK' /\ DirOK'
  BY DEF RecvInvalidate, IInv, EngineOK, DirOK, WorkerDirectoryPassive
<1> QED BY <1>2, <1>3, <1>4 DEF RecvInvalidate, faultVars, IInv, FaultOK, RestOK

\* MSG_INVALIDATE_ACK reaches the coordinator only.
LEMMA AckStep ==
  ASSUME IInv, NEW n \in Nodes, NEW p \in Nodes, RecvAck(n, p)
  PROVE  IInv'
<1>1. n = Coord
  BY Sender, Arrival DEF RecvAck
<1>2. pend[n] \in Pending /\ pend[n].deferred_payload \in Content
  BY DEF IInv, DirOK, Pending
<1>3. ChanOK(Received(n, p))
  BY Arrival DEF RecvAck
<1>4. LocalOK'
  <2>1. CASE UNCHANGED localVars
    BY <2>1 DEF IInv, LocalOK, localVars
  <2>2. CASE LiftProtection(n) /\ accessed' = [accessed EXCEPT ![n] = TRUE]
    BY <2>2, LiftLocal DEF IInv, LocalOK
  <2>3. CASE InstallPage(n, pend[n].deferred_payload)
    BY <1>2, <2>3, InstallLocal DEF IInv
  <2> QED BY <2>1, <2>2, <2>3 DEF RecvAck
<1>5. DirOK'
  <2> DEFINE r == pend'[Coord]
  <2>1. /\ pend' = [pend EXCEPT ![Coord] = r]
        /\ r \in Pending
        /\ r.requester \in {pend[Coord].requester, NoNode}
        /\ r.client_fd = pend[Coord].client_fd
    <3>1. CASE pend' = pend
      BY <1>1, <1>2, <3>1 DEF IInv, DirOK
    <3>2. CASE /\ pend[n].expected_acks - 1 > 0
               /\ pend' = [pend EXCEPT ![n].expected_acks = pend[n].expected_acks - 1]
      BY <1>1, <1>2, <3>2 DEF IInv, DirOK, Pending
    <3>3. CASE pend' = [pend EXCEPT ![n].expected_acks = 0, ![n].requester = NoNode]
      BY <1>1, <1>2, <3>3 DEF IInv, DirOK, Pending, NodeOrNone
    <3> QED BY <3>1, <3>2, <3>3 DEF RecvAck
  <2>2. /\ gpd' = [gpd EXCEPT ![Coord] = gpd[Coord]]
        /\ node_fds' = [node_fds EXCEPT ![Coord] = node_fds[Coord]]
        /\ node_fds[Coord] \subseteq Nodes \ {Coord}
        /\ EntryOK(gpd[Coord])
        /\ gpd[Coord].sharers \cup {gpd[Coord].owner}
             \subseteq node_fds[Coord] \cup {Coord, NoNode}
        /\ r.requester \in node_fds[Coord] \cup {Coord, NoNode}
        /\ r.client_fd # Coord
    BY <2>1, CoordAssumption DEF RecvAck, IInv, DirOK
  <2> HIDE DEF r
  <2> QED BY <2>1, <2>2, CoordDirStep DEF IInv
<1>6. ChanOK(chan')
  <2>1. /\ Page(n, pend[n].deferred_payload) \in Packet
        /\ \A b \in {pend[n].client_fd} \cap Nodes :
             Permitted(n, b, Page(n, pend[n].deferred_payload))
    BY <1>1, <1>2, PacketType DEF IInv, DirOK, Permitted, Page
  <2>2. \/ chan' = Received(n, p)
        \/ chan' = Send(Received(n, p), n, {pend[n].client_fd},
                        Page(n, pend[n].deferred_payload))
    BY DEF RecvAck
  <2> QED BY <1>3, <2>1, <2>2, Sends
<1>7. EngineOK'
  BY EngineKept DEF RecvAck, IInv
<1> QED BY <1>4, <1>5, <1>6, <1>7 DEF RecvAck, faultVars, IInv, FaultOK, RestOK

\* A request registers its sender, which is the node at the other end.
LEMMA Registers ==
  ASSUME IInv, NEW n \in Nodes, NEW p \in Nodes, RecvRequest(n, p)
  PROVE  LET m == Head(chan[p][n]) IN
         /\ m.sender = p /\ m.type \in ReqType /\ m \in Packet
         /\ n = Coord => p # Coord
         /\ n # Coord => p = Coord /\ m.type = "REQUEST_PAGE_READ"
         /\ node_fds' = [node_fds EXCEPT ![n] = node_fds[n] \cup {p}]
         /\ node_fds'[n] = node_fds[n] \cup {p}
         /\ node_fds[Coord] \subseteq node_fds'[Coord]
         /\ n = Coord => node_fds'[n] \subseteq Nodes \ {Coord}
         /\ ChanOK(Received(n, p))
<1> DEFINE m == Head(chan[p][n])
<1>1. /\ m \in Packet /\ m.type \in ReqType /\ ChanOK(Received(n, p))
      /\ n = Coord => p # Coord /\ m.sender = p
      /\ n # Coord => p = Coord /\ m.type = "REQUEST_PAGE_READ" /\ m.sender = Coord
  BY Sender, Arrival DEF RecvRequest, ReqType
<1>2. node_fds \in [Nodes -> SUBSET Nodes] /\ Coord \notin node_fds[Coord]
  BY DEF IInv, DirOK
<1>3. node_fds' = [node_fds EXCEPT ![n] = node_fds[n] \cup {p}]
  BY <1>1 DEF RecvRequest
<1> QED BY <1>1, <1>2, <1>3, CoordAssumption

\* Registering a sender alone.
LEMMA RegistersDir ==
  ASSUME IInv, NEW n \in Nodes, NEW p \in Nodes, RecvRequest(n, p), UNCHANGED <<gpd, pend>>
  PROVE  DirOK'
BY Registers, CoordAssumption DEF IInv, DirOK, WorkerDirectoryPassive, Workers

\* A request for a page that is valid here: the engine copies it.
LEMMA RequestServeStep ==
  ASSUME IInv, NEW n \in Nodes, NEW p \in Nodes, RecvRequestServe(n, p)
  PROVE  IInv'
<1> DEFINE m == Head(chan[p][n])
<1>1. RecvRequest(n, p)
  BY DEF RecvRequestServe
<1>2. DirOK'
  BY <1>1, RegistersDir DEF RecvRequestServe
<1>3. EngineOK'
  <2>1. mem[n].val \in Content
    BY DEF IInv, LocalOK, Mapping
  <2>2. m.type \in ReqType /\ p \in NodeOrNone
    BY <1>1, Registers DEF NodeOrNone
  <2>3. engine' = [engine EXCEPT ![n] =
            [pc |-> IF mem[n].mapped THEN "serve" ELSE "faulted",
             fd |-> p, type |-> m.type, payload |-> mem[n].val]]
    BY DEF RecvRequestServe
  <2>4. engine' \in [Nodes -> Engine]
    BY <2>1, <2>2, <2>3 DEF IInv, EngineOK, Engine
  <2> QED BY <1>1, <2>2, <2>3, <2>4, Registers DEF IInv, EngineOK
<1>4. ChanOK(chan')
  BY <1>1, Registers DEF RecvRequestServe
<1> QED BY <1>1, <1>2, <1>3, <1>4 DEF RecvRequestServe, RecvRequest, localVars, faultVars,
              IInv, LocalOK, FaultOK, RestOK

\* A request the coordinator passes on to the owner as a read.
LEMMA RequestFetchStep ==
  ASSUME IInv, NEW n \in Nodes, NEW p \in Nodes, RecvRequestFetch(n, p)
  PROVE  IInv'
<1> DEFINE m == Head(chan[p][n])
           F == node_fds'[Coord]
           r == [pend[n] EXCEPT !.requester = m.sender, !.type = m.type,
                                !.client_fd = p, !.expected_acks = 0]
<1>1. RecvRequest(n, p)
  BY DEF RecvRequestFetch
<1>2. n = Coord
  <2>1. SUFFICES ASSUME n # Coord PROVE FALSE
    OBVIOUS
  <2>2. gpd[n].owner = NoNode
    BY <2>1 DEF IInv, DirOK, WorkerDirectoryPassive, Workers
  <2>3. node_fds'[n] \subseteq Nodes
    BY <1>1, Registers DEF IInv, DirOK
  <2> QED BY <2>2, <2>3, NoNodeAssumption DEF RecvRequestFetch
<1>3. DirOK'
  <2>1. pend[n] \in Pending
    BY DEF IInv, DirOK
  <2>0. m.sender = p /\ m.type \in ReqType /\ p \in NodeOrNone /\ p # Coord /\ p \in F
    BY <1>1, <1>2, Registers DEF NodeOrNone
  <2>2. r \in Pending /\ r.client_fd # Coord /\ r.requester \in F
    <3> HIDE DEF m, F
    <3> QED BY <2>0, <2>1 DEF Pending
  <2>3. /\ gpd' = [gpd EXCEPT ![Coord] = gpd[Coord]]
        /\ pend' = [pend EXCEPT ![Coord] = r]
        /\ EntryOK(gpd[Coord])
    BY <1>2 DEF RecvRequestFetch, IInv, DirOK
  <2>4. /\ node_fds' = [node_fds EXCEPT ![Coord] = F]
        /\ F \subseteq Nodes \ {Coord}
        /\ node_fds[Coord] \subseteq F
    BY <1>1, <1>2, Registers
  <2>5. gpd[Coord].sharers \cup {gpd[Coord].owner} \subseteq F \cup {Coord, NoNode}
    BY <2>4 DEF IInv, DirOK
  <2> HIDE DEF r, F
  <2> QED BY <2>2, <2>3, <2>4, <2>5, CoordDirStep DEF IInv
<1>4. ChanOK(chan')
  <2>1. Pkt("REQUEST_PAGE_READ", n) \in Packet
    BY PacketType DEF NodeOrNone, ReqType
  <2>2. gpd[n].owner # Coord
    BY <1>1, <1>2, Registers DEF RecvRequestFetch
  <2>3. Permitted(n, gpd[n].owner, Pkt("REQUEST_PAGE_READ", n))
    BY <1>2, <2>2 DEF Permitted, Pkt
  <2>4. ChanOK(Received(n, p))
    BY <1>1, Registers
  <2> QED BY <2>1, <2>3, <2>4, Sends DEF RecvRequestFetch
<1>5. EngineOK'
  BY <1>1, Registers, EngineKept DEF RecvRequestFetch, IInv
<1> QED BY <1>1, <1>3, <1>4, <1>5 DEF RecvRequestFetch, RecvRequest, localVars, faultVars,
              IInv, LocalOK, FaultOK, RestOK

\* A request answered with a page of zeros.
LEMMA RequestZeroStep ==
  ASSUME IInv, NEW n \in Nodes, NEW p \in Nodes, RecvRequestZero(n, p)
  PROVE  IInv'
<1> DEFINE m == Head(chan[p][n])
           F == node_fds'[Coord]
<1>1. RecvRequest(n, p)
  BY DEF RecvRequestZero
<1>2. {} \in Content /\ Page(n, {}) \in Packet /\ Page(n, {}).type = "SEND_PAGE"
  BY PacketType DEF Content, Page
<1>3. LocalOK'
  BY InvalidateLocal DEF RecvRequestZero, localVars, IInv, LocalOK
<1>4. ASSUME n = Coord
      PROVE  /\ node_fds' = [node_fds EXCEPT ![Coord] = F]
             /\ F \subseteq Nodes \ {Coord} /\ node_fds[Coord] \subseteq F
             /\ p \in F /\ p # Coord
  BY <1>1, <1>4, Registers
<1>5. DirOK' /\ ChanOK(chan)'
  <2>1. CASE m.type = "REQUEST_PAGE_WRITE"
    <3>1. n = Coord
      BY <1>1, <2>1, Registers
    <3>2. /\ pend[n] \in Pending /\ pend[n].client_fd # Coord
          /\ pend[n].requester \in F \cup {Coord, NoNode}
      BY <1>4, <3>1 DEF IInv, DirOK
    <3>3. GrantWrite(Coord, p, p, {}, Received(n, p), pend[n], Page(n, {}))
      BY <1>1, <2>1, <3>1, Registers DEF RecvRequestZero
    <3>4. ChanOK(Received(n, p)) /\ p \in NodeOrNone \ {Coord}
      BY <1>1, <1>4, <3>1, Registers DEF NodeOrNone
    <3> HIDE DEF F
    <3> QED BY <1>2, <1>4, <3>1, <3>2, <3>3, <3>4, Grants DEF IInv
  <2>2. CASE m.type # "REQUEST_PAGE_WRITE"
    <3> DEFINE e == gpd_transition_to_shared(gpd[n], p)
    <3>1. /\ gpd' = [gpd EXCEPT ![n] = e]
          /\ UNCHANGED pend
          /\ chan' = Send(Received(n, p), n, {p}, Page(n, {}))
      BY <1>1, <2>2, Registers DEF RecvRequestZero
    <3>2. EntryOK(gpd[n])
      BY DEF IInv, DirOK
    <3>3. EntryOK(e) /\ e.owner = NoNode
      BY <3>2, SharedEntry
    <3>4. DirOK'
      <4>1. CASE n = Coord
        <5>1. e.sharers \cup {e.owner} \subseteq F \cup {Coord, NoNode}
          BY <1>4, <4>1 DEF gpd_transition_to_shared, IInv, DirOK
        <5>2. /\ pend' = [pend EXCEPT ![Coord] = pend[Coord]]
              /\ pend[Coord] \in Pending /\ pend[Coord].client_fd # Coord
              /\ pend[Coord].requester \in F \cup {Coord, NoNode}
          BY <1>4, <3>1, <4>1 DEF IInv, DirOK
        <5> HIDE DEF e, F
        <5> QED BY <1>4, <3>1, <3>3, <4>1, <5>1, <5>2, CoordDirStep DEF IInv
      <4>2. CASE n # Coord
        <5>1. /\ n \in Workers
              /\ node_fds' = [node_fds EXCEPT ![n] = node_fds[n] \cup {p}]
              /\ node_fds[n] \cup {p} \in SUBSET Nodes
          BY <1>1, <4>2, Registers DEF Workers, IInv, DirOK
        <5> HIDE DEF e
        <5> QED BY <3>1, <3>3, <5>1, WorkerDirStep DEF IInv
      <4> QED BY <4>1, <4>2
    <3>5. Permitted(n, p, Page(n, {})) /\ ChanOK(Received(n, p))
      BY <1>1, Registers DEF Permitted, Page
    <3> QED BY <1>2, <3>1, <3>4, <3>5, Sends
  <2> QED BY <2>1, <2>2
<1>6. EngineOK'
  BY <1>1, Registers, EngineKept DEF RecvRequestZero, IInv
<1> QED BY <1>1, <1>3, <1>5, <1>6 DEF RecvRequestZero, RecvRequest, faultVars,
              IInv, FaultOK, RestOK

\* A page that was copied under the page lock is handed over, with the
\* ownership (ServeWrite) or as one more copy (ServeRead).
LEMMA ServeStep ==
  ASSUME IInv, NEW n \in Nodes, Serve(n)
  PROVE  IInv'
<1> DEFINE q == engine[n].fd
           v == engine[n].payload
<1>1. /\ engine[n] \in Engine /\ engine[n].pc = "serve"
      /\ engine' = [engine EXCEPT ![n] = Looping]
      /\ UNCHANGED node_fds
  BY DEF Serve, ServeWrite, ServeRead, IInv, EngineOK
<1>2. /\ n = Coord => q \in node_fds[Coord]
      /\ n # Coord => q = Coord /\ engine[n].type = "REQUEST_PAGE_READ"
      /\ q \in NodeOrNone /\ v \in Content
  BY <1>1 DEF IInv, EngineOK, Engine
<1>3. q \in Nodes /\ (n = Coord => q # Coord)
  BY <1>2, CoordAssumption DEF IInv, DirOK
<1>4. EngineOK'
  BY <1>1 DEF IInv, EngineOK, Engine, Looping, NodeOrNone, Content
<1>5. Page(n, v) \in Packet /\ Page(n, v).type = "SEND_PAGE"
  BY <1>2, PacketType DEF Page
<1>6. CASE ServeWrite(n)
  <2>1. n = Coord
    BY <1>2, <1>6 DEF ServeWrite
  <2>2. /\ node_fds' = [node_fds EXCEPT ![Coord] = node_fds[Coord]]
        /\ node_fds[Coord] \subseteq Nodes \ {Coord}
        /\ pend[n] \in Pending /\ pend[n].client_fd # Coord
        /\ pend[n].requester \in node_fds[Coord] \cup {Coord, NoNode}
    BY <1>1, <2>1, CoordAssumption DEF IInv, DirOK
  <2>3. GrantWrite(Coord, q, q, v, chan, pend[n], Page(n, v))
    BY <1>6, <2>1 DEF ServeWrite
  <2>4. q \in node_fds[Coord] /\ q \in NodeOrNone \ {Coord}
    BY <1>2, <1>3, <2>1
  <2>5. DirOK' /\ ChanOK(chan)'
    <3> HIDE DEF q, v
    <3> QED BY <1>2, <1>5, <2>2, <2>3, <2>4, Grants DEF IInv
  <2>6. LocalOK'
    BY <1>6, InvalidateLocal DEF ServeWrite, IInv
  <2> QED BY <1>4, <1>6, <2>5, <2>6 DEF ServeWrite, faultVars, IInv, FaultOK, RestOK
<1>7. CASE ServeRead(n)
  <2> DEFINE e == gpd_transition_to_shared(gpd[n], q)
  <2>1. EntryOK(e) /\ e.owner = NoNode
    BY <1>3, SharedEntry DEF IInv, DirOK
  <2>2. gpd' = [gpd EXCEPT ![n] = e] /\ UNCHANGED pend
    BY <1>7 DEF ServeRead
  <2>3. DirOK'
    <3>1. CASE n = Coord
      <4>1. e.sharers \cup {e.owner} \subseteq node_fds[Coord] \cup {Coord, NoNode}
        BY <1>2, <3>1 DEF gpd_transition_to_shared, IInv, DirOK
      <4>2. /\ pend' = [pend EXCEPT ![Coord] = pend[Coord]]
            /\ pend[Coord] \in Pending /\ pend[Coord].client_fd # Coord
            /\ pend[Coord].requester \in node_fds[Coord] \cup {Coord, NoNode}
            /\ node_fds' = [node_fds EXCEPT ![Coord] = node_fds[Coord]]
            /\ node_fds[Coord] \subseteq Nodes \ {Coord}
        BY <1>1, <2>2, CoordAssumption DEF IInv, DirOK
      <4> HIDE DEF e
      <4> QED BY <2>1, <2>2, <3>1, <4>1, <4>2, CoordDirStep DEF IInv
    <3>2. CASE n # Coord
      <4>1. /\ n \in Workers
            /\ node_fds' = [node_fds EXCEPT ![n] = node_fds[n]]
            /\ node_fds[n] \in SUBSET Nodes
        BY <1>1, <3>2 DEF Workers, IInv, DirOK
      <4> HIDE DEF e
      <4> QED BY <2>1, <2>2, <4>1, WorkerDirStep DEF IInv
    <3> QED BY <3>1, <3>2
  <2>4. ChanOK(chan')
    <3>1. Permitted(n, q, Page(n, v))
      BY <1>2, <1>3 DEF Permitted, Page
    <3> QED BY <1>5, <1>7, <3>1, Sends DEF ServeRead, IInv
  <2>5. LocalOK'
    BY <1>7, ProtectLocal DEF ServeRead, localVars, IInv, LocalOK
  <2> QED BY <1>4, <1>7, <2>3, <2>4, <2>5 DEF ServeRead, faultVars, IInv, FaultOK, RestOK
<1> QED BY <1>6, <1>7 DEF Serve

\* The clock hand visits the page on a worker: what eviction does to the
\* worker's own directory entry leaves it without an owner.
LEMMA EvictStep ==
  ASSUME IInv, NEW n \in Nodes, EvictVisit(n)
  PROVE  IInv'
<1>1. n \in Workers
  BY DEF EvictVisit, coordinator_fd, Workers
<1>2. gpd[n] \in Entry /\ EntryOK(gpd[n]) /\ gpd[n].owner = NoNode
  BY <1>1 DEF IInv, DirOK, WorkerDirectoryPassive
<1>3. LocalOK' /\ RestOK'
  <2>1. Unmapped \in Mapping
    BY DEF Unmapped, Mapping, Content
  <2>2. CASE EvictInspect(n)
    BY <2>2 DEF EvictInspect, IInv, LocalOK, RestOK, RingEntry
  <2>3. CASE EvictPage(n)
    BY <2>1, <2>3 DEF EvictPage, IInv, LocalOK, RestOK, RingEntry
  <2> QED BY <2>2, <2>3 DEF EvictVisit
<1>4. ChanOK(chan')
  <2>1. get_local_msi_state(gpd[n], n) # "MODIFIED"
    BY <1>2, NoNodeAssumption DEF get_local_msi_state
  <2> QED BY <2>1 DEF EvictVisit, EvictInspect, EvictPage, IInv
<1>5. DirOK'
  <2>1. CASE gpd' = gpd
    BY <2>1 DEF EvictVisit, EvictInspect, EvictPage, IInv, DirOK, WorkerDirectoryPassive
  <2>2. CASE gpd' = [gpd EXCEPT ![n] = set_local_msi_state_invalid(@, n)]
    <3> DEFINE e == set_local_msi_state_invalid(gpd[n], n)
    <3>1. EntryOK(e) /\ e.owner = NoNode
      BY <1>2, NoNodeAssumption
         DEF set_local_msi_state_invalid, EntryOK, Entry, MsiState
    <3>2. /\ gpd' = [gpd EXCEPT ![n] = e] /\ UNCHANGED pend
          /\ node_fds' = [node_fds EXCEPT ![n] = node_fds[n]]
          /\ node_fds[n] \in SUBSET Nodes
      BY <2>2 DEF EvictVisit, EvictInspect, EvictPage, IInv, DirOK
    <3> HIDE DEF e
    <3> QED BY <1>1, <3>1, <3>2, WorkerDirStep DEF IInv
  <2> QED BY <2>1, <2>2 DEF EvictVisit, EvictInspect, EvictPage
<1> QED BY <1>3, <1>4, <1>5
        DEF EvictVisit, EvictInspect, EvictPage, faultVars, IInv, FaultOK, EngineOK

\* The invariant holds when the workers have connected.
LEMMA InitIInv == Init => IInv
<1> SUFFICES ASSUME Init PROVE IInv
  OBVIOUS
<1>1. LocalOK
  BY DEF Init, LocalOK, Thread, Running, Mapping, Unmapped, Content, PageStatus
<1>2. FaultOK /\ RestOK
  BY BoundAssumption DEF Init, FaultOK, RestOK, RingEntry
<1>3. EngineOK
  BY DEF Init, EngineOK, Engine, Looping, NodeOrNone, Content
<1>4. DirOK
  <2>1. NoPending \in Pending /\ EntryOK(gpd_init) /\ gpd_init.owner = NoNode
        /\ gpd_init.sharers = {} /\ NoPending.requester = NoNode
        /\ NoPending.client_fd = NoNode
    BY DEF NoPending, Pending, NodeOrNone, Content, gpd_init, EntryOK, Entry, MsiState
  <2> QED BY <2>1, CoordAssumption, NoNodeAssumption
          DEF Init, DirOK, WorkerDirectoryPassive, Workers, EntryOK
<1>5. ChanOK(chan)
  <2>1. PICK joins \in SUBSET Workers :
          chan = [a \in Nodes |-> [b \in Nodes |->
                    IF a \in joins /\ b = Coord
                    THEN <<Pkt("NODE_JOIN", a)>> ELSE << >>]]
    BY DEF Init
  <2>2. \A a \in Nodes : Pkt("NODE_JOIN", a) \in Packet
    BY PacketType DEF NodeOrNone
  <2>3. \A a, b \in Nodes : \/ chan[a][b] = << >>
                            \/ /\ chan[a][b] = <<Pkt("NODE_JOIN", a)>>
                               /\ a # Coord /\ b = Coord
    BY <2>1 DEF Workers
  <2>4. chan \in [Nodes -> [Nodes -> Seq(Packet)]]
    BY <2>1, <2>2
  <2>5. ASSUME NEW a \in Nodes, NEW b \in Nodes, NEW i \in DOMAIN chan[a][b]
        PROVE  Permitted(a, b, chan[a][b][i])
    <3>1. /\ chan[a][b] = <<Pkt("NODE_JOIN", a)>> /\ a # Coord /\ b = Coord
      BY <2>3, <2>5
    <3>2. chan[a][b][i] = Pkt("NODE_JOIN", a)
      BY <3>1, <2>5
    <3> QED BY <3>1, <3>2 DEF Permitted, Pkt
  <2> QED BY <2>4, <2>5 DEF ChanOK
<1> QED BY <1>1, <1>2, <1>3, <1>4, <1>5 DEF IInv

\* Every step of the system preserves the invariant.
LEMMA NextIInv == IInv /\ [Next]_vars => IInv'
<1> SUFFICES ASSUME IInv, [Next]_vars PROVE IInv'
  OBVIOUS
<1>1. ASSUME NEW t \in Threads, App(t) PROVE IInv'
  BY <1>1, AppStep
<1>2. ASSUME NEW n \in Nodes,
             FaultHandler(n) \/ QueueSession(n) \/ Serve(n) \/ EvictVisit(n)
      PROVE  IInv'
  BY <1>2, FaultHandlerStep, QueueSessionStep, ServeStep, EvictStep
<1>3. ASSUME NEW n \in Nodes, NEW p \in Nodes, PeerSession(n, p)
      PROVE  IInv'
  BY <1>3, JoinStep, AnswerWriteStep, AnswerReadStep, PageStep, InvalidateStep, AckStep,
     RequestServeStep, RequestFetchStep, RequestZeroStep DEF PeerSession
<1>4. CASE UNCHANGED vars
  BY <1>4 DEF vars, IInv, LocalOK, FaultOK, RestOK, EngineOK, DirOK, WorkerDirectoryPassive
<1> QED BY <1>1, <1>2, <1>3, <1>4 DEF Next

\* The invariant holds throughout.
LEMMA Invariance == Spec => []IInv
BY InitIInv, NextIInv, PTL DEF Spec

----------------------------------------------------------------------------
(* The theorems. *)

\* Every variable keeps its type: in particular the request queue never holds
\* more than QUEUE_CAPACITY requests, and gpd_transition_to_shared never sets
\* the bit of node 0 although it shifts by the old owner unchecked.
THEOREM TypeCorrect == Spec => []TypeOK
BY Invariance, IInvImplies, PTL

\* In every directory the state, the owner and the bitmap agree, as the two
\* transitions of gpd.c and the eviction's set_local_msi_state leave them.
THEOREM DirectoryCorrect == Spec => []DirectoryConsistent
BY Invariance, IInvImplies, PTL

\* Packets travel between coordinator and workers only, requests carry the id
\* of the node they come from, and ownership is never asked of a worker.
THEOREM ChannelsCorrect == Spec => []ChannelDiscipline
BY Invariance, IInvImplies, PTL

\* The coordinator can reach every holder its directory lists, even one whose
\* NODE_JOIN was lost: no invalidation is left out.
THEOREM HoldersReachable == Spec => []HoldersRegistered
BY Invariance, IInvImplies, PTL

\* No worker ever owns the page in its own directory, so the write-back of
\* dsm_execute_eviction is not reached, for any number of nodes.
THEOREM WorkersPassive == Spec => []WorkerDirectoryPassive
BY Invariance, IInvImplies, PTL

----------------------------------------------------------------------------
(* The page table and the mapping, once the eviction ring is exhausted.     *)
(* ValidIsMapped is inductive with the types and with the fact that every   *)
(* ring entry is evicted; elsewhere eviction would unmap a VALID page.      *)

MappedInv == IInv /\ (\A n \in Nodes : ring[n] = "evicted") /\ ValidIsMapped

\* Every step but an eviction unmaps the page only together with its status,
\* and makes the status VALID only together with a mapping.
LEMMA MappedStep == MappedInv /\ [Next]_vars => MappedInv'
<1> SUFFICES ASSUME MappedInv, [Next]_vars PROVE MappedInv'
  OBVIOUS
<1>1. IInv'
  BY NextIInv DEF MappedInv
<1>2. IInv
  BY DEF MappedInv
<1>3. /\ mem \in [Nodes -> Mapping] /\ status \in [Nodes -> PageStatus]
      /\ engine \in [Nodes -> Engine]
      /\ \A n \in Nodes : /\ ring[n] = "evicted"
                          /\ Present(n) => mem[n].mapped
                          /\ engine[n].pc # "faulted"
  BY DEF MappedInv, IInv, LocalOK, EngineOK, ValidIsMapped
<1> DEFINE Done == \A n \in Nodes : Present(n)' => mem'[n].mapped
<1>4. ASSUME UNCHANGED localVars PROVE Done
  BY <1>3, <1>4 DEF localVars, Present
<1>5. ASSUME NEW n \in Nodes, NEW v, InstallPage(n, v) PROVE Done
  BY <1>3, <1>5 DEF InstallPage, Present
<1>6. ASSUME NEW n \in Nodes, LiftProtection(n), Present(n) PROVE Done
  BY <1>3, <1>6 DEF LiftProtection, Present, Mapping
<1>7. ASSUME NEW n \in Nodes, invalidate_local_page_copy(n) PROVE Done
  BY <1>3, <1>7 DEF invalidate_local_page_copy, Present
<1>8. ASSUME NEW n \in Nodes, writeprotect_local_page_copy(n) PROVE Done
  BY <1>3, <1>8 DEF writeprotect_local_page_copy, Present, Mapping
<1> DEFINE Good == Done /\ UNCHANGED ring /\ \A n \in Nodes : engine'[n].pc # "faulted"
<1>9. ASSUME NEW t \in Threads, App(t) PROVE Good
  <2>1. NodeOf[t] \in Nodes
    BY ThreadAssumption
  <2>2. CASE Load(t)
    BY <1>3, <2>2 DEF Load, Present
  <2>3. CASE Store(t)
    BY <1>3, <2>1, <2>3 DEF Store, Present, Mapping
  <2>4. ASSUME NEW op \in {"R", "W"}, Fault(t, op) PROVE Good
    BY <1>3, <2>4 DEF Fault, Present
  <2> QED BY <1>9, <2>2, <2>3, <2>4 DEF App
<1>10. ASSUME NEW n \in Nodes, FaultHandler(n) PROVE Good
  <2>1. ASSUME NEW t \in Threads, ReadFault(n, t) PROVE Good
    BY <1>3, <2>1 DEF ReadFault, Present
  <2>2. CASE HandleFault(n)
    BY <1>3, <2>2 DEF HandleFault, appVars, Present
  <2> QED BY <1>10, <2>1, <2>2 DEF FaultHandler
<1>11. ASSUME NEW n \in Nodes, QueueSession(n) PROVE Good
  <2>1. PICK is_write \in BOOLEAN : \/ PopForward(n, is_write)
                                    \/ PopUpgrade(n, is_write)
                                    \/ PopFetch(n, is_write)
                                    \/ PopZeroFill(n, is_write)
    BY <1>11 DEF QueueSession
  <2>2. UNCHANGED ring /\ \A k \in Nodes : engine'[k].pc # "faulted"
    <3>1. Popping(n, is_write)
      BY <2>1 DEF PopForward, PopUpgrade, PopFetch, PopZeroFill
    <3> QED BY <1>3, <3>1 DEF Popping, Engine
  <2>3. Done
    <3> HIDE DEF Done
    <3> QED BY <1>4, <1>5, <1>6, <2>1 DEF PopForward, PopUpgrade, PopFetch, PopZeroFill
  <2> QED BY <2>2, <2>3
<1>12. ASSUME NEW n \in Nodes, NEW p \in Nodes, PeerSession(n, p) PROVE Good
  <2>1. UNCHANGED ring
    BY <1>12 DEF PeerSession, RecvJoin, RecvAnswerWrite, RecvAnswerRead, RecvPage,
       RecvInvalidate, RecvAck, RecvRequestServe, RecvRequestFetch, RecvRequestZero, RecvRequest
  <2>2. \A k \in Nodes : engine'[k].pc # "faulted"
    <3>1. CASE RecvRequestServe(n, p)
      BY <1>3, <3>1 DEF RecvRequestServe, Present
    <3>2. CASE ~RecvRequestServe(n, p)
      BY <1>3, <1>12, <3>2 DEF PeerSession, RecvJoin, RecvAnswerWrite, RecvAnswerRead,
         RecvPage, RecvInvalidate, RecvAck, RecvRequestFetch, RecvRequestZero
    <3> QED BY <3>1, <3>2
  <2>3. Done
    <3>1. \/ UNCHANGED localVars
          \/ \E v : InstallPage(n, v)
          \/ LiftProtection(n) /\ status[n] = "WRITE_PENDING"
          \/ invalidate_local_page_copy(n)
      BY <1>12 DEF PeerSession, RecvJoin, RecvAnswerWrite, RecvAnswerRead, RecvPage,
         RecvInvalidate, RecvAck, RecvRequestServe, RecvRequestFetch, RecvRequestZero
    <3>2. status[n] = "WRITE_PENDING" => Present(n)
      BY DEF Present
    <3> HIDE DEF Done
    <3> QED BY <1>4, <1>5, <1>6, <1>7, <3>1, <3>2
  <2> QED BY <2>1, <2>2, <2>3
<1>13. ASSUME NEW n \in Nodes, Serve(n) PROVE Good
  <2>1. UNCHANGED ring /\ \A k \in Nodes : engine'[k].pc # "faulted"
    BY <1>3, <1>13 DEF Serve, ServeWrite, ServeRead, Looping
  <2>2. Done
    <3> HIDE DEF Done
    <3> QED BY <1>4, <1>7, <1>8, <1>13 DEF Serve, ServeWrite, ServeRead
  <2> QED BY <2>1, <2>2
<1>14. ASSUME NEW n \in Nodes, EvictVisit(n) PROVE Good
  BY <1>3, <1>14 DEF EvictVisit, EvictInspect, EvictPage
<1>15. ASSUME UNCHANGED vars PROVE Good
  BY <1>3, <1>15 DEF vars, Present
<1>16. Good
  <2> HIDE DEF Good
  <2> QED BY <1>9, <1>10, <1>11, <1>12, <1>13, <1>14, <1>15 DEF Next
<1> QED BY <1>1, <1>3, <1>16 DEF MappedInv, ValidIsMapped

\* With no page left in the eviction rings, a status of PAGE_VALID means the
\* page is mapped, and no engine ever faults in the memcpy it makes while it
\* holds the page lock.
THEOREM MappingCorrect == Evictable = {} => (Spec => []ValidIsMapped)
<1> SUFFICES ASSUME Evictable = {} PROVE Spec => []ValidIsMapped
  OBVIOUS
<1>1. Init => MappedInv
  <2> SUFFICES ASSUME Init PROVE MappedInv
    OBVIOUS
  <2>1. \A n \in Nodes : ring[n] = "evicted"
    BY DEF Init
  <2>2. ValidIsMapped
    BY DEF Init, ValidIsMapped, Present, Looping
  <2> QED BY <2>1, <2>2, InitIInv DEF MappedInv
<1>2. MappedInv => ValidIsMapped
  BY DEF MappedInv
<1> QED BY <1>1, <1>2, MappedStep, PTL DEF Spec

=============================================================================
