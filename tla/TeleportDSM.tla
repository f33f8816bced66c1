---------------------------- MODULE TeleportDSM ----------------------------
(***************************************************************************)
(* The coherence engine of TeleportVM for one page of the shared region:   *)
(* application threads, the kernel's userfaultfd, the fault handler        *)
(* thread, the network engine thread and the eviction thread of every      *)
(* node, and the TCP connections between the coordinator and the workers.  *)
(*                                                                         *)
(* All tables of the code (page_table, global_page_directory,              *)
(* gpd_pending_reqs, the eviction ring) are indexed by page and no handler *)
(* touches an index other than the one it was called for, so one page is   *)
(* modelled.  The request queue is shared by the pages: its slots are      *)
(* taken by requests for this page here.                                   *)
(*                                                                         *)
(* The content of the page is the set of the stores it shows: the stores   *)
(* of a run are numbered 1, 2, ... in the order they execute and go to     *)
(* different words of the page; a page of zeros is {}.                     *)
(***************************************************************************)
EXTENDS GPD, Naturals, Sequences

CONSTANTS
  Coord,           \* the coordinator, the node started without a coordinator
  Threads,         \* application threads of all nodes
  NodeOf,          \* the node a thread runs on
  Ops,             \* the accesses a thread makes: loads "R", stores "W"
  MaxStores,       \* bound: stores executed in a run
  QUEUE_CAPACITY,  \* slots of the page request queue
  Evictable        \* nodes whose eviction ring still has the page

ASSUME CoordAssumption == Coord \in Nodes
ASSUME ThreadAssumption == NodeOf \in [Threads -> Nodes]
ASSUME WorkloadAssumption == Ops \in [Threads -> SUBSET {"R", "W"}]
ASSUME BoundAssumption == MaxStores \in Nat /\ QUEUE_CAPACITY \in Nat \ {0}
ASSUME EvictableAssumption == Evictable \subseteq Nodes \ {Coord}

VARIABLES
  thr,        \* application thread: what it is doing, and its access
  mem,        \* node: its mapping of the page
  stores,     \* how many stores have executed
  handler,    \* node: the fault event fault_handler has read, or "none"
  status,     \* node: page_table[idx].status
  reqq,       \* node: shared_req_queue, its is_write flags
  engine,     \* node: where the network engine thread is
  gpd,        \* node: global_page_directory[idx]
  pend,       \* node: gpd_pending_reqs[idx]
  node_fds,   \* node: the nodes whose node_fds[] entry is not -1
  chan,       \* chan[a][b]: packets from a to b, in order
  accessed,   \* node: access_bit of the eviction ring entry
  ring        \* node: the eviction ring's entry, see RingEntry

appVars   == <<thr, mem, stores>>
localVars == <<thr, mem, status, accessed>>
faultVars == <<handler, reqq>>
dirVars   == <<gpd, pend, node_fds>>
vars == <<thr, mem, stores, handler, status, reqq, engine, gpd, pend,
          node_fds, chan, accessed, ring>>

----------------------------------------------------------------------------
(* Values. *)

Workers == Nodes \ {Coord}
NodeOrNone == Nodes \cup {NoNode}
Content == SUBSET Nat

\* page_status_t and the status 3 that fault_handler.c and network_engine.c
\* call PAGE_WRITE_PENDING.
PageStatus == {"EMPTY", "PENDING", "VALID", "WRITE_PENDING"}

\* The mapping of the page: present, write-protected, its bytes.
Unmapped == [mapped |-> FALSE, wp |-> FALSE, val |-> {}]
Mapping  == [mapped : BOOLEAN, wp : BOOLEAN, val : Content]

\* A thread runs, or its access faulted: "pending" until fault_handler reads
\* the event, "waiting" after that, "again" once woken to repeat the access.
Running == [pc |-> "run", op |-> "R"]
Thread  == [pc : {"run", "pending", "waiting", "again"}, op : {"R", "W"}]

\* struct dsm_packet, without the page index.
ReqType == {"REQUEST_PAGE_READ", "REQUEST_PAGE_WRITE"}
Packet == [type : ReqType \cup {"SEND_PAGE", "NODE_JOIN", "INVALIDATE",
                                "INVALIDATE_ACK"},
           sender : NodeOrNone, payload : Content]

Pkt(type, sender) == [type |-> type, sender |-> sender, payload |-> {}]
Page(sender, v) == [type |-> "SEND_PAGE", sender |-> sender, payload |-> v]
ReqOf(is_write) == IF is_write THEN "REQUEST_PAGE_WRITE" ELSE "REQUEST_PAGE_READ"

\* coord_pending_t; a client_fd is the node at its other end, -1 is NoNode.
Pending == [requester : NodeOrNone, type : ReqType \cup {"none"},
            client_fd : NodeOrNone, expected_acks : Nat,
            deferred_payload : Content]
NoPending == [requester |-> NoNode, type |-> "none", client_fd |-> NoNode,
              expected_acks |-> 0, deferred_payload |-> {}]

\* The engine is in epoll_wait ("loop"), still popping the queue ("drain"),
\* past the memcpy of a page it serves ("serve"), or suspended in that
\* memcpy, with the page lock held ("faulted").
Engine == [pc : {"loop", "drain", "serve", "faulted"}, fd : NodeOrNone,
           type : ReqType \cup {"none"}, payload : Content]
Looping == [pc |-> "loop", fd |-> NoNode, type |-> "none", payload |-> {}]

\* An entry of the eviction ring: its status is 1, it is 1 and the hand has
\* found its access bit clear, or it is 0.
RingEntry == {"tracked", "victim", "evicted"}

\* coordinator_fd of node n: -1 on the coordinator.
coordinator_fd(n) == IF n = Coord THEN NoNode ELSE Coord

----------------------------------------------------------------------------
(* The kernel's side of userfaultfd, as the code uses it. *)

\* UFFDIO_COPY and UFFDIO_WRITEPROTECT with mode 0 wake every thread of the
\* node that is suspended on the page.
Wake(n) == [t \in Threads |->
              IF NodeOf[t] = n /\ thr[t].pc \in {"pending", "waiting"}
              THEN [thr[t] EXCEPT !.pc = "again"] ELSE thr[t]]

\* A load needs the page present, a store also needs it unprotected.
CanAccess(n, op) == mem[n].mapped /\ (op = "W" => ~mem[n].wp)

\* Mutant: the copy does not wake the threads (UFFDIO_COPY_MODE_DONTWAKE).
InstallPage_dontwake(n, v) ==
  /\ mem' = [mem EXCEPT ![n] = [mapped |-> TRUE, wp |-> FALSE, val |-> v]]
  /\ status' = [status EXCEPT ![n] = "VALID"]
  /\ accessed' = [accessed EXCEPT ![n] = TRUE]
  /\ UNCHANGED thr

\* UFFDIO_COPY, mode 0, repeated after MADV_DONTNEED when the page exists:
\* maps v writable whatever the fault was.  Every use of it is followed by
\* status = PAGE_VALID and dsm_mark_accessed.
InstallPage(n, v) ==
  /\ mem' = [mem EXCEPT ![n] = [mapped |-> TRUE, wp |-> FALSE, val |-> v]]
  /\ thr' = Wake(n)
  /\ status' = [status EXCEPT ![n] = "VALID"]
  /\ accessed' = [accessed EXCEPT ![n] = TRUE]

\* UFFDIO_WRITEPROTECT, mode 0, and status = PAGE_VALID.
LiftProtection(n) ==
  /\ mem' = [mem EXCEPT ![n].wp = FALSE]
  /\ thr' = Wake(n)
  /\ status' = [status EXCEPT ![n] = "VALID"]

\* Mutants: the status is not reset; the page is not unmapped.
invalidate_local_page_copy_keeps_status(n) ==
  /\ mem' = [mem EXCEPT ![n] = Unmapped]
  /\ UNCHANGED <<status, thr, accessed>>
invalidate_local_page_copy_keeps_mapping(n) ==
  /\ status' = [status EXCEPT ![n] = "EMPTY"]
  /\ UNCHANGED <<mem, thr, accessed>>

\* invalidate_local_page_copy: MADV_DONTNEED and status = PAGE_EMPTY.
invalidate_local_page_copy(n) ==
  /\ mem' = [mem EXCEPT ![n] = Unmapped]
  /\ status' = [status EXCEPT ![n] = "EMPTY"]
  /\ UNCHANGED <<thr, accessed>>

\* Mutant: the page stays writable.
writeprotect_local_page_copy_missing(n) == UNCHANGED localVars

\* writeprotect_local_page_copy
writeprotect_local_page_copy(n) ==
  /\ mem' = IF status[n] = "VALID"
            THEN [mem EXCEPT ![n].wp = mem[n].mapped] ELSE mem
  /\ UNCHANGED <<thr, status, accessed>>

----------------------------------------------------------------------------
(* The network, TCP: reliable and ordered while the connection lasts. *)

\* Is p the sender of the next packet node n handles, and is it of this type?
Arrived(n, p, types) == chan[p][n] # << >> /\ Head(chan[p][n]).type \in types

\* The channels after n has taken its next packet from p.
Received(n, p) == [chan EXCEPT ![p][n] = Tail(@)]

\* The channels after n has sent m to every node of dests (-1 is no node).
Send(ch, n, dests, m) ==
  [ch EXCEPT ![n] = [q \in Nodes |-> IF q \in dests THEN Append(ch[n][q], m)
                                                    ELSE ch[n][q]]]

Idle(n) == engine[n].pc = "loop"

----------------------------------------------------------------------------
(* Application threads. *)

\* Thread t makes access op: a new one, or the one it was woken to repeat.
Issues(t, op) ==
  \/ /\ thr[t].pc = "run"
     /\ op \in Ops[t]
     /\ op = "W" => stores + Cardinality({u \in Threads :
                      thr[u].pc # "run" /\ thr[u].op = "W"}) < MaxStores
  \/ thr[t] = [pc |-> "again", op |-> op]

Load(t) ==
  /\ Issues(t, "R")
  /\ CanAccess(NodeOf[t], "R")
  /\ thr' = [thr EXCEPT ![t] = Running]
  /\ UNCHANGED <<mem, stores, status, accessed, ring, engine, chan>>
  /\ UNCHANGED <<faultVars, dirVars>>

Store(t) ==
  /\ Issues(t, "W")
  /\ CanAccess(NodeOf[t], "W")
  /\ thr' = [thr EXCEPT ![t] = Running]
  /\ stores' = stores + 1
  /\ mem' = [mem EXCEPT ![NodeOf[t]].val = @ \cup {stores + 1}]
  /\ UNCHANGED <<status, accessed, ring, engine, chan>>
  /\ UNCHANGED <<faultVars, dirVars>>

\* The kernel suspends the thread and queues a fault event.
Fault(t, op) ==
  /\ Issues(t, op)
  /\ ~CanAccess(NodeOf[t], op)
  /\ thr' = [thr EXCEPT ![t] = [pc |-> "pending", op |-> op]]
  /\ UNCHANGED <<mem, stores, status, accessed, ring, engine, chan>>
  /\ UNCHANGED <<faultVars, dirVars>>

----------------------------------------------------------------------------
(* fault_handler.c *)

\* read(uffd, &msg, ...): the page may be resolved, and t woken, before the
\* handler gets the page lock.
ReadFault(n, t) ==
  /\ NodeOf[t] = n
  /\ handler[n] = "none"
  /\ thr[t].pc = "pending"
  /\ thr' = [thr EXCEPT ![t].pc = "waiting"]
  /\ handler' = [handler EXCEPT ![n] = thr[t].op]
  /\ UNCHANGED <<mem, stores, status, accessed, ring, engine, chan, reqq>>
  /\ UNCHANGED dirVars

\* The page lock is free unless the engine faulted while holding it.
HandleFault(n) ==
  LET is_write == handler[n] = "W"
      full == Len(reqq[n]) = QUEUE_CAPACITY
  IN /\ handler[n] # "none"
     /\ engine[n].pc # "faulted"
     /\ handler' = [handler EXCEPT ![n] = "none"]
     /\ IF status[n] = "VALID" /\ ~is_write
        THEN UNCHANGED <<status, reqq>>
        ELSE /\ status' = [status EXCEPT ![n] =
                  IF full THEN "EMPTY"
                  ELSE IF status[n] = "VALID" THEN "WRITE_PENDING"
                  ELSE "PENDING"]
             /\ reqq' = IF full THEN reqq
                        ELSE [reqq EXCEPT ![n] = Append(@, is_write)]
     /\ UNCHANGED <<appVars, accessed, ring, engine, chan>>
     /\ UNCHANGED dirVars

----------------------------------------------------------------------------
(* The network engine: requests popped from the queue.  The engine pops    *)
(* until the queue is empty before it looks at its sockets again.          *)

Popping(n, is_write) ==
  /\ engine[n].pc \in {"loop", "drain"}
  /\ reqq[n] # << >>
  /\ is_write = Head(reqq[n])
  /\ reqq' = [reqq EXCEPT ![n] = Tail(@)]
  /\ engine' = [engine EXCEPT ![n].pc =
                  IF Len(reqq[n]) > 1 THEN "drain" ELSE "loop"]
  /\ UNCHANGED <<handler, stores, node_fds, ring>>

\* Mutant: the worker also records its ownership in its own directory.
PopForward_records_owner(n, is_write) ==
  /\ Popping(n, is_write)
  /\ coordinator_fd(n) # NoNode
  /\ chan' = Send(chan, n, {coordinator_fd(n)}, Pkt(ReqOf(is_write), n))
  /\ gpd' = [gpd EXCEPT ![n] = gpd_transition_to_modified(@, n)]
  /\ UNCHANGED pend
  /\ UNCHANGED localVars

\* A worker sends the request to the coordinator.
PopForward(n, is_write) ==
  /\ Popping(n, is_write)
  /\ coordinator_fd(n) # NoNode
  /\ chan' = Send(chan, n, {coordinator_fd(n)}, Pkt(ReqOf(is_write), n))
  /\ UNCHANGED <<gpd, pend>>
  /\ UNCHANGED localVars

\* Mutant: a write upgrade in progress counts as a missing page.
Present_valid_only(n) == status[n] = "VALID"

\* The page is here, or fault_handler has turned VALID into WRITE_PENDING.
Present(n) == status[n] \in {"VALID", "WRITE_PENDING"}

\* The nodes n can reach that have to drop their copy before w may write.
Targets(n, w) == (invalidate_mask(gpd[n], w) \ {n}) \cap node_fds'[n]

\* The coordinator has the page: a write needs the sharers' acks first.
PopUpgrade(n, is_write) ==
  LET targets == Targets(n, n)
  IN /\ Popping(n, is_write)
     /\ coordinator_fd(n) = NoNode
     /\ Present(n)
     /\ gpd' = IF is_write
               THEN [gpd EXCEPT ![n] = gpd_transition_to_modified(@, n)]
               ELSE gpd
     /\ IF is_write /\ targets # {}
        THEN pend' = [pend EXCEPT ![n] =
               [@ EXCEPT !.requester = n, !.type = "REQUEST_PAGE_WRITE",
                         !.client_fd = NoNode,
                         !.expected_acks = Cardinality(targets)]]
        ELSE UNCHANGED pend
     /\ chan' = IF is_write
                THEN Send(chan, n, targets, Pkt("INVALIDATE", NoNode))
                ELSE chan
     /\ IF is_write /\ targets = {}
        THEN LiftProtection(n) /\ UNCHANGED accessed
        ELSE UNCHANGED localVars

\* The coordinator does not have the page and a reachable node owns it.
PopFetch(n, is_write) ==
  LET old_owner == gpd[n].owner
  IN /\ Popping(n, is_write)
     /\ coordinator_fd(n) = NoNode
     /\ ~Present(n)
     /\ old_owner \in node_fds[n]
     /\ pend' = [pend EXCEPT ![n] =
          [@ EXCEPT !.requester = n, !.type = ReqOf(is_write),
                    !.client_fd = NoNode, !.expected_acks = 0]]
     /\ chan' = Send(chan, n, {old_owner}, Pkt("REQUEST_PAGE_READ", n))
     /\ UNCHANGED gpd
     /\ UNCHANGED localVars

\* Nobody owns the page: a page of zeros.  The invalidate mask is not used.
PopZeroFill(n, is_write) ==
  /\ Popping(n, is_write)
  /\ coordinator_fd(n) = NoNode
  /\ ~Present(n)
  /\ gpd[n].owner \notin node_fds[n]
  /\ InstallPage(n, {})
  /\ gpd' = [gpd EXCEPT ![n] = IF is_write
                               THEN gpd_transition_to_modified(@, n)
                               ELSE gpd_transition_to_shared(@, n)]
  /\ UNCHANGED <<pend, chan>>

----------------------------------------------------------------------------
(* The network engine: packets. *)

RecvJoin(n, p) ==
  /\ Idle(n) /\ Arrived(n, p, {"NODE_JOIN"})
  /\ node_fds' = [node_fds EXCEPT ![n] = @ \cup {Head(chan[p][n]).sender}]
  /\ chan' = Received(n, p)
  /\ UNCHANGED <<stores, engine, gpd, pend, ring>>
  /\ UNCHANGED <<localVars, faultVars>>

\* Mutant: the answer is sent without waiting for the acks.
GrantWrite_at_once(n, w, fd, v, ch, granted, ungranted) ==
  /\ gpd' = [gpd EXCEPT ![n] = gpd_transition_to_modified(@, w)]
  /\ pend' = [pend EXCEPT ![n] = granted]
  /\ chan' = Send(Send(ch, n, Targets(n, w), Pkt("INVALIDATE", NoNode)),
                  n, {fd}, ungranted)

\* Ownership passes to w in n's directory.  If reachable nodes hold copies
\* they are told to drop them, and the answer v to fd waits for their acks.
GrantWrite(n, w, fd, v, ch, granted, ungranted) ==
  LET targets == Targets(n, w)
  IN /\ gpd' = [gpd EXCEPT ![n] = gpd_transition_to_modified(@, w)]
     /\ pend' = [pend EXCEPT ![n] =
                   IF targets = {} THEN granted
                   ELSE [requester |-> w, type |-> "REQUEST_PAGE_WRITE",
                         client_fd |-> fd,
                         expected_acks |-> Cardinality(targets),
                         deferred_payload |-> v]]
     /\ chan' = IF targets = {} THEN Send(ch, n, {fd}, ungranted)
                ELSE Send(ch, n, targets, Pkt("INVALIDATE", NoNode))

\* SEND_PAGE that answers the coordinator's fetch for a write.
RecvAnswerWrite(n, p) ==
  LET m == Head(chan[p][n])
      w == pend[n].requester
      mask == invalidate_mask(gpd[n], w)
  IN /\ Idle(n) /\ Arrived(n, p, {"SEND_PAGE"})
     /\ coordinator_fd(n) = NoNode /\ w # NoNode
     /\ pend[n].type = "REQUEST_PAGE_WRITE"
     /\ UNCHANGED node_fds
     /\ GrantWrite(n, w, pend[n].client_fd, m.payload, Received(n, p),
                   [pend[n] EXCEPT !.requester = NoNode], m)
     /\ IF n \in mask THEN invalidate_local_page_copy(n)
        ELSE IF w = n /\ Targets(n, w) = {} THEN InstallPage(n, m.payload)
        ELSE UNCHANGED localVars
     /\ UNCHANGED <<stores, engine, ring>>
     /\ UNCHANGED faultVars

\* SEND_PAGE that answers the coordinator's fetch for a read.
RecvAnswerRead(n, p) ==
  LET m == Head(chan[p][n])
      r == pend[n].requester
  IN /\ Idle(n) /\ Arrived(n, p, {"SEND_PAGE"})
     /\ coordinator_fd(n) = NoNode /\ r # NoNode
     /\ pend[n].type # "REQUEST_PAGE_WRITE"
     /\ gpd' = [gpd EXCEPT ![n] = gpd_transition_to_shared(@, r)]
     /\ pend' = [pend EXCEPT ![n].requester = NoNode]
     /\ IF r = n
        THEN chan' = Received(n, p) /\ InstallPage(n, m.payload)
        ELSE /\ chan' = Send(Received(n, p), n, {pend[n].client_fd}, m)
             /\ UNCHANGED localVars
     /\ UNCHANGED <<stores, engine, node_fds, ring>>
     /\ UNCHANGED faultVars

\* SEND_PAGE for this node: the answer to its own fault, or unsolicited.
RecvPage(n, p) ==
  LET m == Head(chan[p][n])
  IN /\ Idle(n) /\ Arrived(n, p, {"SEND_PAGE"})
     /\ coordinator_fd(n) # NoNode \/ pend[n].requester = NoNode
     /\ \/ /\ status[n] = "WRITE_PENDING"
           /\ LiftProtection(n)
           /\ accessed' = [accessed EXCEPT ![n] = TRUE]
        \/ status[n] \in {"PENDING", "EMPTY"} /\ InstallPage(n, m.payload)
        \/ status[n] = "VALID" /\ UNCHANGED localVars
     /\ chan' = Received(n, p)
     /\ UNCHANGED <<stores, engine, gpd, pend, node_fds, ring>>
     /\ UNCHANGED faultVars

\* Mutant: no ack from a node that has nothing to drop.
RecvInvalidate_acks_valid_only(n, p) ==
  /\ Idle(n) /\ Arrived(n, p, {"INVALIDATE"})
  /\ invalidate_local_page_copy(n)
  /\ chan' = IF status[n] = "VALID"
             THEN Send(Received(n, p), n, {Coord}, Pkt("INVALIDATE_ACK", n))
             ELSE Received(n, p)
  /\ UNCHANGED <<stores, engine, gpd, pend, node_fds, ring>>
  /\ UNCHANGED faultVars

RecvInvalidate(n, p) ==
  /\ Idle(n) /\ Arrived(n, p, {"INVALIDATE"})
  /\ invalidate_local_page_copy(n)
  /\ chan' = Send(Received(n, p), n,
                  {IF coordinator_fd(n) # NoNode THEN coordinator_fd(n) ELSE p},
                  Pkt("INVALIDATE_ACK", n))
  /\ UNCHANGED <<stores, engine, gpd, pend, node_fds, ring>>
  /\ UNCHANGED faultVars

\* Mutant: a grant to the node itself is applied only to an upgrade.
RecvAck_upgrades_only(n, p) ==
  /\ Idle(n) /\ Arrived(n, p, {"INVALIDATE_ACK"})
  /\ pend' = [pend EXCEPT ![n].expected_acks = 0, ![n].requester = NoNode]
  /\ chan' = Received(n, p)
  /\ IF status[n] = "WRITE_PENDING" THEN LiftProtection(n) /\ UNCHANGED accessed
                                    ELSE UNCHANGED localVars
  /\ UNCHANGED <<stores, engine, gpd, node_fds, ring>>
  /\ UNCHANGED faultVars

\* Mutant: the count is compared before it is decremented.
RecvAck_compares_first(n, p) ==
  /\ Idle(n) /\ Arrived(n, p, {"INVALIDATE_ACK"})
  /\ pend' = IF pend[n].expected_acks > 0
             THEN [pend EXCEPT ![n].expected_acks = @ - 1] ELSE pend
  /\ chan' = Received(n, p)
  /\ UNCHANGED <<stores, engine, gpd, node_fds, ring>>
  /\ UNCHANGED <<localVars, faultVars>>

\* The last ack releases the grant that waited for it.
RecvAck(n, p) ==
  LET left == pend[n].expected_acks - 1
  IN /\ Idle(n) /\ Arrived(n, p, {"INVALIDATE_ACK"})
     /\ IF pend[n].expected_acks = 0
        THEN chan' = Received(n, p) /\ UNCHANGED <<pend, localVars>>
        ELSE IF left > 0
        THEN /\ pend' = [pend EXCEPT ![n].expected_acks = left]
             /\ chan' = Received(n, p)
             /\ UNCHANGED localVars
        ELSE /\ pend' = [pend EXCEPT ![n].expected_acks = 0,
                                     ![n].requester = NoNode]
             /\ IF pend[n].requester # n
                THEN /\ chan' = Send(Received(n, p), n, {pend[n].client_fd},
                                     Page(n, pend[n].deferred_payload))
                     /\ UNCHANGED localVars
                ELSE /\ chan' = Received(n, p)
                     /\ IF status[n] = "WRITE_PENDING"
                        THEN /\ LiftProtection(n)
                             /\ accessed' = [accessed EXCEPT ![n] = TRUE]
                        ELSE InstallPage(n, pend[n].deferred_payload)
     /\ UNCHANGED <<stores, engine, gpd, node_fds, ring>>
     /\ UNCHANGED faultVars

----------------------------------------------------------------------------
(* The network engine: a page request from a peer. *)

\* Mutant: the requesting node is not registered.
RecvRequest_unregistered(n, p) ==
  /\ Idle(n) /\ Arrived(n, p, ReqType)
  /\ UNCHANGED <<node_fds, stores, ring>>
  /\ UNCHANGED faultVars

RecvRequest(n, p) ==
  /\ Idle(n) /\ Arrived(n, p, ReqType)
  /\ node_fds' = [node_fds EXCEPT ![n] = @ \cup {Head(chan[p][n]).sender}]
  /\ UNCHANGED <<stores, ring>>
  /\ UNCHANGED faultVars

\* status is PAGE_VALID: memcpy of the page, under the page lock.  If the
\* page is not mapped the engine thread itself faults and never returns.
RecvRequestServe(n, p) ==
  /\ RecvRequest(n, p)
  /\ status[n] = "VALID"
  /\ engine' = [engine EXCEPT ![n] =
                  [pc |-> IF mem[n].mapped THEN "serve" ELSE "faulted",
                   fd |-> p, type |-> Head(chan[p][n]).type,
                   payload |-> mem[n].val]]
  /\ chan' = Received(n, p)
  /\ UNCHANGED <<gpd, pend>>
  /\ UNCHANGED localVars

\* After the memcpy, for a write: hand over ownership, drop the own copy.
ServeWrite(n) ==
  LET w == engine[n].fd
      v == engine[n].payload
  IN /\ engine[n].pc = "serve" /\ engine[n].type = "REQUEST_PAGE_WRITE"
     /\ UNCHANGED node_fds
     /\ GrantWrite(n, w, w, v, chan, pend[n], Page(n, v))
     /\ invalidate_local_page_copy(n)
     /\ engine' = [engine EXCEPT ![n] = Looping]
     /\ UNCHANGED <<stores, ring>>
     /\ UNCHANGED faultVars

\* After the memcpy, for a read: an owner protects its own copy.
ServeRead(n) ==
  LET r == engine[n].fd
  IN /\ engine[n].pc = "serve" /\ engine[n].type = "REQUEST_PAGE_READ"
     /\ gpd' = [gpd EXCEPT ![n] = gpd_transition_to_shared(@, r)]
     /\ IF gpd[n].owner = n THEN writeprotect_local_page_copy(n)
                            ELSE UNCHANGED localVars
     /\ chan' = Send(chan, n, {r}, Page(n, engine[n].payload))
     /\ engine' = [engine EXCEPT ![n] = Looping]
     /\ UNCHANGED <<stores, pend, node_fds, ring>>
     /\ UNCHANGED faultVars

\* Mutant: the requester's own packet type is sent on to the owner.
RecvRequestFetch_forwards_type(n, p) ==
  LET m == Head(chan[p][n])
  IN /\ RecvRequest(n, p)
     /\ status[n] # "VALID"
     /\ gpd[n].owner \in node_fds'[n] \ {m.sender}
     /\ pend' = [pend EXCEPT ![n] =
          [@ EXCEPT !.requester = m.sender, !.type = m.type,
                    !.client_fd = p, !.expected_acks = 0]]
     /\ chan' = Send(Received(n, p), n, {gpd[n].owner}, Pkt(m.type, n))
     /\ UNCHANGED <<engine, gpd>>
     /\ UNCHANGED localVars

\* status is not PAGE_VALID and another reachable node owns the page.
RecvRequestFetch(n, p) ==
  LET m == Head(chan[p][n])
      old_owner == gpd[n].owner
  IN /\ RecvRequest(n, p)
     /\ status[n] # "VALID"
     /\ old_owner \in node_fds'[n] /\ old_owner # m.sender
     /\ pend' = [pend EXCEPT ![n] =
          [@ EXCEPT !.requester = m.sender, !.type = m.type,
                    !.client_fd = p, !.expected_acks = 0]]
     /\ chan' = Send(Received(n, p), n, {old_owner},
                     Pkt("REQUEST_PAGE_READ", n))
     /\ UNCHANGED <<engine, gpd>>
     /\ UNCHANGED localVars

\* status is not PAGE_VALID and there is nobody to fetch from: zeros.
RecvRequestZero(n, p) ==
  LET m == Head(chan[p][n])
  IN /\ RecvRequest(n, p)
     /\ status[n] # "VALID"
     /\ gpd[n].owner \notin node_fds'[n] \ {m.sender}
     /\ IF m.type = "REQUEST_PAGE_WRITE"
        THEN /\ GrantWrite(n, m.sender, p, {}, Received(n, p), pend[n],
                           Page(n, {}))
             /\ IF n \in invalidate_mask(gpd[n], m.sender)
                THEN invalidate_local_page_copy(n)
                ELSE UNCHANGED localVars
        ELSE /\ gpd' = [gpd EXCEPT ![n] =
                          gpd_transition_to_shared(@, m.sender)]
             /\ chan' = Send(Received(n, p), n, {p}, Page(n, {}))
             /\ UNCHANGED pend
             /\ UNCHANGED localVars
     /\ UNCHANGED engine

----------------------------------------------------------------------------
(* eviction.c: a visit of the clock hand to the page.  Runs on workers     *)
(* only: the thread's net_fd is coordinator_fd, and -1 stops it.  It does  *)
(* not take the page lock, and nothing sets the ring entry's status back   *)
(* to 1.                                                                   *)

\* The access bit is loaded: set, it is cleared; clear, the page is the victim.
EvictInspect(n) ==
  /\ ring[n] = "tracked"
  /\ IF accessed[n]
     THEN accessed' = [accessed EXCEPT ![n] = FALSE] /\ UNCHANGED ring
     ELSE ring' = [ring EXCEPT ![n] = "victim"] /\ UNCHANGED accessed
  /\ UNCHANGED <<thr, mem, stores, status, engine, gpd, pend, node_fds, chan>>
  /\ UNCHANGED faultVars

\* The victim goes, also if it was installed since the load.
EvictPage(n) ==
  /\ ring[n] = "victim"
  /\ chan' = IF get_local_msi_state(gpd[n], n) = "MODIFIED"
             THEN Send(chan, n, {coordinator_fd(n)}, Page(n, mem[n].val))
             ELSE chan
  /\ mem' = [mem EXCEPT ![n] = Unmapped]
  /\ ring' = [ring EXCEPT ![n] = "evicted"]
  /\ gpd' = [gpd EXCEPT ![n] = set_local_msi_state_invalid(@, n)]
  /\ UNCHANGED <<thr, stores, status, engine, pend, node_fds, accessed>>
  /\ UNCHANGED faultVars

EvictVisit(n) == coordinator_fd(n) # NoNode /\ (EvictInspect(n) \/ EvictPage(n))

----------------------------------------------------------------------------
(* The specification. *)

\* Every worker has connected; its NODE_JOIN is on the way, or was given up
\* because the connection was not writable within 100 ms.
Init ==
  /\ thr = [t \in Threads |-> Running]
  /\ mem = [n \in Nodes |-> Unmapped]
  /\ stores = 0
  /\ handler = [n \in Nodes |-> "none"]
  /\ status = [n \in Nodes |-> "EMPTY"]
  /\ reqq = [n \in Nodes |-> << >>]
  /\ engine = [n \in Nodes |-> Looping]
  /\ gpd = [n \in Nodes |-> gpd_init]
  /\ pend = [n \in Nodes |-> NoPending]
  /\ node_fds = [n \in Nodes |-> {}]
  /\ \E joins \in SUBSET Workers :
       chan = [a \in Nodes |-> [b \in Nodes |->
                 IF a \in joins /\ b = Coord
                 THEN <<Pkt("NODE_JOIN", a)>> ELSE << >>]]
  /\ accessed = [n \in Nodes |-> FALSE]
  /\ ring = [n \in Nodes |-> IF n \in Evictable THEN "tracked" ELSE "evicted"]

App(t) == Load(t) \/ Store(t) \/ \E op \in {"R", "W"} : Fault(t, op)

FaultHandler(n) == HandleFault(n) \/ \E t \in Threads : ReadFault(n, t)

QueueSession(n) ==
  \E is_write \in BOOLEAN :
    \/ PopForward(n, is_write)
    \/ PopUpgrade(n, is_write)
    \/ PopFetch(n, is_write)
    \/ PopZeroFill(n, is_write)

PeerSession(n, p) ==
  \/ RecvJoin(n, p)
  \/ RecvAnswerWrite(n, p)
  \/ RecvAnswerRead(n, p)
  \/ RecvPage(n, p)
  \/ RecvInvalidate(n, p)
  \/ RecvAck(n, p)
  \/ RecvRequestServe(n, p)
  \/ RecvRequestFetch(n, p)
  \/ RecvRequestZero(n, p)

Serve(n) == ServeWrite(n) \/ ServeRead(n)

Next ==
  \/ \E t \in Threads : App(t)
  \/ \E n \in Nodes : FaultHandler(n) \/ QueueSession(n) \/ Serve(n)
                      \/ EvictVisit(n)
  \/ \E n, p \in Nodes : PeerSession(n, p)

Spec == Init /\ [][Next]_vars

\* The threads of a node keep running: the fault handler, the engine (every
\* epoll event of it is served), and a thread that was woken.
Fairness ==
  /\ \A n \in Nodes : /\ WF_vars(FaultHandler(n))
                      /\ WF_vars(QueueSession(n))
                      /\ WF_vars(Serve(n))
  /\ \A n, p \in Nodes : WF_vars(PeerSession(n, p))
  /\ \A t \in Threads : WF_vars(thr[t].pc = "again" /\ App(t))

FairSpec == Spec /\ Fairness

----------------------------------------------------------------------------
(* Properties. *)

\* Every variable keeps its type: the queue never exceeds its capacity, and
\* no directory entry ever has bit 0 (node 0, "unowned") among its sharers,
\* although gpd_transition_to_shared shifts by the old owner unchecked.
TypeOK ==
  /\ thr \in [Threads -> Thread]
  /\ mem \in [Nodes -> Mapping]
  /\ stores \in Nat
  /\ handler \in [Nodes -> {"none", "R", "W"}]
  /\ status \in [Nodes -> PageStatus]
  /\ reqq \in [Nodes -> Seq(BOOLEAN)]
  /\ \A n \in Nodes : Len(reqq[n]) <= QUEUE_CAPACITY
  /\ engine \in [Nodes -> Engine]
  /\ gpd \in [Nodes -> Entry]
  /\ pend \in [Nodes -> Pending]
  /\ node_fds \in [Nodes -> SUBSET Nodes]
  /\ chan \in [Nodes -> [Nodes -> Seq(Packet)]]
  /\ accessed \in [Nodes -> BOOLEAN]
  /\ ring \in [Nodes -> RingEntry]

\* The page table does not run ahead of the kernel's mapping: whenever the
\* status is VALID or WRITE_PENDING the page is mapped.  The engine therefore
\* never faults in the memcpy it does under the page lock (line 671), where
\* the fault handler would wait for that lock and never resolve the fault.
\* This is said of pages the eviction thread no longer touches (Evictable =
\* {}): an eviction leaves the status VALID and the page unmapped
\* (eviction.c:144), and a fetch that meets it there does make the engine
\* fault under the lock.
ValidIsMapped ==
  \A n \in Nodes : /\ Present(n) => mem[n].mapped
                   /\ engine[n].pc # "faulted"

\* A directory entry names an owner exactly when it is MODIFIED, and then no
\* sharers; a SHARED entry has a sharer.  holders_mask reads one field or the
\* other according to the state, and prev_owner is read in every state.
DirectoryConsistent ==
  \A n \in Nodes :
    /\ gpd[n].state = "MODIFIED" <=> gpd[n].owner # NoNode
    /\ gpd[n].state = "MODIFIED" => gpd[n].sharers = {}
    /\ gpd[n].state = "SHARED" => gpd[n].sharers # {}

\* The packets on the way from a to b.
InTransit(a, b) == {chan[a][b][i] : i \in DOMAIN chan[a][b]}

\* May m travel from a to b?
Permitted(a, b, m) ==
  \/ /\ a = Coord /\ b # Coord
     /\ m.type \in {"REQUEST_PAGE_READ", "SEND_PAGE", "INVALIDATE"}
     /\ m.type = "REQUEST_PAGE_READ" => m.sender = Coord
  \/ /\ a # Coord /\ b = Coord
     /\ m.type # "INVALIDATE"
     /\ m.sender = a

\* Who sends what to whom: packets travel between the coordinator and the
\* workers only, a request carries the id of the node at the other end of the
\* connection it arrives on (node_fds and client_fd agree), and nobody asks a
\* worker to hand over ownership.
ChannelDiscipline ==
  \A a, b \in Nodes : \A m \in InTransit(a, b) : Permitted(a, b, m)

\* Every node the coordinator's directory lists as a holder can be reached
\* through node_fds, even if its NODE_JOIN was lost: no holder is left out
\* when the invalidations are counted and sent.
HoldersRegistered ==
  holders_mask(gpd[Coord]) \ {Coord} \subseteq node_fds[Coord]

\* A worker's own directory never names an owner and its pending record is
\* never used: all coherence decisions are the coordinator's.  So a worker's
\* get_local_msi_state is never MODIFIED (the write-back of eviction.c is not
\* reached) and prev_owner == local_node_id is false in its ServeRead.
WorkerDirectoryPassive ==
  \A n \in Workers : gpd[n].owner = NoNode /\ pend[n] = NoPending

\* The places in the channel from a to b that hold a packet of this type.
OfType(a, b, type) ==
  {<<a, b, i>> : i \in {j \in DOMAIN chan[a][b] : chan[a][b][j].type = type}}

\* The coordinator waits for no ack that is not going to come: as many
\* INVALIDATEs and INVALIDATE_ACKs are on the way as it still expects, also
\* when a later request has overwritten the pending record.
AcksInFlight ==
  pend[Coord].expected_acks <=
    Cardinality(UNION {OfType(Coord, n, "INVALIDATE")
                       \cup OfType(n, Coord, "INVALIDATE_ACK") : n \in Nodes})

\* Something is under way that will answer the fault of a thread of node n.
Outstanding(n) ==
  \/ handler[n] # "none" \/ reqq[n] # << >>
  \/ \E m \in InTransit(n, Coord) : m.type \in ReqType
  \/ \E m \in InTransit(Coord, n) : m.type = "SEND_PAGE"
  \/ pend[Coord].requester = n
  \/ engine[Coord].pc = "serve" /\ engine[Coord].fd = n

\* No fault is forgotten: while a thread is suspended on a fault that the
\* handler has read, its request is queued, on the way, pending at the
\* coordinator, or its answer is on the way.
NoForgottenFault ==
  \A t \in Threads : thr[t].pc = "waiting" => Outstanding(NodeOf[t])

\* At most one node has the page mapped: what a workload of stores must
\* find, since every grant of ownership waits until the other copies are
\* dropped.
OneCopy == \A n, p \in Nodes : mem[n].mapped /\ mem[p].mapped => n = p

\* Every mapped copy shows all the stores executed so far.
NoStaleCopy == \A n \in Nodes : mem[n].mapped => mem[n].val = 1..stores

\* Every suspended thread is woken again.
FaultsResolve ==
  \A t \in Threads :
    thr[t].pc \in {"pending", "waiting"} ~> thr[t].pc \in {"run", "again"}

\* Every access that faults is completed in the end.
AccessesComplete == \A t \in Threads : thr[t].pc # "run" ~> thr[t].pc = "run"
=============================================================================
