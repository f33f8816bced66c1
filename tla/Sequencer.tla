----------------------------- MODULE Sequencer -----------------------------
(***************************************************************************)
(* The coordinator's transactions as coordinator_sequencer.c runs them,    *)
(* for one page: one transaction at a time, requests that arrive during it *)
(* are queued, and a grant waits until the acks of all other holders are   *)
(* in.  Every function of the file works under page_lock, so a call is one *)
(* step.                                                                   *)
(*                                                                         *)
(* The file is linked into the program and nothing calls it.  Its callers  *)
(* are modelled from its interface: a node asks for a copy and waits for   *)
(* SEND_PAGE, one request at a time, and answers every INVALIDATE by       *)
(* dropping its copy and acknowledging it.  Connections may stall, so that *)
(* send_packet_to_node gives packets up, or be lost, as network_engine.c   *)
(* records in node_fds.                                                    *)
(***************************************************************************)
EXTENDS GPD, Naturals, Sequences

CONSTANTS
  Faulty,      \* bound: the nodes whose connection may stall or be lost
  MaxFaults    \* bound: how often one does

ASSUME FaultsAssumption == Faulty \subseteq Nodes /\ MaxFaults \in Nat

VARIABLES
  transaction_active, active_node, expected_acks,   \* page_sequencer_t
  queue,      \* its deferred requests, head first
  entry,      \* global_page_directory[page_idx]
  node_fds,   \* the nodes with a connection
  stalled,    \* the nodes whose socket takes no more bytes
  toNode,     \* packets on the way to a node
  fromNode,   \* packets on the way from a node
  copy,       \* node: its copy, MODIFIED, SHARED or INVALID
  waiting,    \* node: the request it has made, or "none"
  faults      \* connections that have stalled or were lost

seqVars  == <<transaction_active, active_node, expected_acks, queue>>
nodeVars == <<copy, waiting>>
linkVars == <<node_fds, stalled, faults>>
vars == <<transaction_active, active_node, expected_acks, queue, entry,
          node_fds, stalled, toNode, fromNode, copy, waiting, faults>>

ReqType == {"READ", "WRITE"}

\* deferred_request_t: client_fd leads to the node itself.
Request == [node : Nodes, type : ReqType]

\* The packets after pkt was sent to dests; send_packet_to_node drops what
\* the socket does not take at once.
send_packet_to_node(ch, dests, pkt) ==
  [n \in Nodes |-> IF n \in dests \cap (node_fds \ stalled)
                   THEN Append(ch[n], pkt) ELSE ch[n]]

----------------------------------------------------------------------------
(* Transactions. *)

Begin(n) == transaction_active' = TRUE /\ active_node' = n
End == transaction_active' = FALSE /\ active_node' = NoNode

\* execute_gpd_transaction, a write: all other holders have to acknowledge,
\* the ones without a connection too.
ExecuteWrite(n, ch) ==
  LET holders == invalidate_mask(entry, n)
  IN /\ entry' = gpd_transition_to_modified(entry, n)
     /\ expected_acks' = Cardinality(holders)
     /\ IF holders # {}
        THEN /\ toNode' = send_packet_to_node(ch, holders, "INVALIDATE")
             /\ Begin(n)
        ELSE /\ toNode' = send_packet_to_node(ch, {n}, "SEND_PAGE")
             /\ End

\* execute_gpd_transaction, a read: the owner gives up its copy.
ExecuteRead(n, ch, acks) ==
  LET old_owner == entry.owner
  IN /\ entry' = gpd_transition_to_shared(entry, n)
     /\ IF old_owner \notin {NoNode, n}
        THEN /\ expected_acks' = 1
             /\ toNode' = send_packet_to_node(ch, {old_owner}, "INVALIDATE")
             /\ Begin(n)
        ELSE /\ expected_acks' = acks
             /\ toNode' = send_packet_to_node(ch, {n}, "SEND_PAGE")
             /\ End

execute_gpd_transaction(r, ch, acks) ==
  \/ r.type = "WRITE" /\ ExecuteWrite(r.node, ch)
  \/ r.type = "READ" /\ ExecuteRead(r.node, ch, acks)

\* The request p sent is handed to the sequencer.
Requested(p) ==
  /\ fromNode[p] # << >> /\ Head(fromNode[p]) \in ReqType
  /\ fromNode' = [fromNode EXCEPT ![p] = Tail(@)]
  /\ UNCHANGED <<nodeVars, linkVars>>

\* Mutant: the request is executed whether a transaction is active or not.
process_node_request_unserialized(p) ==
  /\ Requested(p)
  /\ execute_gpd_transaction([node |-> p, type |-> Head(fromNode[p])],
                             toNode, expected_acks)
  /\ UNCHANGED queue

\* Mutant: the request becomes the head of the queue.
process_node_request_lifo(p) ==
  LET r == [node |-> p, type |-> Head(fromNode[p])]
  IN /\ Requested(p)
     /\ IF transaction_active
        THEN /\ queue' = <<r>> \o queue
             /\ UNCHANGED <<transaction_active, active_node, expected_acks,
                            entry, toNode>>
        ELSE /\ execute_gpd_transaction(r, toNode, expected_acks)
             /\ UNCHANGED queue

process_node_request(p) ==
  LET r == [node |-> p, type |-> Head(fromNode[p])]
  IN /\ Requested(p)
     /\ IF transaction_active
        THEN /\ queue' = Append(queue, r)
             /\ UNCHANGED <<transaction_active, active_node, expected_acks,
                            entry, toNode>>
        ELSE /\ execute_gpd_transaction(r, toNode, expected_acks)
             /\ UNCHANGED queue

\* The ack p sent is handed to the sequencer.
Acknowledged(p) ==
  /\ fromNode[p] # << >> /\ Head(fromNode[p]) = "ACK"
  /\ fromNode' = [fromNode EXCEPT ![p] = Tail(@)]
  /\ UNCHANGED <<nodeVars, linkVars>>

\* Mutant: the first ack completes the transaction.
process_node_invalidate_ack_first(p) ==
  /\ Acknowledged(p)
  /\ toNode' = send_packet_to_node(toNode, {active_node}, "SEND_PAGE")
  /\ expected_acks' = 0
  /\ End
  /\ UNCHANGED <<queue, entry>>

\* The last ack completes the transaction and starts one deferred request.
process_node_invalidate_ack(p) ==
  LET granted == send_packet_to_node(toNode, {active_node}, "SEND_PAGE")
  IN /\ Acknowledged(p)
     /\ \/ /\ ~transaction_active \/ expected_acks = 0
           /\ UNCHANGED <<seqVars, entry, toNode>>
        \/ /\ transaction_active /\ expected_acks > 1
           /\ expected_acks' = expected_acks - 1
           /\ UNCHANGED <<transaction_active, active_node, queue, entry, toNode>>
        \/ /\ transaction_active /\ expected_acks = 1 /\ queue = << >>
           /\ expected_acks' = 0
           /\ toNode' = granted
           /\ End
           /\ UNCHANGED <<queue, entry>>
        \/ /\ transaction_active /\ expected_acks = 1 /\ queue # << >>
           /\ execute_gpd_transaction(Head(queue), granted, 0)
           /\ queue' = Tail(queue)

----------------------------------------------------------------------------
(* The nodes. *)

SendRequest(n, type) ==
  /\ waiting[n] = "none"
  /\ n \in node_fds
  /\ copy[n] = "INVALID" \/ (copy[n] = "SHARED" /\ type = "WRITE")
  /\ waiting' = [waiting EXCEPT ![n] = type]
  /\ fromNode' = [fromNode EXCEPT ![n] = Append(@, type)]
  /\ UNCHANGED <<seqVars, entry, linkVars, toNode, copy>>

RecvGrant(n) ==
  /\ toNode[n] # << >> /\ Head(toNode[n]) = "SEND_PAGE"
  /\ toNode' = [toNode EXCEPT ![n] = Tail(@)]
  /\ copy' = [copy EXCEPT ![n] =
                IF waiting[n] = "WRITE" THEN "MODIFIED" ELSE "SHARED"]
  /\ waiting' = [waiting EXCEPT ![n] = "none"]
  /\ UNCHANGED <<seqVars, entry, linkVars, fromNode>>

RecvInvalidate(n) ==
  /\ toNode[n] # << >> /\ Head(toNode[n]) = "INVALIDATE"
  /\ toNode' = [toNode EXCEPT ![n] = Tail(@)]
  /\ copy' = [copy EXCEPT ![n] = "INVALID"]
  /\ fromNode' = [fromNode EXCEPT ![n] = Append(@, "ACK")]
  /\ UNCHANGED <<seqVars, entry, linkVars, waiting>>

Stall(n) ==
  /\ faults < MaxFaults
  /\ n \in Faulty \cap (node_fds \ stalled)
  /\ stalled' = stalled \cup {n}
  /\ faults' = faults + 1
  /\ UNCHANGED <<seqVars, nodeVars, entry, node_fds, toNode, fromNode>>

Resume(n) ==
  /\ n \in stalled
  /\ stalled' = stalled \ {n}
  /\ UNCHANGED <<seqVars, nodeVars, entry, node_fds, faults, toNode, fromNode>>

\* The connection is closed with what it carries; the node keeps its copy.
Disconnect(n) ==
  /\ faults < MaxFaults
  /\ n \in Faulty \cap node_fds
  /\ node_fds' = node_fds \ {n}
  /\ faults' = faults + 1
  /\ toNode' = [toNode EXCEPT ![n] = << >>]
  /\ fromNode' = [fromNode EXCEPT ![n] = << >>]
  /\ UNCHANGED <<seqVars, nodeVars, entry, stalled>>

----------------------------------------------------------------------------

\* coordinator_sequencer_init; every node is connected.
Init ==
  /\ transaction_active = FALSE
  /\ active_node = NoNode
  /\ expected_acks = 0
  /\ queue = << >>
  /\ entry = gpd_init
  /\ node_fds = Nodes /\ stalled = {} /\ faults = 0
  /\ toNode = [n \in Nodes |-> << >>]
  /\ fromNode = [n \in Nodes |-> << >>]
  /\ copy = [n \in Nodes |-> "INVALID"]
  /\ waiting = [n \in Nodes |-> "none"]

Process(n) == process_node_request(n) \/ process_node_invalidate_ack(n)
Receive(n) == RecvGrant(n) \/ RecvInvalidate(n)

Next ==
  \E n \in Nodes :
    \/ Process(n) \/ Receive(n)
    \/ \E type \in ReqType : SendRequest(n, type)
    \/ Stall(n) \/ Resume(n) \/ Disconnect(n)

Spec == Init /\ [][Next]_vars

\* Packets are delivered and handled.
FairSpec ==
  Spec /\ \A n \in Nodes : WF_vars(Process(n)) /\ WF_vars(Receive(n))

----------------------------------------------------------------------------
(* Properties. *)

\* Every variable keeps its type; bit 0 never becomes a sharer.
TypeOK ==
  /\ transaction_active \in BOOLEAN
  /\ active_node \in Nodes \cup {NoNode}
  /\ expected_acks \in Nat
  /\ queue \in Seq(Request)
  /\ entry \in Entry
  /\ node_fds \subseteq Nodes /\ stalled \subseteq Nodes
  /\ faults \in 0..MaxFaults
  /\ toNode \in [Nodes -> Seq({"SEND_PAGE", "INVALIDATE"})]
  /\ fromNode \in [Nodes -> Seq(ReqType \cup {"ACK"})]
  /\ copy \in [Nodes -> {"MODIFIED", "SHARED", "INVALID"}]
  /\ waiting \in [Nodes -> ReqType \cup {"none"}]

Has(seq, x) == \E i \in DOMAIN seq : seq[i] = x

\* Node n has been told to drop its copy, or has acknowledged that.
Owes(n) == Has(toNode[n], "INVALIDATE") \/ Has(fromNode[n], "ACK")

\* Node n has, or is being sent, a copy; one it may write.
Holding(n) == copy[n] # "INVALID" \/ Has(toNode[n], "SEND_PAGE")
Writable(n) ==
  copy[n] = "MODIFIED" \/ (Has(toNode[n], "SEND_PAGE") /\ waiting[n] = "WRITE")

\* Node n may do more with its copy than the directory says.
Beyond(n) ==
  \/ Holding(n) /\ n \notin holders_mask(entry)
  \/ Writable(n) /\ n # entry.owner

\* Acks are counted, not matched, and still none closes a transaction early:
\* the active transaction waits for every node that has yet to acknowledge
\* and for every node with a copy the directory no longer allows, also if
\* its INVALIDATE was lost.  While no connection fails it waits for nobody
\* else.
AcksBelong ==
  LET unsettled == {n \in Nodes : Owes(n) \/ Beyond(n)}
  IN /\ Cardinality(unsettled) <= expected_acks
     /\ faults = 0 => expected_acks <= Cardinality({n \in Nodes : Owes(n)})
     /\ expected_acks > 0 => transaction_active

\* Node n's request is deferred and no transaction is active whose last ack
\* would start it.
Stranded(n) ==
  ~transaction_active /\ \E i \in DOMAIN queue : queue[i].node = n

\* While no connection fails every request is granted, however often the
\* other nodes ask, with one exception, which the code does have: a deferred
\* request that is granted at once starts no other (line 204), and the others
\* wait for ever if no transaction is active from then on.
GrantedUnlessStranded ==
  \A n \in Nodes :
    waiting[n] # "none" ~> \/ waiting[n] = "none" \/ faults > 0
                          \/ []Stranded(n)

\* The sequencer keeps the promise of the protocol, whatever fails: nobody
\* has a copy beside a writer.
Abstract == INSTANCE MSI
ImplementsMSI == Abstract!Spec
=============================================================================
