# TeleportVM: a TLA+ model of the shared memory engine

TeleportVM gives the processes of a cluster one region of shared memory. An
access to a page that is not here suspends the thread (`userfaultfd`); the node
asks the coordinator for the page, and the coordinator keeps an MSI directory
and invalidates copies. This directory holds TLA+ specifications of that
engine, TLC configurations, and proofs checked by TLAPS. Line numbers refer to
the files under `src/`.

## 1. Inventory

| part | state | operations | talks to |
|---|---|---|---|
| application threads (`benchmark.c`, `coherence_test.c`) | running or suspended in the kernel | loads and stores | the kernel |
| fault handler (`fault_handler.c`) | the event it has read | read an event; under the page lock set the status and push a request | queue, page table |
| request queue (`queue.c`) | ring of 128 requests, eventfd | push, pop | handler thread to engine thread |
| network engine (`network_engine.c`) | `gpd_pending_reqs`, `node_fds`, `coordinator_fd`, sessions | pop requests; handle JOIN, REQUEST_PAGE_READ/WRITE, SEND_PAGE, INVALIDATE, INVALIDATE_ACK | TCP, directory, page table, `userfaultfd` |
| page table (`dsm_core.c`, `main.c`) | status and lock per page | | handler and engine |
| directory (`gpd.c`) | state, owner, bitmap per page, on every node | to shared, to modified | engine, eviction |
| eviction (`eviction.c`, `main.c`) | ring of pages with status and access bit | a visit of the clock hand every 200 ms | kernel, the local directory |
| coherence test (`coherence_test*.`) | | a script of reads and writes on two nodes | application threads |
| wire (`network_engine.c`) | sessions with a packet buffer, epoll interest, sockets | send in pieces with a 100 ms limit, receive in pieces, close a session | TCP, epoll |
| sequencer (`coordinator_sequencer.c`) | per page: active transaction, awaited acks, deferred requests | request, ack | the directory; nothing calls it |

What is hard. Five kinds of threads (application, handler, engine, eviction, and
the engines of other nodes) share one page. The engine drops the page lock
between copying a page and unmapping it; events are read before the lock is
taken; the single pending record per page is used by all requesters; acks are
counted, not matched; eviction works under a lock of its own; joins and other
packets may be given up after 100 ms, in the middle of a packet too; sessions are
edge-triggered; a worker that loses the coordinator becomes one. A thread that
nobody wakes is suspended for ever. `PROJECT.json` lists these hazards with their lines and the
properties that cover them.

What makes the parts correct. The queue: a bounded FIFO that loses no wakeup.
The directory: its three fields agree. The engine: who holds a copy is
registered and reachable, every awaited ack comes, `PAGE_VALID` means mapped,
every suspended thread is woken. The whole: reads see all earlier writes,
writes are exclusive. The wire: a FIFO of packets, and every end of a connection
is noticed. Eviction: an accessed page is left alone for a round of the clock hand, and
no page is overlooked. The sequencer: MSI, and no request is forgotten.

## 2. Modules

| module | models | source |
|---|---|---|
| `GPD` | one directory entry and its transitions | `gpd.c`, `eviction.c:25-60` |
| `TeleportDSM` | all threads of all nodes and the connections, for one page | `network_engine.c`, `fault_handler.c`, `eviction.c`, `main.c` |
| `CoherenceTest` | `TeleportDSM` driven by scripts of accesses | `coherence_test.c`, `coherence_test_driver.py` |
| `RequestQueue` | ring, lock, eventfd, edge-triggered epoll | `queue.c`, `network_engine.c:234-245, 295-299` |
| `FIFO` | the abstract queue `RequestQueue` implements | |
| `Benchmark` | `TeleportDSM` under the benchmark's stores and validation | `benchmark.c` |
| `Crash` | `TeleportDSM` with processes that end and sessions that are closed | `network_engine.c:803-816` |
| `Wire` | one direction of a connection, in bytes; implements `FIFO` until a packet is torn | `network_engine.c:60-81, 410-460` |
| `EvictionRing` | the clock algorithm over all pages | `eviction.c:84-156`, `main.c:20-29` |
| `Sequencer` | the transactions of the unused coordinator | `coordinator_sequencer.c` |
| `MSI` | what coherence promises; `Sequencer` implements it | |
| `TeleportDSMProofs`, `AckProofs`, `FaultProofs`, `OneCopyProofs` | theorems about `TeleportDSM` | |
| `RequestQueueProofs`, `WireProofs`, `EvictionRingProofs`, `SequencerProofs` | theorems about the others | |
| `MC*` | instances for TLC | |

### TeleportDSM

*State.* `thr` and `mem` are the kernel's side: what each thread does, and each
node's mapping of the page (present, write-protected, content). `handler`,
`status`, `reqq`, `engine`, `gpd`, `pend`, `node_fds`, `accessed`, `ring` are
the program's variables per node; `chan` are the TCP streams.

*Actions.* `Load`, `Store`, `Fault` (application); `ReadFault`, `HandleFault`
(the two halves of the handler's loop, since a page may arrive in between);
`PopForward`, `PopUpgrade`, `PopFetch`, `PopZeroFill` (the branches for a popped
request); `RecvJoin`, `RecvAnswerWrite`, `RecvAnswerRead`, `RecvPage`,
`RecvInvalidate`, `RecvAck`, `RecvRequestServe`, `RecvRequestFetch`,
`RecvRequestZero` (the branches for a packet); `ServeWrite`, `ServeRead` (after
the unlock of line 672); `EvictInspect`, `EvictPage` (the load of the access bit
and what follows it: a page may be installed in between).

*Abstractions.*

- One page. All tables are indexed by page and no handler touches another index.
  The queue is the exception: its slots hold requests for this page only.
- The content of a page is the set of the stores it shows, each store being to a
  word of its own; a page of zeros is the empty set. `memcpy` is one step.
- The kernel. `UFFDIO_COPY` with mode 0 maps the page writable, for read faults
  too, and wakes all threads suspended on the page; so does
  `UFFDIO_WRITEPROTECT` with mode 0. `MADV_DONTNEED` wakes nobody. A thread
  that is woken repeats its access and may fault again.
- The engine handles the packets of a session until the socket is empty, then the
  next session. Packets of several sessions may be handled here in any order that
  keeps each stream's; this is what network delays allow anyway. Popping the
  queue is different: it goes on until the queue is empty (`engine` = "drain").
- Between lines 364 and 379 the page lock is free; what the handler may do there
  it may as well do before the pop, so `PopZeroFill` is one step.
- Eviction: the ring's lock and `trylock`, other pages, and the clearing of access
  bits of entries whose status is 0 are left out. An entry's status never becomes
  1 again, so a page is evicted at most once per node (`EvictionRing` has the
  ring with all pages). The coordinator never evicts (its `net_fd` is -1).
  `Evictable` = {} leaves the eviction thread out. That is the program on a worker
  whose page was evicted before it was first used, as the thread does with all
  four pages in the first second of an idle worker. It is not the program after the
  eviction of a page in use, which stays `PAGE_VALID` and unmapped (section 3).
  Loading and clearing the access bit are one step (a mark between the two has the
  effect of one before both), and so are unmapping and the change of the worker's
  own directory: nothing but eviction decides by that entry.
- Connections are established and stay (`Crash` ends them); a NODE_JOIN may have
  been given up (`Init`). Other sends succeed (`Wire` has those that do not).

### RequestQueue

`queue_push` fills the slot and, still under the lock, writes the eventfd
(`Notify`). The engine's side is `Wakeup` (epoll returns an edge),
`ReadCounter`, `queue_pop` until `queue_pop_empty`. The refinement mapping reads
the ring from `head` on, modulo the capacity. `TeleportDSM` uses the queue as a
sequence on the strength of this refinement.

### Wire

A byte is a packet and a place in it. `StartSend`, `SendBytes`, `GiveUp` and
`SendError` are `send_all_nonblocking`; `Arrive`, `Close`, `ArriveEnd` and `Reset`
are TCP, with a bounded buffer, so that a slow receiver makes `send` return EAGAIN;
`EpollWait`, `Writable`, `Recv` and `RecvNothing` are the event loop for a
peer session. A connection the node opened itself starts with EPOLLIN and
EPOLLOUT, an accepted one with EPOLLIN (`Init` has both). `TeleportDSM` takes the
stream for a queue of packets; `FIFOUntilTorn` is what justifies that, and the
point where it ends. Which packet is sent does not depend on the stream: a
caller's packet is chosen when its first byte is sent.

### Crash

`Crash(n)` ends a process: threads, memory and queue are gone, what it had sent
is still delivered. `CloseSession` is the branch of lines 803-816 after recv
returned 0: `node_fds` loses the peer, on a worker `coordinator_fd` becomes -1, the
pending record and the directory stay as they are. From then on the worker's
engine takes the coordinator's branches; the model says so by instantiating
`TeleportDSM` with that node as `Coord` for its queue events. Pages
are not evicted (`Evictable` = {}). A send to a process that has
ended has no effect here. In the program the second such send raises SIGPIPE,
which is not handled and ends the sender too.

### EvictionRing

`Inspect` moves the hand and loads the access bit; `Clear`, `Skip` or `Evict`
follow; `dsm_mark_accessed` may happen in between. Only this thread takes the
ring's locks, so `trylock` succeeds. Two variables are there for the properties
only: `inCall` records which pages were marked during the call under way, `moved`
how far the hand has moved since a page was last marked. Neither looks at the access
bit, so a mark that is lost counts like any other.

### Sequencer

`process_node_request` and `process_node_invalidate_ack` run under the page lock
and are one step each. Nothing calls them, so the nodes are the least their
interface asks for: a node has one request at a time, an INVALIDATE is answered
by dropping the copy and an ack. A stalled connection drops the packets sent to
it (`send_packet_to_node` does not wait; a packet it sends in part is counted as
dropped), and a lost one stays in the directory. `Faulty` and `MaxFaults` bound which
connections fail and how often. `ImplementsMSI` maps the nodes'
copies to `MSI`, which says no more than: a copy for writing excludes any other.

### Benchmark

One thread per node writes the words of a page in order, then reads them back
(the program's four threads write a page each). All nodes write the same values.
`log` says which word each store of `TeleportDSM` wrote.

## 3. Runs

Passing runs.

| run | instance | shows |
|---|---|---|
| `single_node` | 1 node, 3 threads, 4 stores | `AccessesComplete`, `NoStaleCopy`: within a node every faulting access completes and no store is lost |
| `two_nodes` | 2 nodes, 2+1 threads, 2 stores | `FaultsResolve`: every suspended thread is woken; `NoForgottenFault`: something is under way for every fault read; `ValidIsMapped` |
| `two_writers` | 2 nodes, 1 thread each, stores only, 4 stores | `OneCopy` |
| `three_nodes` | 3 nodes, 2 stores, one worker may evict | types, `DirectoryConsistent`, `ChannelDiscipline`, `HoldersRegistered`, `WorkerDirectoryPassive`, `AcksInFlight` |
| `migrating` | 3 nodes, the 2022 scripts of five accesses `MCMigrating` | `ReadsSeeAllWrites`, `WritesAreExclusive`, `ScriptCompletes` |
| `request_queue` | capacity 3, 5 pushes | `NoLostWakeup`, `EveryRequestPopped`, `ImplementsFIFO` |
| `sequencer` | 4 nodes, a fault at node 1 | `ImplementsMSI` whatever is lost; `AcksBelong`: a transaction waits for every node that owes an ack or holds too much; `GrantedUnlessStranded`: while nothing fails a request is granted, or is for ever deferred with no transaction active |
| `wire` | packets of 3 bytes, 4 bytes of buffer, 4 packets, 2 sends given up | `NoLostEdge`, `PacketsHandled`, `SessionCloses`, `FIFOUntilTorn` |
| `eviction_ring` | 4 pages, 5 marks | `SecondChance`: a whole round between a mark and the eviction, unless the mark came after the evicting visit's load; `SweepIsThorough` |
| `crash` | 2 nodes, 2+1 threads, 2 stores, 1 crash | `SurvivorsServed`: only an unanswered question leaves a survivor suspended; `OrphansServed`; `ClosedNotAsked`; `ValidIsMapped` |

`migrating` states the precondition under which sequential accesses are
coherent (`Served`): a read comes from the last writer, or after the
coordinator has had the page since the last write, or from the coordinator
itself when the page has been used; a write does not come from a node that still
has a copy it was given for reading. The disagreements below show that each
part of it is needed.

Violation runs: each checks what the documentation or the test says.

| run | claim | what happens |
|---|---|---|
| `driver` | the driver's assertion of line 147 | the coordinator's read copy is writable (line 538), its write is not noticed, node 2 reads the old value |
| `benchmark` | the benchmark validates all matrix values (`README.md:169`) | a store of the coordinator between lines 671 and 682 is lost, its read-back fails |

Further disagreements between the code and its README, which the same models show
(`MCCoherenceTest` has the scripts):

- *A read fetches from the owner* (`README.md:57`): a SHARED entry has no owner, so
  after worker 2 wrote and worker 3 read, the coordinator's read is filled with
  zeros (line 378; `MCSecondReader`, `ReadsSeeAllWrites`).
- *A write drops every other copy* (`README.md:59`): the coordinator's first write
  ignores the invalidate mask (line 396); a worker that had read the page keeps
  its copy (`MCFirstReader`, `WritesAreExclusive`).
- *The suspended thread resumes* (`README.md:11`): eviction leaves `PAGE_VALID`, so
  the next read fault of that worker is taken for one already answered
  (`eviction.c:144`, `fault_handler.c:49`; `MCRereads` with that worker in
  `Evictable`, `ScriptCompletes`).
- *One write transaction per page* (`README.md:227`): the pending record has no
  busy check and a second request overwrites the first (lines 337, 367, 732). With
  three nodes `FaultsResolve` fails for this reason. With a second thread on the
  coordinator `OneCopy` fails: its request, popped while the worker's ack is
  awaited, is filled with zeros (lines 378-396).
- *Partial packets are handled* (`README.md:84`): they are, until a send is given
  up after its first byte. Without the `torn` disjunct both `PacketsHandled`
  and `FIFOUntilTorn` fail: the receiver completes the torn packet with the
  bytes of the next one and never gets back in step.
- *The write-back* (`README.md:92`): never happens. `eviction.c:128` asks the
  worker's own directory, in which the worker is never the owner
  (`WorkerDirectoryPassive`).
- *A memory budget kept by eviction* (`README.md:87`): there is none to keep. The
  thread evicts without looking at any pressure, and an entry's status becomes 0
  with its eviction (`eviction.c:145`) and never 1 again, so that every page is
  evicted at most once, used or not. What is resolved after that stays in memory:
  calls return -1 although pages are there that nobody accesses. This is why
  `SweepIsThorough` must excuse every page with status 0.
- *The second chance* (`README.md:90-91`): the access bit is not looked at again between
  its load (`eviction.c:116`) and the unmapping (line 144). A page that is resolved in
  between is evicted at once: `SecondChance` fails without its case `moved[i]` = 0.
- The sequencer's deferred requests: a completed transaction starts one of them
  (`coordinator_sequencer.c:204`), and if that one is granted at once, nothing
  starts the next. With four nodes and no faults a node can wait for ever: while one
  node's read waits for the old writer's ack the two others ask to read, the first of
  them is granted at once, and the second is left (`Stranded`).
  `GrantedUnlessStranded` fails without its last disjunct. With three nodes this does
  not happen: two requests are only ever deferred behind a write, and the first of
  them has to wait for the writer's ack itself.
- After a crash of the owner its last stores are gone and the next reader gets
  zeros; after a crash of the coordinator every worker goes on with a page of its
  own (`OrphansServed` says only that its threads go on).

The project's README mentions (lines 263-267) that races around concurrent
faults and eviction are known and unresolved; `driver` and the first two of the
list need no concurrency. These and the hang after an eviction were also observed
with the compiled program, driven by the commands of their scripts, and so was
a script of `migrating`, which passed.

*Bounds.* `MaxStores` bounds the stores; faults, requests and packets are bounded
by the threads. Three nodes are needed for a request to be overwritten by another
worker's and for invalidations of a third party; two threads on a node for faults
that overlap there. A queue of one slot is full often. Five accesses cover a
page that goes from one worker over the coordinator to the other and back. The
queue's capacity of 3 with 5 pushes wraps both indices and fills the ring.
Packets of three bytes in a buffer of four make pieces, partial sends and a packet
that is given up in its middle; the fourth packet comes after two that were.
The sequencer needs four nodes for a request to be stranded. One fault lets it lose
the packets to a node for a while, or a connection; which node has it does not matter,
for the nodes are interchangeable, and the proofs allow any number. Five marks on
four pages let a page be marked again after its bit was cleared. Two nodes are
enough for a crash on either side of a connection.
`CHECK_DEADLOCK FALSE` appears where the program may stop: scripts and workloads
of stores only are finite, an evicted page hangs its reader.

*Fairness.* Weak fairness for each node's fault handler, for its queue event, for
each of its peer sessions, for the continuation after a `memcpy`, and for
threads that were woken: all are threads the operating system keeps scheduling,
and the engine serves every event `epoll_wait` returns. Nothing is assumed of
application threads starting accesses, nor of eviction. `AccessesComplete` is
not claimed for several nodes: a woken thread can find the page gone again,
any number of times.

In `Crash` the same holds for the processes that are alive, and the end of a
connection is reported like a packet. In `Wire` the sender's loop, TCP and the
receiver's loop go on; giving up, closing and resetting are never forced. In
`Sequencer` packets are delivered and handled, nobody has to ask.

## 4. Proofs

`TeleportDSMProofs` proves, for all sets of nodes and threads, workloads and
queue capacities (assumptions: the named `ASSUME`s of `GPD` and `TeleportDSM`;
node ids are finitely many, none is 0, the coordinator is one of them and does
not evict):

- `TypeCorrect`, `DirectoryCorrect`, `ChannelsCorrect`, `HoldersReachable`,
  `WorkersPassive`: `Spec => []P` for `TypeOK`, `DirectoryConsistent`,
  `ChannelDiscipline`, `HoldersRegistered`, `WorkerDirectoryPassive`;
- `MappingCorrect`: `ValidIsMapped` if no page is evictable.

*The inductive invariant* `IInv`. None of the five is inductive alone. That a
bitmap holds node ids only depends on the old owner being a node whenever the
entry is MODIFIED (`DirectoryConsistent`) and on the ids in packets; that holders
are reachable depends on pending requesters and the node being served being
reachable; that the coordinator is never asked by itself depends on who sends
what (`ChannelDiscipline`), and that on workers never owning the page in their
own directories, for a worker that did would send requests itself. `IInv`
therefore combines, beside the types, `EntryOK` of all entries, `ChanOK` of all
packets, `WorkerDirectoryPassive`, and: the coordinator's holders, its pending
requester and the node it serves are in `node_fds`, or the coordinator itself.
There is a lemma for each kind of step, and below them lemmas for the directory
transitions, for sending and receiving, and for granting ownership.

`ValidIsMapped` is inductive together with `IInv` and the fact that every ring
entry is evicted; the hang after an eviction (section 3) shows that the latter is needed.

`AckProofs` proves `AcksAreComing` (`AcksInFlight`): the acks the coordinator waits
for never outnumber the INVALIDATEs and acks under way, also when a pending record
has been overwritten. It is inductive with `IInv`, which says that only the
coordinator invalidates and only workers acknowledge. The work is in counting:
taking the first packet of a channel renumbers all others, so the lemmas show that
the set of places loses exactly one element, or none, and that a broadcast adds one
for each destination.

`FaultProofs` proves, for any number of threads and any capacity of the queue:

- `AloneKeepsStores`: `NoStaleCopy` if there is only the coordinator. A fault that
  finds the queue full resets the page's status to EMPTY, and a request popped after
  that fills the page with zeros. `AloneInv` says why this never meets a page that
  is mapped: once it is installed no thread is suspended, so no event comes in, and the
  one the handler may hold finds the status VALID and room in the queue.
- `FaultsRemembered`: `NoForgottenFault` with at most one worker and without
  eviction. `FaultsInv` says, for each node with a thread that waits, where the
  request or its answer is (`ServedCoord`, `ServedWorker`): in the handler, the queue,
  a channel, the pending record, or the engine between the copy and the send. A read
  popped while the page is present does nothing, so then a write must be coming.
  Both hypotheses are needed: with a second worker TLC shows a pending record
  overwritten, with an evictable page the hang of section 3.

`OneCopyProofs` proves `OnlyOneCopy` (`OneCopy`) for two nodes with one thread each
that only store, without eviction, for any number of stores and any queue. These
are again the limits of the program: with a second thread on the coordinator
(section 3), or with three nodes, TLC finds two copies. `PairInv` adds to `FaultsInv`
where each side's only request is (`WorkerTurn`, `CoordTurn`), through which stages
the page leaves the worker (`FetchOK`, `DropOK`), that the directory names the node
that has the page or is about to get it (`OwnerOK`), and the order of packets on
which all of this rests (`InOrder`): the granted page is ahead of the request that
fetches it back, the ack ahead of the worker's next request.

`RequestQueueProofs` proves for every capacity `QueueIsFIFO` (`Spec =>
ImplementsFIFO`), `WakeupsKept` (`NoLostWakeup`) and `RingCorrect` (`TypeOK`). The
invariant adds that the tail is `size` slots after the head, modulo the capacity,
and that a woken engine has a counter to read: were it 0, the engine would go
back to sleep with the edge used up. The refinement has a lemma for each
operation: a push appends to the sequence read from the head and touches no slot
in use, a pop takes its first element and shifts the others by one position.

`WireProofs` proves for all sizes of packets and buffers `EdgesKept`
(`NoLostEdge`, inductive with the types), `WireTypeCorrect` (the packet buffer
does not overflow) and `StreamIsFIFO` (`FIFOUntilTorn`). The last needs `StreamInv`:
packet buffer, socket and network, joined, are the packets sent and not handled;
byte b of packet a is at position `Place(a, handled, b)`, and the stream ends where
`total_sent` says. It holds until a packet is torn. Moving bytes leaves the
stream as it is, sending extends it, and a full packet buffer is its first packet.

`EvictionRingProofs` proves for a ring of any size `SecondChanceGiven`
(`SecondChance`), `SweepThorough` (`SweepIsThorough`) and `RingTypeCorrect`. Both
invariants say how far back the hand has left each entry (`Back`). For the first,
`ChanceInv`: a mark made after the hand moved on from the entry is still in the
bit, and one that may have been cleared is as old as the hand's visit, so that the
next visit is a whole round later. For the second, `SweepInv`: an entry that the call
has passed once has a clear bit or an excuse, and one it has passed twice has an
excuse.

`SequencerProofs` proves for any number of nodes, faults included,
`SequencerTypeCorrect`, `AcksBelongToTransaction` (`AcksBelong`) and `SequencerIsMSI`
(`ImplementsMSI`). The invariant `Inv` relates the packets under way to the directory: a
node has one request, which is on its way, deferred, active or granted
(`Requests`); an INVALIDATE is the last packet to a node, and a node that has
acknowledged has no copy and gets none (`Channels`); nobody holds a copy beside a
writer, granted copies included (`Exclusive`); the entry already shows the active
request (`ActiveOK`); and the count of awaited acks is at least the number of nodes
that are not settled. One call may complete a transaction and start the
next deferred one; `Quiet` is the state between the two, in which nobody owes anything.

Assumptions are in all cases the named `ASSUME`s of the modules: sizes and
capacities are positive, sets of nodes are finite, 0 is not a node. Hypotheses on the
instance (one worker, no eviction, stores only) are part of the theorems' statements.

*Only model-checked:* all liveness (`FaultsResolve`, `AccessesComplete`,
`ScriptCompletes`, `EveryRequestPopped`, `PacketsHandled`, `SessionCloses`,
`SurvivorsServed`, `OrphansServed`, `GrantedUnlessStranded`; outside the
reach of the installed provers), the script properties (`ReadsSeeAllWrites`,
`WritesAreExclusive`), and what `Crash` keeps (`ClosedNotAsked`, and `ValidIsMapped`
there).

## 5. Not modelled, and plan

Not modelled: address arithmetic, the set-up of sockets and `userfaultfd`
(`dsm_core.c`), argument parsing, output, the benchmark's timing, the destructors,
and the numbers of file descriptors: a descriptor that is closed and given to
another connection while the pending record still has it (line 644) cannot be
told apart here. A full request queue that drops a fault for a page with no
request in it (`fault_handler.c:64`) cannot occur with the four threads the
program has on a node and 128 slots.

Next:

1. Theorems about `Crash`: `ClosedNotAsked`, and `ValidIsMapped` when processes end.
2. The script properties, from an invariant that follows the script from access to
   access.
