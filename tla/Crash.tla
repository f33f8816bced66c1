------------------------------- MODULE Crash -------------------------------
(***************************************************************************)
(* TeleportDSM with processes that end: the connection of a node that is   *)
(* gone is closed by the engine at its other end, after the packets it     *)
(* still carried (network_engine.c, lines 803 to 816).                     *)
(*                                                                         *)
(* A worker that closes the connection to the coordinator sets its         *)
(* coordinator_fd to -1.  From then on its engine takes the branches of a  *)
(* coordinator, with the directory and the pending record it has itself:   *)
(* it runs as TeleportDSM does on a node called Coord.                     *)
(*                                                                         *)
(* The eviction thread is left out (Evictable = {}).                       *)
(***************************************************************************)
EXTENDS TeleportDSM

CONSTANT MaxCrashes   \* bound: processes that end

ASSUME CrashAssumption == MaxCrashes \in Nat

VARIABLES
  dead,     \* nodes whose process has ended
  closed    \* closed[n]: the peers whose session n has closed

crashVars == <<vars, dead, closed>>

\* Node n as a coordinator of its own.
Own(n) == INSTANCE TeleportDSM WITH Coord <- n

Orphaned(n) == n # Coord /\ Coord \in closed[n]

CrashInit == Init /\ dead = {} /\ closed = [n \in Nodes |-> {}]

\* A process ends, with its threads, its memory and its queue.  What was sent
\* to it and not read is never read.
Crash(n) ==
  /\ Cardinality(dead) < MaxCrashes
  /\ n \notin dead
  /\ dead' = dead \cup {n}
  /\ thr' = [t \in Threads |-> IF NodeOf[t] = n THEN Running ELSE thr[t]]
  /\ mem' = [mem EXCEPT ![n] = Unmapped]
  /\ status' = [status EXCEPT ![n] = "EMPTY"]
  /\ handler' = [handler EXCEPT ![n] = "none"]
  /\ reqq' = [reqq EXCEPT ![n] = << >>]
  /\ UNCHANGED <<stores, engine, gpd, pend, node_fds, chan, accessed, ring,
                 closed>>

\* Mutants: the session is closed before what it still carries is read;
\* node_fds is left as it is.
CloseSession_drops_packets(n, p) ==
  /\ n \notin dead /\ p \in dead \ closed[n]
  /\ Coord \in {n, p}
  /\ Idle(n)
  /\ chan' = [chan EXCEPT ![p][n] = << >>]
  /\ node_fds' = [node_fds EXCEPT ![n] = @ \ {p}]
  /\ closed' = [closed EXCEPT ![n] = @ \cup {p}]
  /\ UNCHANGED <<appVars, faultVars, status, engine, gpd, pend, accessed,
                 ring, dead>>
CloseSession_keeps_node_fds(n, p) ==
  /\ n \notin dead /\ p \in dead \ closed[n]
  /\ Coord \in {n, p}
  /\ Idle(n) /\ chan[p][n] = << >>
  /\ closed' = [closed EXCEPT ![n] = @ \cup {p}]
  /\ UNCHANGED <<vars, dead>>

\* recv returns 0 on the session of p, after its last packet: node_fds and,
\* on a worker, coordinator_fd are reset.  The pending record is not touched.
CloseSession(n, p) ==
  /\ n \notin dead /\ p \in dead \ closed[n]
  /\ Coord \in {n, p}
  /\ Idle(n) /\ chan[p][n] = << >>
  /\ node_fds' = [node_fds EXCEPT ![n] = @ \ {p}]
  /\ closed' = [closed EXCEPT ![n] = @ \cup {p}]
  /\ UNCHANGED <<appVars, faultVars, status, engine, gpd, pend, chan,
                 accessed, ring, dead>>

----------------------------------------------------------------------------

\* Mutant: coordinator_fd is not reset.
Pops_as_worker(n) == QueueSession(n)

\* The queue event of n, with coordinator_fd as it is now.  An orphan has no
\* peers left.
Pops(n) == IF Orphaned(n) THEN Own(n)!QueueSession(n) ELSE QueueSession(n)
Handles(n, p) == ~Orphaned(n) /\ PeerSession(n, p)

\* A step of a process that is alive.
Live(n, step) == n \notin dead /\ step /\ UNCHANGED <<dead, closed>>

CrashNext ==
  \/ \E n \in Nodes :
       \/ Crash(n)
       \/ Live(n, FaultHandler(n)) \/ Live(n, Pops(n)) \/ Live(n, Serve(n))
       \/ \E p \in Nodes : CloseSession(n, p) \/ Live(n, Handles(n, p))
  \/ \E t \in Threads : Live(NodeOf[t], App(t))

CrashSpec == CrashInit /\ [][CrashNext]_crashVars

\* The fairness of TeleportDSM, for the processes that are alive; the end of
\* a connection is reported to the engine like a packet.
CrashFairness ==
  /\ \A n \in Nodes : /\ WF_crashVars(Live(n, FaultHandler(n)))
                      /\ WF_crashVars(Live(n, Pops(n)))
                      /\ WF_crashVars(Live(n, Serve(n)))
  /\ \A n, p \in Nodes : /\ WF_crashVars(Live(n, Handles(n, p)))
                         /\ WF_crashVars(CloseSession(n, p))
  /\ \A t \in Threads :
       WF_crashVars(Live(NodeOf[t], thr[t].pc = "again" /\ App(t)))

CrashFairSpec == CrashSpec /\ CrashFairness

----------------------------------------------------------------------------
(* Properties. *)

Suspended(t) == thr[t].pc \in {"pending", "waiting"}

\* A node ended before it answered a question of the coordinator, one it had
\* not read or one it was about to answer.
Unanswered ==
  \E p \in dead :
    \/ engine[p].pc = "serve"
    \/ \E m \in InTransit(Coord, p) :
         m.type \in {"INVALIDATE", "REQUEST_PAGE_READ"}

\* The end of a worker suspends nobody else for good, unless it leaves a
\* question of the coordinator unanswered: only then is an ack or a page
\* awaited that never comes.
SurvivorsServed ==
  \A t \in Threads :
    Suspended(t) ~> ~Suspended(t) \/ NodeOf[t] \in dead
                    \/ Coord \in dead \/ Unanswered

\* A worker that has noticed the loss of the coordinator answers the faults
\* of its threads itself from then on, whatever state its page was in.
OrphansServed ==
  \A t \in Threads :
    thr[t].pc = "pending" /\ Orphaned(NodeOf[t])
      ~> ~Suspended(t) \/ NodeOf[t] \in dead

\* The questions on their way from n to p.
Questions(n, p) ==
  OfType(n, p, "INVALIDATE") \cup OfType(n, p, "REQUEST_PAGE_READ")

\* A peer whose session was closed is not asked again: no INVALIDATE and no
\* fetch is sent to it, although the directory still lists it as a holder or
\* owner.
ClosedNotAsked ==
  [][\A n \in Nodes : \A p \in closed[n] :
       Questions(n, p)' = Questions(n, p)]_crashVars
=============================================================================
