--------------------------- MODULE CoherenceTest ---------------------------
(***************************************************************************)
(* The coherence test: coherence_test_driver.py makes the nodes of a       *)
(* cluster, each in the command loop of coherence_test.c, access one page  *)
(* in a fixed order, and waits for the RESULT of a command before it sends *)
(* the next.  Composed with TeleportDSM: the driver decides which access   *)
(* starts; everything below it is the system's own next-state relation.    *)
(***************************************************************************)
EXTENDS TeleportDSM

CONSTANT Scripts   \* the scripts: sequences of [thread, op]

ASSUME ScriptsAssumption ==
  \A s \in Scripts : s \in Seq([thread : Threads, op : {"R", "W"}])

VARIABLES
  script,   \* the script of this run
  at        \* the command the driver sends next

testVars == <<vars, script, at>>

TestInit == Init /\ script \in Scripts /\ at = 1

\* send(node, ...), once the RESULT of the command before it has arrived:
\* READ and WRITE are one access each.  (The *slot that the WRITE result
\* prints is not modelled: it is the value the store left.)
Command ==
  /\ at <= Len(script)
  /\ \A t \in Threads : thr[t].pc = "run"
  /\ LET c == script[at] IN
       \/ c.op = "R" /\ Load(c.thread)
       \/ c.op = "W" /\ Store(c.thread)
       \/ Fault(c.thread, c.op)
  /\ at' = at + 1
  /\ UNCHANGED script

\* The DSM underneath: everything but the start of an access.
Underneath ==
  /\ \/ \E t \in Threads : thr[t].pc = "again" /\ App(t)
     \/ \E n \in Nodes : FaultHandler(n) \/ QueueSession(n) \/ Serve(n)
                         \/ EvictVisit(n)
     \/ \E n, p \in Nodes : PeerSession(n, p)
  /\ UNCHANGED <<script, at>>

TestNext == Command \/ Underneath

TestSpec == TestInit /\ [][TestNext]_testVars

\* wait_for_result polls until the command is answered.
TestFairSpec == TestSpec /\ Fairness /\ WF_testVars(Command)

----------------------------------------------------------------------------
(* Properties. *)

\* Thread t completes an access in this step.
Completes(t, op) ==
  /\ thr'[t] = Running
  /\ \/ thr[t] = [pc |-> "again", op |-> op]
     \/ at' # at /\ script[at] = [thread |-> t, op |-> op]

\* What the driver asserts of every READ: it returns what the writes before
\* it, on whatever node, have left (lines 131 and 147).
ReadsSeeAllWrites ==
  [][\A t \in Threads : Completes(t, "R") => mem[NodeOf[t]].val = 1..stores]_testVars

\* A WRITE takes effect on the only mapped copy of the page, and on top of
\* all earlier writes: every other node has been invalidated.
WritesAreExclusive ==
  [][\A t \in Threads : Completes(t, "W") =>
       /\ mem[NodeOf[t]].val = 1..stores
       /\ \A n \in Nodes \ {NodeOf[t]} : ~mem[n].mapped]_testVars

\* The driver gets a result for every command.
ScriptCompletes == <>(at > Len(script) /\ \A t \in Threads : thr[t].pc = "run")

=============================================================================
