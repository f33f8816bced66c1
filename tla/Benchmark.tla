----------------------------- MODULE Benchmark -----------------------------
(***************************************************************************)
(* The benchmark of benchmark.c, as it accesses one page of the matrix:    *)
(* on every node one of the threads stores the words of the page in order  *)
(* (matrix_transform_worker), and when all threads have been joined main   *)
(* reads them back in order and compares.  All nodes store the same values *)
(* at the same places.  One thread per node stands for both.               *)
(***************************************************************************)
EXTENDS TeleportDSM

CONSTANT Words   \* words of the page, 1024 in the program

VARIABLES
  pos,   \* thread: 1..Words storing, Words + 1 .. 2 * Words reading back
  log    \* the words that were stored, in the order of the stores

benchVars == <<vars, pos, log>>

BenchInit == Init /\ pos = [t \in Threads |-> 1] /\ log = << >>

Storing(t) == pos[t] <= Words
Word(t) == IF Storing(t) THEN pos[t] ELSE pos[t] - Words
Advance(t) == pos' = [pos EXCEPT ![t] = @ + 1]

matrix_transform_worker(t) ==
  /\ Storing(t)
  /\ \/ Store(t) /\ Advance(t) /\ log' = Append(log, Word(t))
     \/ Fault(t, "W") /\ UNCHANGED <<pos, log>>

\* The loop that compares matrix[i] with its expected value.
Validate(t) ==
  /\ ~Storing(t) /\ pos[t] <= 2 * Words
  /\ \/ Load(t) /\ Advance(t) /\ UNCHANGED log
     \/ Fault(t, "R") /\ UNCHANGED <<pos, log>>

Underneath ==
  /\ \/ \E n \in Nodes : FaultHandler(n) \/ QueueSession(n) \/ Serve(n)
     \/ \E n, p \in Nodes : PeerSession(n, p)
  /\ UNCHANGED <<pos, log>>

BenchNext == Underneath \/ \E t \in Threads : matrix_transform_worker(t) \/ Validate(t)

BenchSpec == BenchInit /\ [][BenchNext]_benchVars

----------------------------------------------------------------------------

\* The words that node n's copy of the page shows.
Shown(n) == {log[s] : s \in mem[n].val}

\* The validation finds every word: "VALIDATION_STATUS:SUCCESS".
ValidationSucceeds ==
  [][\A t \in Threads : pos'[t] # pos[t] /\ ~Storing(t)
       => Word(t) \in Shown(NodeOf[t])]_benchVars
=============================================================================
