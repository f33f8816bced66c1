-------------------------- MODULE MCCoherenceTest --------------------------
(***************************************************************************)
(* Scripts for CoherenceTest: the driver's own, and families of scripts.   *)
(* Node 1 is the coordinator and every node has one thread, of its id.     *)
(***************************************************************************)
EXTENDS CoherenceTest

CONSTANTS NodeCount, ScriptLength

MCNodes == 1..NodeCount
MCNodeOf == [t \in MCNodes |-> t]
MCOps == [t \in MCNodes |-> {"R", "W"}]

W(t) == [thread |-> t, op |-> "W"]
R(t) == [thread |-> t, op |-> "R"]

\* coherence_test_driver.py, steps 1 to 4.
DriverScript == <<W(2), R(1), W(1), R(2)>>
MCDriver == {DriverScript}

\* A second node reads what a worker has written.
MCSecondReader == {<<W(2), R(3), R(1)>>}

\* A worker reads the page before the coordinator first writes it.
MCFirstReader == {<<R(2), W(1)>>}

\* A worker reads its own write again.
MCRereads == {<<W(2), R(2)>>}

\* The accesses before the i-th, from the last write on.
Since(s, i) ==
  {j \in 1..(i - 1) : \A k \in (j + 1)..(i - 1) : s[k].op = "R"}

\* The i-th access is one the code serves: a read comes from the writer, or
\* when the coordinator has the page or is the first to ask for it; a write
\* does not come from a node that still has a copy it was given for reading,
\* or has given one away without being the coordinator.
Served(s, i) ==
  LET t == s[i].thread
      since == Since(s, i)
      users == {s[j].thread : j \in since}
      wrote == \E j \in since : s[j] = W(t)
  IN IF s[i].op = "R"
     THEN wrote \/ 1 \in users \/ (t = 1 /\ since # {})
     ELSE t \notin users \/ (wrote /\ (t = 1 \/ users = {t}))

AllScripts == [1..ScriptLength -> [thread : MCNodes, op : {"R", "W"}]]
MCMigrating == {s \in AllScripts : \A i \in 1..ScriptLength : Served(s, i)}
=============================================================================
