----------------------------- MODULE MCGrailFutex -----------------------------
(***************************************************************************)
(* The programs of mt/ with three workers, under every setting of the      *)
(* attributes that lets time pass in them.                                 *)
(***************************************************************************)
EXTENDS GrailFutex

CONSTANTS w1, w2, w3

LOCAL Mt == INSTANCE MtPrograms WITH MtMain <- Main, Workers <- <<w1, w2, w3>>, Rounds <- 2

Detecting == {[detection |-> TRUE, processing |-> p] : p \in {0, 1}}
Costing   == {[detection |-> d, processing |-> 1] : d \in BOOLEAN}

\* The loops of these programs are of calls the detector counts.
Counted ==
  {Mt!Test1, Mt!Test2, Mt!Test3, Mt!Test4, Mt!ScalabilityTest, Mt!ExpMtTest,
   Mt!MutexLockingTest, Mt!CondVarTest, Mt!Sleep, Mt!IoStTest,
   Mt!Poller("gettimeofday"), Mt!Pollers("gettimeofday", "gettimeofday")}

\* The detector does not count clock_gettime, or sees its calls in between.
Uncounted ==
  {Mt!Poller("clock_gettime"), Mt!Pollers("gettimeofday", "clock_gettime")}

MCCases == (Counted \X (Detecting \cup Costing)) \cup (Uncounted \X Costing)

\* The programs of mt/ use the mutex as GrailFutexProofs assumes.
ASSUME ProgramsLockPaired == LocksPaired
=============================================================================
