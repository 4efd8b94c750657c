----------------------------- MODULE Microbenchmarks -----------------------------
(*******************************************************************************)
(* The gbenchmark fixtures and loop_increment: a process runs one of the       *)
(* benchmarks, all of them over the same harness.                              *)
(*******************************************************************************)
EXTENDS SharedCounter, ArrayWalk, MaRing

vars == <<harnessVars, counterVars, arrayVars, maVars>>

Init == HarnessInit /\ CounterInit /\ ArrayInit /\ MaInit

Thread(t) ==
  \/ CounterStep(t) /\ UNCHANGED <<arrayVars, maVars>>
  \/ ArrayStep(t)   /\ UNCHANGED <<counterVars, maVars>>
  \/ MaStep(t)      /\ UNCHANGED <<counterVars, arrayVars>>

Meeting == Barrier /\ UNCHANGED <<counterVars, arrayVars, maVars>>

RunAgain == once # "exited" /\ NextRun /\ CounterNextRun /\ ArrayNextRun /\ MaNextRun

Reader == Backend /\ UNCHANGED <<counterVars, arrayVars>>

\* The bound on the counter is reached in a loop that does not end.
RunsAway == bench = "loopCasTruth" /\ counter = MaxCounter

Ended == AllDone /\ (run = Runs \/ bench \in Loops \/ once = "exited")

Stopped == (Ended \/ RunsAway) /\ UNCHANGED vars

Next ==
  \/ \E t \in Threads : Thread(t)
  \/ Meeting
  \/ RunAgain
  \/ Reader
  \/ Stopped

Spec == Init /\ [][Next]_vars

\* Every thread is scheduled again and again; no lock is assumed to be fair.
FairSpec ==
  /\ Spec
  /\ \A t \in AllThreads : WF_vars(t \in Threads /\ Thread(t))
  /\ WF_vars(Meeting \/ RunAgain)
  /\ WF_vars(Reader)

\* Every benchmark ends, although nothing says who gets a lock or whose
\* compare-and-exchange succeeds next, unless run_cas takes a truth value for the
\* value that was expected.
Terminates == bench # "loopCasTruth" => <>Ended

\* The inductive invariant.
MicroInd == HarnessInd /\ CounterInd /\ ArrayInd /\ MaInd

================================================================================
