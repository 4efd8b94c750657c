--------------------------------- MODULE Harness ---------------------------------
(*******************************************************************************)
(* What runs the threads of a benchmark that repeats one operation.            *)
(*                                                                             *)
(* The gbenchmark fixtures are run by a library, which is modelled as they use *)
(* it.  One fixture object serves all threads and all runs of a benchmark:     *)
(* each thread calls SetUp, waits for all others before its first iteration    *)
(* and after its last one, and calls TearDown.  Thread 1 is the main thread of *)
(* the process, the others are new in every run.                               *)
(*                                                                             *)
(* The threads of loop_increment have no fixture: main starts them, they       *)
(* iterate, and main joins them.                                               *)
(*                                                                             *)
(* SharedCounter, ArrayWalk and MaRing are what the benchmarks do;             *)
(* Microbenchmarks puts them together.                                         *)
(*******************************************************************************)
EXTENDS Fixtures

CONSTANTS
  Benchmarks,   \* the benchmarks that are run
  MeasureCnt,   \* MEASURE_CNT of time_elapsed_measure
  NumMsg,       \* NUM_MSG of c_write_va_to_file
  NumStr,       \* entries of str_arr of strcpy
  Runs          \* bound on the runs of a benchmark

ASSUME HarnessAssumption ==
  /\ NumThread \in Nat \ {0}
  /\ Iterations \in Nat \ {0}
  /\ MeasureCnt \in Nat \ {0}
  /\ NumMsg \in Nat \ {0}
  /\ NumStr \in Nat \ {0}
  /\ Runs \in Nat \ {0}

VARIABLES
  bench,    \* the benchmark
  run       \* runs begun

harnessVars == <<bench, run, pc, left>>

\* Benchmarks that are registered, or that loop_increment runs, with one thread.
Alone == {"ringAlone", "counterAlone", "loopAlone", "elapsed", "log", "strcpy"}

\* What loop_increment runs.
Loops == {"loopAlone", "loopLock", "loopCas", "loopCasTruth"}

Threads == IF bench \in Alone THEN {1} ELSE AllThreads

Turns ==
  CASE bench = "elapsed" -> MeasureCnt
    [] bench = "log"     -> 10 * NumMsg
    \* The library chooses how many: here once around, and on.
    [] bench = "strcpy"  -> NumStr + Iterations
    [] OTHER             -> Iterations

\* Where threads begin and end.
AtStart ==
  [t \in AllThreads |-> IF t \notin Threads THEN "done"
                        ELSE IF bench \in Loops THEN "work" ELSE "setUp"]

HarnessInit ==
  /\ bench \in Benchmarks
  /\ run = 1
  /\ pc = AtStart
  /\ left = [t \in AllThreads |-> IF t \in Threads THEN Turns ELSE 0]

HarnessType ==
  /\ bench \in Benchmarks
  /\ run \in 1 .. Runs
  /\ pc \in [AllThreads -> {"setUp", "start", "work", "inside", "load", "store", "cas",
                            "unlock", "fill", "move", "stop", "tearDown", "done"}]
  /\ left \in [AllThreads -> 0 .. Turns]

Goto(t, label) == pc' = [pc EXCEPT ![t] = label]

\* The end of an iteration.
EndIteration(t) ==
  /\ left' = [left EXCEPT ![t] = @ - 1]
  /\ Goto(t, IF left[t] > 1 THEN "work" ELSE IF bench \in Loops THEN "done" ELSE "stop")

\* Fault: a thread does not wait for the others.
GoAlone(from, to) ==
  \E t \in Threads : pc[t] = from /\ Goto(t, to)

\* All threads meet and go on.
Meet(from, to) ==
  /\ \A t \in Threads : pc[t] = from
  /\ pc' = [t \in AllThreads |-> IF t \in Threads THEN to ELSE pc[t]]

Barrier ==
  /\ Meet("start", "work") \/ Meet("stop", "tearDown")
  /\ UNCHANGED <<bench, run, left>>

NextRun ==
  /\ AllDone
  /\ bench \notin Loops
  /\ run < Runs
  /\ run' = run + 1
  /\ pc' = AtStart
  /\ left' = [t \in AllThreads |-> IF t \in Threads THEN Turns ELSE 0]
  /\ UNCHANGED bench

\* Every thread of this run is past the barrier of the start.
Started == \A t \in Threads : pc[t] \notin {"setUp", "start"}

Done(t) == Turns - left[t]

--------------------------------------------------------------------------------
(* What the inductive invariant adds.                                          *)

Before  == {"setUp", "start"}
Working == {"work", "inside", "load", "store", "cas", "unlock", "fill", "move"}
After   == {"tearDown", "done"}

\* What thread t has left to do, where it is.
LeftOf(t) ==
  /\ t \notin Threads => pc[t] = "done" /\ left[t] = 0
  /\ t \in Threads =>
       /\ pc[t] \in Before => left[t] = Turns
       /\ pc[t] \in Working => left[t] > 0
       /\ pc[t] \in {"stop", "tearDown"} => left[t] = 0
       /\ pc[t] = "done" => left[t] = 0 \/ bench = "maRing"

\* The barriers keep the threads together.
Together ==
  IF bench \in Loops
  THEN \A t \in Threads : pc[t] \in Working \cup {"done"}
  ELSE \/ \A t \in Threads : pc[t] \in Before
       \/ \A t \in Threads : pc[t] \in Working \cup {"stop"}
       \/ \A t \in Threads : pc[t] \in After

HarnessInd == HarnessType /\ Together /\ \A t \in AllThreads : LeftOf(t)

================================================================================
