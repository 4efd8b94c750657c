----------------------------- MODULE Fixtures_proof -----------------------------
(*******************************************************************************)
(* Proofs about Microbenchmarks and TicketRing for every number of threads,    *)
(* runs and iterations, every size of the arrays and rings and every width of  *)
(* the counters.  First the benchmarks of Microbenchmarks, then the lock-free  *)
(* writers of TicketRing, with and without spurious failures of the            *)
(* compare-and-exchange.                                                       *)
(*******************************************************************************)
EXTENDS Microbenchmarks, TicketRing, Cells, FiniteSetTheorems

--------------------------------------------------------------------------------
(* The harness.                                                                *)

\* The first thread always runs, and every thread has iterations to do.
LEMMA ThreadsAndTurns ==
  /\ Threads \subseteq AllThreads /\ 1 \in Threads /\ 1 \in AllThreads
  /\ Turns \in Nat \ {0}
  /\ bench \in Alone => Threads = {1}
  BY HarnessAssumption DEF Threads, AllThreads, Turns

\* Threads and iterations are those of the benchmark, which stays the same.
LEMMA SameBench ==
  ASSUME bench' = bench
  PROVE  Threads' = Threads /\ Turns' = Turns /\ Entries' = Entries /\ Size' = Size
  BY DEF Threads, Turns, Entries, Size

\* The places of threads before, in and after the iterations are different ones.
LEMMA Phases ==
  /\ Before \cap Working = {} /\ Before \cap After = {} /\ Working \cap After = {}
  /\ "stop" \notin Before \cup Working \cup After
  BY DEF Before, Working, After

\* A thread that waits for the others or is past its iterations has none that works
\* beside it, and the other way round.
LEMMA PhaseOfAll ==
  ASSUME HarnessInd, NEW t \in Threads, NEW u \in Threads
  PROVE  /\ pc[t] \in Before => pc[u] \in Before
         /\ pc[t] \in Working => pc[u] \in Working \cup {"stop"} \/ (bench \in Loops /\ pc[u] = "done")
         /\ pc[t] = "tearDown" => pc[u] \in After
         /\ pc[t] = "stop" => pc[u] \in Working \cup {"stop"}
  <1>1. CASE bench \in Loops
    <2>1. pc[t] \in Working \cup {"done"} /\ pc[u] \in Working \cup {"done"}
      BY <1>1 DEF HarnessInd, Together
    <2> QED
      BY <1>1, <2>1 DEF Before, Working
  <1>2. CASE bench \notin Loops
    <2>1. \/ pc[t] \in Before /\ pc[u] \in Before
          \/ pc[t] \in Working \cup {"stop"} /\ pc[u] \in Working \cup {"stop"}
          \/ pc[t] \in After /\ pc[u] \in After
      BY <1>2 DEF HarnessInd, Together
    <2> QED
      BY <2>1 DEF Before, Working, After
  <1> QED
    BY <1>1, <1>2

\* A thread that works has passed the barrier of the start with all others.
LEMMA WorkingStarted ==
  ASSUME HarnessInd, NEW t \in Threads, pc[t] \in Working
  PROVE  Started /\ left[t] \in 1 .. Turns /\ Done(t) \in 0 .. Turns - 1 /\ t \in AllThreads
  <1>1. \A u \in Threads : pc[u] \notin Before
    BY PhaseOfAll, Phases DEF Working, Before
  <1>2. left[t] > 0 /\ left[t] \in 0 .. Turns /\ t \in AllThreads
    BY ThreadsAndTurns DEF HarnessInd, HarnessType, LeftOf
  <1> QED
    BY <1>1, <1>2, ThreadsAndTurns DEF Started, Before, Done

\* What a thread may go on to within an iteration, or outside of one.
OneOn(from, to) ==
  \/ from = "setUp" /\ to = "start"
  \/ from \in Working /\ to \in Working
  \/ from = "tearDown" /\ to = "done"

\* A thread that goes on to its next place keeps the harness in order.
LEMMA MoveKeepsHarness ==
  ASSUME HarnessInd, NEW t \in Threads, NEW to, OneOn(pc[t], to), Goto(t, to),
         UNCHANGED <<bench, run, left>>
  PROVE  HarnessInd'
  <1>1. /\ t \in AllThreads /\ pc' = [pc EXCEPT ![t] = to]
        /\ \A u \in AllThreads : pc'[u] = IF u = t THEN to ELSE pc[u]
    BY ThreadsAndTurns DEF HarnessInd, HarnessType, Goto
  <1>2. Threads' = Threads /\ Turns' = Turns
    BY SameBench
  <1>3. HarnessType'
    BY <1>1, <1>2 DEF HarnessInd, HarnessType, OneOn, Working
  <1>4. ASSUME NEW u \in AllThreads
        PROVE  LeftOf(u)'
    <2>1. LeftOf(u) /\ left' = left /\ bench' = bench
      BY DEF HarnessInd
    <2>2. CASE u # t
      BY <1>1, <1>2, <2>1, <2>2 DEF LeftOf
    <2>3. CASE u = t
      BY <1>1, <1>2, <2>1, <2>3 DEF LeftOf, OneOn, Before, Working
    <2> QED
      BY <2>2, <2>3
  <1>5. Together'
    <2>1. \A u \in Threads : u \in AllThreads
      BY ThreadsAndTurns
    <2>2. Together /\ bench' = bench
      BY DEF HarnessInd
    <2>3. CASE pc[t] = "setUp" /\ to = "start"
      BY <1>1, <1>2, <2>1, <2>2, <2>3 DEF Together, Before, Working, After
    <2>4. CASE pc[t] \in Working /\ to \in Working
      BY <1>1, <1>2, <2>1, <2>2, <2>4 DEF Together, Before, Working, After
    <2>5. CASE pc[t] = "tearDown" /\ to = "done"
      BY <1>1, <1>2, <2>1, <2>2, <2>5 DEF Together, Before, Working, After
    <2> QED
      BY <2>3, <2>4, <2>5 DEF OneOn
  <1> QED
    BY <1>3, <1>4, <1>5 DEF HarnessInd

\* A thread that ends an iteration has one more done, and keeps the harness in order.
LEMMA EndKeepsHarness ==
  ASSUME HarnessInd, NEW t \in Threads, pc[t] \in Working, EndIteration(t),
         UNCHANGED <<bench, run>>
  PROVE  /\ HarnessInd'
         /\ Done(t)' = Done(t) + 1
         /\ \A u \in AllThreads \ {t} : pc'[u] = pc[u] /\ Done(u)' = Done(u)
         /\ pc'[t] \in {"work", "stop", "done"}
         /\ pc'[t] = "done" => bench \in Loops
  <1> DEFINE to == IF left[t] > 1 THEN "work" ELSE IF bench \in Loops THEN "done" ELSE "stop"
  <1>1. /\ t \in AllThreads /\ left[t] \in 1 .. Turns /\ left \in [AllThreads -> 0 .. Turns]
    BY ThreadsAndTurns, WorkingStarted DEF HarnessInd, HarnessType
  <1>2. /\ pc' = [pc EXCEPT ![t] = to]
        /\ left' = [left EXCEPT ![t] = left[t] - 1]
    BY DEF EndIteration, Goto
  <1>3. /\ \A u \in AllThreads : pc'[u] = IF u = t THEN to ELSE pc[u]
        /\ \A u \in AllThreads : left'[u] = IF u = t THEN left[t] - 1 ELSE left[u]
        /\ to \in {"work", "stop", "done"}
    BY <1>1, <1>2 DEF HarnessInd, HarnessType
  <1>4. Threads' = Threads /\ Turns' = Turns
    BY SameBench
  <1>5. HarnessType'
    <2>1. left' \in [AllThreads -> 0 .. Turns]
      BY <1>1, <1>2, ThreadsAndTurns
    <2> QED
      BY <1>2, <1>3, <1>4, <2>1 DEF HarnessInd, HarnessType
  <1>6. ASSUME NEW u \in AllThreads
        PROVE  LeftOf(u)'
    <2>1. LeftOf(u) /\ bench' = bench
      BY DEF HarnessInd
    <2>2. CASE u # t
      BY <1>3, <1>4, <2>1, <2>2 DEF LeftOf
    <2>3. CASE u = t
      <3>1. /\ pc'[t] = to /\ left'[t] = left[t] - 1
            /\ left[t] > 1 => to = "work" /\ left[t] - 1 > 0
            /\ ~(left[t] > 1) => to \in {"stop", "done"} /\ left[t] - 1 = 0
        BY <1>1, <1>3
      <3> QED
        BY <1>4, <2>3, <3>1 DEF LeftOf, Before, Working
    <2> QED
      BY <2>2, <2>3
  <1>7. Together'
    <2>1. \A u \in Threads : u \in AllThreads
      BY ThreadsAndTurns
    <2>2. Together /\ bench' = bench
      BY DEF HarnessInd
    <2>3. /\ bench \in Loops => to \in {"work", "done"}
          /\ bench \notin Loops => to \in {"work", "stop"}
      OBVIOUS
    <2> HIDE DEF to
    <2> QED
      BY <1>3, <1>4, <2>1, <2>2, <2>3 DEF Together, Before, Working, After
  <1>8. Done(t)' = Done(t) + 1
    BY <1>1, <1>3, <1>4, ThreadsAndTurns DEF Done
  <1>9. \A u \in AllThreads \ {t} : pc'[u] = pc[u] /\ Done(u)' = Done(u)
    BY <1>3, <1>4 DEF Done
  <1> QED
    BY <1>1, <1>3, <1>5, <1>6, <1>7, <1>8, <1>9 DEF HarnessInd

\* All threads that meet go on together.
LEMMA MeetKeepsHarness ==
  ASSUME HarnessInd, Barrier
  PROVE  /\ HarnessInd'
         /\ \A t \in Threads : Done(t)' = Done(t)
         /\ \/ \A t \in Threads : pc[t] = "start" /\ pc'[t] = "work" /\ left[t] = Turns
            \/ \A t \in Threads : pc[t] = "stop" /\ pc'[t] = "tearDown" /\ left[t] = 0
  <1>1. /\ bench' = bench /\ run' = run /\ left' = left /\ Threads' = Threads /\ Turns' = Turns
        /\ Threads \subseteq AllThreads /\ 1 \in Threads
    BY SameBench, ThreadsAndTurns DEF Barrier
  <1>2. \A t \in Threads : Done(t)' = Done(t)
    BY <1>1 DEF Done
  <1>3. ASSUME NEW from, NEW to, Meet(from, to),
               \/ from = "start" /\ to = "work"
               \/ from = "stop" /\ to = "tearDown"
        PROVE  /\ HarnessInd'
               /\ \A t \in Threads : /\ pc[t] = from /\ pc'[t] = to
                                     /\ left[t] = IF from = "start" THEN Turns ELSE 0
    <2>1. /\ \A t \in Threads : pc[t] = from
          /\ \A t \in AllThreads : pc'[t] = IF t \in Threads THEN to ELSE pc[t]
          /\ pc' = [t \in AllThreads |-> IF t \in Threads THEN to ELSE pc[t]]
      BY <1>3 DEF Meet
    <2>2. \A t \in Threads : pc'[t] = to
      BY <1>1, <2>1
    <2>3. ASSUME NEW t \in Threads
          PROVE  left[t] = IF from = "start" THEN Turns ELSE 0
      <3>1. t \in AllThreads /\ pc[t] = from
        BY <1>1, <2>1
      <3> QED
        BY <1>3, <3>1 DEF HarnessInd, LeftOf, Before
    <2>4. HarnessType'
      BY <1>1, <1>3, <2>1 DEF HarnessInd, HarnessType
    <2>5. ASSUME NEW t \in AllThreads
          PROVE  LeftOf(t)'
      <3>1. LeftOf(t)
        BY DEF HarnessInd
      <3>2. CASE t \notin Threads
        BY <1>1, <2>1, <3>1, <3>2 DEF LeftOf
      <3>3. CASE t \in Threads
        BY <1>1, <1>3, <2>2, <2>3, <3>3, ThreadsAndTurns DEF LeftOf, Before, Working
      <3> QED
        BY <3>2, <3>3
    <2>6. bench \notin Loops
      BY <1>1, <1>3, <2>1 DEF HarnessInd, Together, Working
    <2>7. Together'
      BY <1>1, <1>3, <2>2, <2>6 DEF Together, Working, After
    <2> QED
      BY <2>1, <2>2, <2>3, <2>4, <2>5, <2>7 DEF HarnessInd
  <1>4. CASE Meet("start", "work")
    BY <1>2, <1>3, <1>4
  <1>5. CASE Meet("stop", "tearDown")
    BY <1>2, <1>3, <1>5
  <1> QED
    BY <1>4, <1>5 DEF Barrier

\* A new run begins with SetUp in every thread.
LEMMA NextRunKeepsHarness ==
  ASSUME HarnessInd, NextRun
  PROVE  /\ HarnessInd'
         /\ \A t \in Threads : pc'[t] = "setUp" /\ Done(t)' = 0
         /\ ~Started'
  <1>1. /\ bench' = bench /\ bench \notin Loops /\ run' = run + 1 /\ run < Runs
        /\ Threads' = Threads /\ Turns' = Turns
        /\ Threads \subseteq AllThreads /\ 1 \in Threads
    BY SameBench, ThreadsAndTurns DEF NextRun
  <1>2. /\ pc' = [t \in AllThreads |-> IF t \in Threads THEN "setUp" ELSE "done"]
        /\ left' = [t \in AllThreads |-> IF t \in Threads THEN Turns ELSE 0]
    BY <1>1 DEF NextRun, AtStart
  <1>3. HarnessType'
    <2>1. run' \in 1 .. Runs
      BY <1>1, HarnessAssumption DEF HarnessInd, HarnessType
    <2> QED
      BY <1>1, <1>2, <2>1, ThreadsAndTurns DEF HarnessInd, HarnessType
  <1>4. \A t \in AllThreads : LeftOf(t)'
    BY <1>1, <1>2 DEF LeftOf, Before, Working
  <1>5. Together'
    BY <1>1, <1>2 DEF Together, Before
  <1>6. \A t \in Threads : pc'[t] = "setUp" /\ left'[t] = Turns
    BY <1>1, <1>2
  <1>7. \A t \in Threads : Done(t)' = 0
    BY <1>1, <1>6, ThreadsAndTurns DEF Done
  <1> QED
    BY <1>1, <1>3, <1>4, <1>5, <1>6, <1>7 DEF HarnessInd, Started

\* When the process exits, all its threads end.
LEMMA ExitKeepsHarness ==
  ASSUME HarnessInd, bench = "maRing", pc' = [t \in AllThreads |-> "done"],
         UNCHANGED <<bench, run, left>>
  PROVE  HarnessInd'
  <1>1. Threads' = Threads /\ Turns' = Turns /\ Threads \subseteq AllThreads
    BY SameBench, ThreadsAndTurns
  <1>2. HarnessType' /\ Together'
    BY <1>1 DEF HarnessInd, HarnessType, Together, Loops, After
  <1>3. \A t \in AllThreads : LeftOf(t)'
    BY <1>1 DEF HarnessInd, LeftOf, Before, Working
  <1> QED
    BY <1>2, <1>3 DEF HarnessInd

--------------------------------------------------------------------------------
(* What a benchmark does not use stays as it was.                              *)

\* The places where only a thread that adds to a counter can be.
CounterPlace == {"inside", "load", "store", "cas", "unlock"}

\* A step of another benchmark leaves the counter alone.
LEMMA CounterIdle ==
  ASSUME CounterInd, bench \notin Counters, UNCHANGED <<bench, counterVars>>,
         \A t \in Threads : pc'[t] \notin CounterPlace
  PROVE  CounterInd'
  <1>1. /\ bench \notin Rings /\ bench \notin Locked /\ bench # "ring"
        /\ bench \notin {"store", "storeOwn"}
    BY DEF Counters, Plain, Rings, Locked, Atomics
  <1>2. Threads' = Threads /\ bench' = bench
    BY SameBench
  <1>3. CounterType'
    BY DEF CounterInd, LockInv, CounterType, counterVars
  <1>4. OneInside' /\ MutexAlive' /\ PublishedWritten' /\ NothingLost'
    BY <1>1, <1>2 DEF OneInside, Inside, MutexAlive, PublishedWritten, NothingLost
  <1>5. CounterPlaces' /\ FreshCounter' /\ CounterInHand' /\ StoresCounted'
    BY <1>1, <1>2 DEF CounterPlaces, FreshCounter, CounterInHand, StoresCounted, CounterPlace
  <1> QED
    BY <1>3, <1>4, <1>5 DEF CounterInd, LockInv

\* A step of another benchmark leaves the array alone.
LEMMA ArrayIdle ==
  ASSUME ArrayInd, bench \notin Walks, UNCHANGED <<bench, arrayVars>>
  PROVE  ArrayInd'
  <1>1. bench # "elapsed" /\ bench # "log" /\ bench # "strcpy"
    BY DEF Walks
  <1>2. Entries' = Entries /\ bench' = bench
    BY SameBench
  <1>3. ArrayType'
    BY <1>2 DEF ArrayInd, ArrayType, arrayVars
  <1> QED
    BY <1>1, <1>2, <1>3 DEF ArrayInd, HeldInRun, ElapsedWalk, LogWalk, StrWalk

\* A step of another benchmark leaves the rings alone, and a new run of it, where the
\* thread-local variables are new.
LEMMA MaIdle ==
  ASSUME MaInd, bench # "maRing",
         UNCHANGED <<bench, once, caller, fp, configured, backend, ctx, logged>>,
         number' \in [AllThreads -> Nat],
         \A t \in Threads : pc'[t] \notin {"fill", "move"}
  PROVE  MaInd'
  <1>1. Threads' = Threads /\ bench' = bench
    BY SameBench
  <1>2. \A id \in Ids : RingOf(id)'
    BY DEF MaInd, RingOf, FirstNumber
  <1>3. MaType'
    BY DEF MaInd, MaType
  <1>4. OnceInv'
    <2>1. once = "first"
      BY DEF MaInd, OnceInv
    <2> QED
      BY <1>1, <2>1 DEF OnceInv
  <1> QED
    BY <1>1, <1>2, <1>3, <1>4 DEF MaInd

--------------------------------------------------------------------------------
(* The counter.                                                                *)

\* The additions are no more than the iterations of all threads.
LEMMA AdditionsFinite == IsFiniteSet(Additions)
  <1>1. IsFiniteSet(Threads) /\ IsFiniteSet(1 .. Turns)
    <2>1. IsFiniteSet(AllThreads) /\ IsFiniteSet(1 .. Turns)
      BY HarnessAssumption, ThreadsAndTurns, FS_Interval DEF AllThreads
    <2> QED
      BY <2>1, ThreadsAndTurns, FS_Subset
  <1>2. IsFiniteSet(Threads \X (1 .. Turns))
    BY <1>1, FS_Product
  <1> QED
    BY <1>2, FS_Subset DEF Additions

\* A step in which no thread ends an addition leaves the number of additions.
LEMMA AddedSame ==
  ASSUME bench' = bench, \A t \in Threads : Counted(t)' = Counted(t)
  PROVE  Added' = Added
  <1>1. Threads' = Threads /\ Turns' = Turns
    BY SameBench
  <1>2. Additions' = Additions
    BY <1>1 DEF Additions
  <1> QED
    BY <1>2 DEF Added

\* A step in which one thread ends an addition makes one more.
LEMMA AddedOne ==
  ASSUME bench' = bench, NEW t \in Threads,
         Counted(t) \in 0 .. Turns - 1, Counted(t)' = Counted(t) + 1,
         \A u \in Threads \ {t} : Counted(u)' = Counted(u)
  PROVE  Added' = Added + 1
  <1> DEFINE x == <<t, Counted(t) + 1>>
  <1>1. Threads' = Threads /\ Turns' = Turns /\ Turns \in Nat
    BY SameBench, ThreadsAndTurns
  <1>2. x \in Threads \X (1 .. Turns) /\ x \notin Additions
    BY <1>1 DEF Additions
  <1>3. ASSUME NEW y \in Threads \X (1 .. Turns)
        PROVE  y[2] <= Counted(y[1])' <=> y[2] <= Counted(y[1]) \/ y = x
    <2>1. PICK u \in Threads, n \in 1 .. Turns : y = <<u, n>>
      OBVIOUS
    <2>2. CASE u = t
      BY <1>1, <2>1, <2>2
    <2>3. CASE u # t
      BY <2>1, <2>3
    <2> QED
      BY <2>2, <2>3
  <1> HIDE DEF x
  <1>4. Additions' = Additions \cup {x}
    BY <1>1, <1>2, <1>3 DEF Additions
  <1>5. Cardinality(Additions \cup {x}) = Cardinality(Additions) + 1
    BY <1>2, AdditionsFinite, FS_AddElement
  <1> QED
    BY <1>4, <1>5 DEF Added

\* When all threads are at their first iteration, nothing was added.
LEMMA NoneAdded ==
  ASSUME \A t \in Threads : Counted(t) = 0
  PROVE  Added = 0
  <1>1. Additions = {}
    BY DEF Additions
  <1> QED
    BY <1>1, FS_EmptySet DEF Added

\* What the invariants know of a thread that works at the counter.
LEMMA AtCounter ==
  ASSUME HarnessInd, NEW t \in Threads, pc[t] \in Working
  PROVE  /\ Started
         /\ Done(t) \in 0 .. Turns - 1
         /\ pc[t] # "unlock" => Counted(t) = Done(t) /\ Counted(t) \in 0 .. Turns - 1
         /\ pc[t] = "unlock" => Counted(t) = Done(t) + 1
  BY WorkingStarted, ThreadsAndTurns DEF Counted

\* One thread at a time is between the slot, the load and the store: it holds the
\* lock, or is the only one.
LEMMA OneInHand ==
  ASSUME CounterInd, bench \in Plain, NEW t \in Threads, NEW u \in Threads,
         pc[t] \in {"inside", "load", "store", "unlock"},
         pc[u] \in {"inside", "load", "store", "unlock"}
  PROVE  t = u
  <1>1. CASE bench \in Locked
    BY <1>1 DEF CounterInd, LockInv, OneInside, Inside
  <1>2. CASE bench \notin Locked
    <2>1. bench \in Alone
      BY <1>2 DEF Plain, Rings, Locked, Alone
    <2> QED
      BY <2>1, ThreadsAndTurns
  <1> QED
    BY <1>1, <1>2

\* Only the benchmarks with a counter take the steps of one.
LEMMA CounterBench ==
  ASSUME CounterInd, NEW t \in Threads, CounterStep(t)
  PROVE  bench \in Counters /\ bench' = bench /\ run' = run
  <1>1. bench' = bench /\ run' = run
    BY DEF CounterStep, SetUpCounter, Lock, WriteSlot, LoadCounter, StoreCounter, Unlock,
           CompareExchange, Store, FetchAdd, TearDownCounter
  <1>2. pc[t] \in {"store", "unlock", "cas"} => bench \in Counters
    BY DEF CounterInd, CounterPlaces, Counters, Plain
  <1>3. bench \in Counters
    BY <1>2
    DEF CounterStep, SetUpCounter, Lock, WriteSlot, LoadCounter, StoreCounter, Unlock,
        CompareExchange, Store, FetchAdd, TearDownCounter, Counters, Plain, Rings, Atomics
  <1> QED
    BY <1>1, <1>3

\* SetUp begins when no thread works.
LEMMA SetUpCounterKeeps ==
  ASSUME HarnessInd, CounterInd, NEW t \in Threads, SetUpCounter(t)
  PROVE  HarnessInd' /\ CounterInd'
  <1>1. /\ bench \in Counters /\ pc[t] = "setUp" /\ bench' = bench /\ Goto(t, "start")
        /\ t \in AllThreads
    BY ThreadsAndTurns DEF SetUpCounter
  <1>2. HarnessInd'
    BY <1>1, MoveKeepsHarness DEF SetUpCounter, OneOn
  <1>3. Threads' = Threads /\ Threads \subseteq AllThreads
    BY SameBench, ThreadsAndTurns DEF SetUpCounter
  <1>4. \A u \in Threads : /\ pc[u] \in Before /\ pc'[u] \in Before
                           /\ pc'[u] = IF u = t THEN "start" ELSE pc[u]
    BY <1>1, <1>3, PhaseOfAll DEF Before, Goto, HarnessInd, HarnessType
  <1>5. CounterType'
    BY <1>1 DEF SetUpCounter, CounterInd, LockInv, CounterType, NoOne
  <1>6. OneInside' /\ MutexAlive' /\ CounterPlaces' /\ CounterInHand'
    BY <1>3, <1>4 DEF OneInside, Inside, MutexAlive, CounterPlaces, CounterInHand, Before
  <1>7. ~Started'
    BY <1>1, <1>3, <1>4 DEF Started, Before
  <1>8. PublishedWritten' /\ NothingLost' /\ StoresCounted'
    BY <1>7 DEF PublishedWritten, NothingLost, StoresCounted
  <1>9. FreshCounter'
    <2>1. counter' = 0 /\ (bench \in Rings => alive')
      BY DEF SetUpCounter
    <2>2. ASSUME NEW u \in Threads, pc'[u] = "start"
          PROVE  own'[u] = 0 /\ mine'[u] = 0
      <3>1. CASE u = t
        BY <1>1, <3>1 DEF SetUpCounter, CounterInd, LockInv, CounterType
      <3>2. CASE u # t
        <4>1. own[u] = 0 /\ mine[u] = 0 /\ u \in AllThreads
          BY <1>1, <1>3, <1>4, <2>2, <3>2 DEF CounterInd, FreshCounter
        <4> QED
          BY <3>2, <4>1 DEF SetUpCounter, CounterInd, LockInv, CounterType
      <3> QED
        BY <3>1, <3>2
    <2> QED
      BY <1>1, <1>3, <2>1, <2>2 DEF FreshCounter
  <1> QED
    BY <1>2, <1>5, <1>6, <1>8, <1>9 DEF CounterInd, LockInv

\* A step within an iteration that neither adds nor frees the lock.
LEMMA WithinIteration ==
  ASSUME HarnessInd, CounterInd, NEW t \in Threads, NEW to \in Working,
         pc[t] \in Working, pc[t] # "unlock", to # "unlock", Goto(t, to),
         UNCHANGED <<bench, run, left, alive, counter, own, mine>>,
         ring \subseteq ring', ring' \subseteq 0 .. Capacity - 1,
         lock' \in AllThreads \cup {NoOne}, reg' \in [AllThreads -> Nat],
         OneInside', CounterPlaces', CounterInHand'
  PROVE  HarnessInd' /\ CounterInd'
  <1>1. HarnessInd'
    BY MoveKeepsHarness DEF OneOn
  <1>2. Threads' = Threads /\ Turns' = Turns /\ Threads \subseteq AllThreads /\ bench' = bench
    BY SameBench, ThreadsAndTurns
  <1>3. \A u \in Threads : pc'[u] = IF u = t THEN to ELSE pc[u]
    BY <1>2 DEF Goto, HarnessInd, HarnessType
  <1>4. Started /\ \A u \in Threads : pc[u] # "start" /\ pc'[u] # "start"
    BY <1>2, <1>3, WorkingStarted DEF Started, Working
  <1>5. CounterType'
    BY DEF CounterInd, LockInv, CounterType
  <1>6. FreshCounter'
    BY <1>2, <1>3, <1>4 DEF CounterInd, FreshCounter
  <1>7. MutexAlive'
    <2>1. ASSUME bench = "ring"  PROVE  alive'
      BY <2>1 DEF CounterInd, FreshCounter, Rings
    <2> QED
      BY <1>2, <2>1 DEF MutexAlive
  <1>8. PublishedWritten'
    BY <1>2, <1>4 DEF CounterInd, LockInv, PublishedWritten
  <1>9. \A u \in Threads : Done(u)' = Done(u) /\ Counted(u)' = Counted(u)
    BY <1>2, <1>3 DEF Done, Counted
  <1>10. Added' = Added
    BY <1>9, AddedSame
  <1>11. NothingLost'
    BY <1>2, <1>4, <1>9, <1>10 DEF CounterInd, NothingLost
  <1>12. StoresCounted'
    BY <1>2, <1>4, <1>9 DEF CounterInd, StoresCounted
  <1> QED
    BY <1>1, <1>5, <1>6, <1>7, <1>8, <1>11, <1>12 DEF CounterInd, LockInv

\* A step that ends an iteration.
LEMMA EndOfIteration ==
  ASSUME HarnessInd, CounterInd, NEW t \in Threads, pc[t] \in Working, EndIteration(t),
         UNCHANGED <<bench, run, alive, reg, ring>>,
         lock' \in AllThreads \cup {NoOne}, counter' \in Nat,
         own' \in [AllThreads -> Nat], mine' \in [AllThreads -> Nat],
         OneInside', PublishedWritten', NothingLost', CounterInHand', StoresCounted'
  PROVE  HarnessInd' /\ CounterInd'
  <1>1. /\ HarnessInd'
        /\ \A u \in AllThreads \ {t} : pc'[u] = pc[u]
        /\ pc'[t] \in {"work", "stop", "done"}
        /\ pc'[t] = "done" => bench \in Loops
    BY EndKeepsHarness
  <1>2. Threads' = Threads /\ Threads \subseteq AllThreads /\ bench' = bench
    BY SameBench, ThreadsAndTurns
  <1>3. Started /\ \A u \in Threads : pc[u] # "start" /\ pc'[u] # "start"
    BY <1>1, <1>2, WorkingStarted DEF Started
  <1>4. CounterType'
    BY DEF CounterInd, LockInv, CounterType
  <1>5. CounterPlaces'
    BY <1>1, <1>2 DEF CounterInd, CounterPlaces
  <1>6. ASSUME bench \in Rings  PROVE  alive'
    BY <1>6 DEF CounterInd, FreshCounter
  <1>7. FreshCounter'
    BY <1>2, <1>3, <1>6 DEF FreshCounter
  <1>8. MutexAlive'
    BY <1>2, <1>6 DEF MutexAlive, Rings
  <1> QED
    BY <1>1, <1>4, <1>5, <1>7, <1>8 DEF CounterInd, LockInv

\* A thread that gets the lock is alone inside.
LEMMA LockKeeps ==
  ASSUME HarnessInd, CounterInd, NEW t \in Threads, Lock(t)
  PROVE  HarnessInd' /\ CounterInd'
  <1>1. /\ bench \in Locked /\ pc[t] = "work" /\ lock = NoOne /\ lock' = t
        /\ bench' = bench /\ Goto(t, "inside") /\ t \in AllThreads
        /\ UNCHANGED <<run, left, alive, counter, reg, own, mine, ring>>
    BY ThreadsAndTurns DEF Lock, Free
  <1>2. Threads' = Threads /\ Threads \subseteq AllThreads
    BY <1>1, SameBench, ThreadsAndTurns
  <1>3. \A u \in Threads : pc'[u] = IF u = t THEN "inside" ELSE pc[u]
    BY <1>1, <1>2 DEF Goto, HarnessInd, HarnessType
  <1>4. \A u \in Threads : ~Inside(u)
    BY <1>1, <1>2 DEF CounterInd, LockInv, OneInside, NoOne, AllThreads
  <1>5. OneInside'
    BY <1>1, <1>2, <1>3, <1>4 DEF OneInside, Inside
  <1>6. CounterPlaces' /\ CounterInHand'
    BY <1>1, <1>2, <1>3 DEF CounterInd, CounterPlaces, CounterInHand
  <1>7. ring \subseteq ring' /\ ring' \subseteq 0 .. Capacity - 1 /\ reg' \in [AllThreads -> Nat]
    BY <1>1 DEF CounterInd, LockInv, CounterType
  <1>8. "work" \in Working /\ "inside" \in Working
    BY DEF Working
  <1> QED
    BY <1>1, <1>5, <1>6, <1>7, <1>8, WithinIteration

\* The thread that writes the slot is the one that adds to the cursor next.
LEMMA WriteSlotKeeps ==
  ASSUME HarnessInd, CounterInd, NEW t \in Threads, WriteSlot(t)
  PROVE  HarnessInd' /\ CounterInd'
  <1>1. /\ bench \in Rings /\ Entered(t) /\ ring' = ring \cup {counter % Capacity}
        /\ bench' = bench /\ Goto(t, "load") /\ t \in AllThreads
        /\ UNCHANGED <<run, left, lock, alive, counter, reg, own, mine>>
    BY ThreadsAndTurns DEF WriteSlot
  <1>2. Threads' = Threads /\ Threads \subseteq AllThreads
    BY <1>1, SameBench, ThreadsAndTurns
  <1>3. \A u \in Threads : pc'[u] = IF u = t THEN "load" ELSE pc[u]
    BY <1>1, <1>2 DEF Goto, HarnessInd, HarnessType
  <1>4. /\ pc[t] \in {"work", "inside"} /\ pc[t] \in Working /\ "load" \in Working
        /\ bench \in Locked => pc[t] = "inside"
    BY <1>1 DEF Entered, Working
  <1>5. OneInside'
    BY <1>1, <1>2, <1>3, <1>4 DEF CounterInd, LockInv, OneInside, Inside
  <1>6. CounterPlaces'
    BY <1>1, <1>2, <1>3 DEF CounterInd, CounterPlaces
  <1>7. CounterInHand'
    BY <1>1, <1>2, <1>3 DEF CounterInd, CounterInHand
  <1>8. /\ ring \subseteq ring' /\ ring' \subseteq 0 .. Capacity - 1
        /\ reg' \in [AllThreads -> Nat] /\ lock' \in AllThreads \cup {NoOne}
    <2>1. counter % Capacity \in 0 .. Capacity - 1
      BY CounterAssumption DEF CounterInd, LockInv, CounterType
    <2> QED
      BY <1>1, <2>1 DEF CounterInd, LockInv, CounterType
  <1> QED
    BY <1>1, <1>4, <1>5, <1>6, <1>7, <1>8, WithinIteration

\* Nobody else is between load and store when a thread loads.
LEMMA LoadCounterKeeps ==
  ASSUME HarnessInd, CounterInd, NEW t \in Threads, LoadCounter(t)
  PROVE  HarnessInd' /\ CounterInd'
  <1> DEFINE to == IF bench \in CasLoops THEN "cas" ELSE "store"
  <1>1. /\ bench \in Plain \cup CasLoops
        /\ IF bench \in Rings THEN pc[t] = "load" ELSE Entered(t)
        /\ reg' = [reg EXCEPT ![t] = counter]
        /\ bench' = bench /\ Goto(t, to) /\ t \in AllThreads
        /\ UNCHANGED <<run, left, lock, alive, counter, own, mine, ring>>
    BY ThreadsAndTurns DEF LoadCounter
  <1>2. Threads' = Threads /\ Threads \subseteq AllThreads
    BY <1>1, SameBench, ThreadsAndTurns
  <1>3. /\ \A u \in Threads : pc'[u] = IF u = t THEN to ELSE pc[u]
        /\ \A u \in Threads : reg'[u] = IF u = t THEN counter ELSE reg[u]
    BY <1>1, <1>2 DEF Goto, HarnessInd, HarnessType, CounterInd, LockInv, CounterType
  <1>4. /\ pc[t] \in {"work", "inside", "load"} /\ pc[t] \in Working
        /\ bench \in Locked /\ bench \notin Rings => pc[t] = "inside"
    BY <1>1 DEF Entered, Working
  <1>5. /\ to \in Working /\ to \in {"cas", "store"}
        /\ to = "cas" => bench \in CasLoops
        /\ to = "store" => bench \in Plain
    BY <1>1 DEF Working
  <1> HIDE DEF to
  <1>6. OneInside'
    <2>1. bench \in Locked => Inside(t)
      BY <1>1, <1>4 DEF Inside
    <2> QED
      BY <1>1, <1>2, <1>3, <1>5, <2>1 DEF CounterInd, LockInv, OneInside, Inside
  <1>7. CounterPlaces'
    BY <1>1, <1>2, <1>3, <1>5 DEF CounterInd, CounterPlaces
  <1>8. CounterInHand'
    <2>1. bench \in Rings => pc[t] = "load"
      BY <1>1
    <2> QED
      BY <1>1, <1>2, <1>3, <2>1 DEF CounterInd, CounterInHand
  <1>9. /\ ring \subseteq ring' /\ ring' \subseteq 0 .. Capacity - 1
        /\ reg' \in [AllThreads -> Nat] /\ lock' \in AllThreads \cup {NoOne}
    BY <1>1 DEF CounterInd, LockInv, CounterType
  <1>10. pc[t] # "unlock" /\ to # "unlock"
    BY <1>4, <1>5
  <1> QED
    BY <1>1, <1>4, <1>5, <1>6, <1>7, <1>8, <1>9, <1>10, WithinIteration

\* The counter is the number of additions, in the benchmarks that only add.
LEMMA CounterIsAdded ==
  ASSUME CounterInd, Started, bench \in Plain \cup {"loopCas", "fetchAdd"}
  PROVE  counter = Added
  <1>1. /\ bench \in Counters \ {"loopCasTruth"}
        /\ bench # "store" /\ bench # "storeOwn" /\ bench # "fetchAddOwn"
    BY DEF Counters, Plain, Rings, Locked, CasLoops, Atomics
  <1> QED
    BY <1>1 DEF CounterInd, NothingLost

\* And if it is so after a step, no addition was lost.
LEMMA AddedIsCounter ==
  ASSUME bench' \in Plain \cup {"loopCas", "fetchAdd"}, counter' = Added'
  PROVE  NothingLost'
  <1>1. bench' # "store" /\ bench' # "storeOwn" /\ bench' # "fetchAddOwn"
    BY DEF Plain, Rings, Locked
  <1> QED
    BY <1>1 DEF NothingLost

\* The thread that stores is the only one that has loaded.
LEMMA StoreCounterKeeps ==
  ASSUME HarnessInd, CounterInd, NEW t \in Threads, StoreCounter(t)
  PROVE  HarnessInd' /\ CounterInd'
  <1>1. /\ pc[t] = "store" /\ pc[t] \in Working /\ counter' = reg[t] + 1 /\ t \in AllThreads
        /\ bench' = bench /\ UNCHANGED <<run, lock, alive, reg, own, mine, ring>>
    BY ThreadsAndTurns DEF StoreCounter, Working
  <1>2. Threads' = Threads /\ Threads \subseteq AllThreads /\ Turns' = Turns
    BY <1>1, SameBench, ThreadsAndTurns
  <1>3. bench \in Plain /\ reg[t] = counter /\ (bench \in Rings => counter % Capacity \in ring)
    BY <1>1 DEF CounterInd, CounterPlaces, CounterInHand
  <1>4. counter \in Nat /\ counter' = counter + 1
    BY <1>1, <1>3 DEF CounterInd, LockInv, CounterType
  <1>5. Started /\ Counted(t) = Done(t) /\ Counted(t) \in 0 .. Turns - 1
    BY <1>1, AtCounter
  <1>6. \A u \in Threads \ {t} : pc[u] \notin {"inside", "load", "store", "unlock"}
    BY <1>1, <1>3, OneInHand
  <1>7. CounterType' /\ lock' \in AllThreads \cup {NoOne}
    BY <1>1, <1>4 DEF CounterInd, LockInv, CounterType
  <1>8. PublishedWritten'
    <2>1. ASSUME bench \in Rings, NEW k \in 0 .. counter
          PROVE  k % Capacity \in ring
      <3>1. CASE k = counter
        BY <1>3, <2>1, <3>1
      <3>2. CASE k # counter
        <4>1. k \in 0 .. counter - 1
          BY <1>4, <3>2
        <4> QED
          BY <1>5, <2>1, <4>1 DEF CounterInd, LockInv, PublishedWritten
      <3> QED
        BY <3>1, <3>2
    <2>2. 0 .. counter' - 1 = 0 .. counter
      BY <1>4
    <2> QED
      BY <1>1, <2>1, <2>2 DEF PublishedWritten
  <1>9. StoresCounted'
    BY <1>1, <1>3 DEF StoresCounted, Plain, Rings, Locked
  <1>10. bench' \in Plain \cup {"loopCas", "fetchAdd"} /\ counter = Added
    BY <1>1, <1>3, <1>5, CounterIsAdded
  <1>11. CASE bench \in Locked
    <2>1. Goto(t, "unlock") /\ left' = left
      BY <1>11 DEF StoreCounter
    <2>2. HarnessInd'
      BY <1>1, <2>1, MoveKeepsHarness DEF OneOn, Working
    <2>3. \A u \in Threads : pc'[u] = IF u = t THEN "unlock" ELSE pc[u]
      BY <1>2, <2>1 DEF Goto, HarnessInd, HarnessType
    <2>4. OneInside'
      BY <1>1, <1>2, <1>11, <2>3 DEF CounterInd, LockInv, OneInside, Inside
    <2>5. CounterPlaces'
      BY <1>1, <1>2, <1>11, <2>3 DEF CounterInd, CounterPlaces
    <2>6. CounterInHand'
      BY <1>1, <1>2, <1>6, <2>3 DEF CounterInHand
    <2>7. FreshCounter' /\ MutexAlive'
      <3>1. bench \in Rings => alive
        BY <1>1 DEF CounterInd, FreshCounter
      <3>2. \A u \in Threads : pc'[u] # "start"
        BY <1>5, <2>3 DEF Started
      <3> QED
        BY <1>1, <1>2, <3>1, <3>2 DEF FreshCounter, MutexAlive, Rings
    <2>8. \A u \in Threads : Done(u)' = Done(u)
      BY <1>2, <2>1 DEF Done
    <2>9. /\ Counted(t)' = Counted(t) + 1
          /\ \A u \in Threads \ {t} : Counted(u)' = Counted(u)
      <3>1. Counted(t)' = Done(t) + 1
        BY <2>3, <2>8 DEF Counted
      <3> QED
        BY <1>5, <2>3, <2>8, <3>1 DEF Counted
    <2>10. Added' = Added + 1
      BY <1>1, <1>5, <2>9, AddedOne
    <2>11. NothingLost'
      BY <1>4, <1>10, <2>10, AddedIsCounter
    <2> QED
      BY <1>7, <1>8, <1>9, <2>2, <2>4, <2>5, <2>6, <2>7, <2>11 DEF CounterInd, LockInv
  <1>12. CASE bench \notin Locked
    <2>1. EndIteration(t)
      BY <1>12 DEF StoreCounter
    <2>2. /\ \A u \in AllThreads \ {t} : pc'[u] = pc[u] /\ Done(u)' = Done(u)
          /\ pc'[t] \in {"work", "stop", "done"}
          /\ Done(t)' = Done(t) + 1
      BY <1>1, <2>1, EndKeepsHarness
    <2>3. OneInside'
      BY <1>1, <1>12 DEF OneInside, Inside
    <2>4. CounterInHand'
      BY <1>1, <1>2, <1>6, <2>2 DEF CounterInHand
    <2>5. /\ Counted(t)' = Counted(t) + 1
          /\ \A u \in Threads \ {t} : Counted(u)' = Counted(u)
      <3>1. Counted(t)' = Done(t) + 1
        BY <2>2, ThreadsAndTurns, <1>5 DEF Counted
      <3> QED
        BY <1>2, <1>5, <2>2, <3>1 DEF Counted
    <2>6. Added' = Added + 1
      BY <1>1, <1>5, <2>5, AddedOne
    <2>7. NothingLost'
      BY <1>4, <1>10, <2>6, AddedIsCounter
    <2> QED
      BY <1>1, <1>7, <1>8, <1>9, <2>1, <2>3, <2>4, <2>7, EndOfIteration DEF CounterType
  <1> QED
    BY <1>11, <1>12

\* The lock is freed by the thread inside.
LEMMA UnlockKeeps ==
  ASSUME HarnessInd, CounterInd, NEW t \in Threads, Unlock(t)
  PROVE  HarnessInd' /\ CounterInd'
  <1>1. /\ pc[t] = "unlock" /\ pc[t] \in Working /\ lock' = NoOne /\ EndIteration(t)
        /\ t \in AllThreads /\ bench' = bench
        /\ UNCHANGED <<run, alive, counter, reg, own, mine, ring>>
    BY ThreadsAndTurns DEF Unlock, Working
  <1>2. Threads' = Threads /\ Threads \subseteq AllThreads
    BY <1>1, SameBench, ThreadsAndTurns
  <1>3. bench \in Locked /\ bench \in Plain /\ Inside(t) /\ lock = t
    BY <1>1 DEF CounterInd, CounterPlaces, LockInv, OneInside, Inside, Plain
  <1>4. /\ \A u \in AllThreads \ {t} : pc'[u] = pc[u] /\ Done(u)' = Done(u)
        /\ pc'[t] \in {"work", "stop", "done"}
        /\ Done(t)' = Done(t) + 1
    BY <1>1, EndKeepsHarness
  <1>5. Started /\ Counted(t) = Done(t) + 1 /\ Done(t) \in Nat
    BY <1>1, AtCounter, ThreadsAndTurns
  <1>6. \A u \in Threads : ~Inside(u)'
    <2>1. \A u \in Threads \ {t} : ~Inside(u)
      BY <1>3 DEF CounterInd, LockInv, OneInside
    <2> QED
      BY <1>1, <1>2, <1>4, <2>1 DEF Inside
  <1>7. OneInside'
    BY <1>2, <1>6 DEF OneInside
  <1>8. PublishedWritten'
    BY <1>1, <1>5 DEF CounterInd, LockInv, PublishedWritten
  <1>9. \A u \in Threads : Counted(u)' = Counted(u)
    BY <1>2, <1>4, <1>5 DEF Counted
  <1>10. Added' = Added /\ counter = Added
    BY <1>1, <1>3, <1>5, <1>9, AddedSame, CounterIsAdded
  <1>11. NothingLost'
    BY <1>1, <1>3, <1>10, AddedIsCounter
  <1>12. CounterInHand'
    BY <1>1, <1>2, <1>4 DEF CounterInd, CounterInHand
  <1>13. StoresCounted'
    BY <1>1, <1>3 DEF StoresCounted, Locked
  <1>14. /\ lock' \in AllThreads \cup {NoOne} /\ counter' \in Nat
         /\ own' \in [AllThreads -> Nat] /\ mine' \in [AllThreads -> Nat]
    BY <1>1 DEF CounterInd, LockInv, CounterType
  <1> QED
    BY <1>1, <1>7, <1>8, <1>11, <1>12, <1>13, <1>14, EndOfIteration

\* A compare-and-exchange that changes the counter ends the iteration, unless it
\* returns a truth value.
LEMMA CompareExchangeKeeps ==
  ASSUME HarnessInd, CounterInd, NEW t \in Threads, CompareExchange(t)
  PROVE  HarnessInd' /\ CounterInd'
  <1>1. /\ pc[t] = "cas" /\ pc[t] \in Working
        /\ counter' = IF counter = reg[t] THEN counter + 1 ELSE counter
        /\ t \in AllThreads /\ bench' = bench
        /\ UNCHANGED <<run, lock, alive, reg, own, mine, ring>>
    BY ThreadsAndTurns DEF CompareExchange, Working
  <1>2. PICK equal \in CasReturnsExpected(t) :
          IF equal THEN EndIteration(t) ELSE Goto(t, "work") /\ UNCHANGED left
    BY DEF CompareExchange
  <1>3. Threads' = Threads /\ Threads \subseteq AllThreads /\ Turns' = Turns
    BY <1>1, SameBench, ThreadsAndTurns
  <1>4. /\ bench \in CasLoops /\ bench \notin Plain /\ bench \notin Rings /\ bench \notin Locked
        /\ bench \notin {"store", "storeOwn", "ring"}
    BY <1>1 DEF CounterInd, CounterPlaces, CasLoops, Plain, Rings, Locked
  <1>5. counter \in Nat /\ counter' \in Nat
    BY <1>1 DEF CounterInd, LockInv, CounterType
  <1>6. Started /\ Counted(t) = Done(t) /\ Counted(t) \in 0 .. Turns - 1
    BY <1>1, AtCounter
  <1>7. /\ CounterType' /\ lock' \in AllThreads \cup {NoOne}
        /\ own' \in [AllThreads -> Nat] /\ mine' \in [AllThreads -> Nat]
    BY <1>1, <1>5 DEF CounterInd, LockInv, CounterType
  <1>8. OneInside' /\ PublishedWritten' /\ StoresCounted' /\ MutexAlive'
    BY <1>1, <1>4 DEF OneInside, Inside, PublishedWritten, StoresCounted, MutexAlive
  <1>9. \A u \in Threads : pc[u] # "store"
    BY <1>4 DEF CounterInd, CounterPlaces
  <1>10. CASE equal
    <2>1. EndIteration(t)
      BY <1>2, <1>10
    <2>2. /\ \A u \in AllThreads \ {t} : pc'[u] = pc[u] /\ Done(u)' = Done(u)
          /\ pc'[t] \in {"work", "stop", "done"}
          /\ Done(t)' = Done(t) + 1
      BY <1>1, <2>1, EndKeepsHarness
    <2>3. CounterInHand'
      BY <1>1, <1>3, <1>4, <1>9, <2>2 DEF CounterInHand
    <2>4. NothingLost'
      <3>1. CASE bench = "loopCas"
        <4>1. counter = reg[t] /\ counter' = counter + 1
          BY <1>1, <1>2, <1>10, <3>1 DEF CasReturnsExpected
        <4>2. Counted(t)' = Counted(t) + 1 /\ \A u \in Threads \ {t} : Counted(u)' = Counted(u)
          <5>1. Counted(t)' = Done(t) + 1
            BY <1>6, <2>2, ThreadsAndTurns DEF Counted
          <5> QED
            BY <1>3, <1>6, <2>2, <5>1 DEF Counted
        <4>3. Added' = Added + 1
          BY <1>1, <1>6, <4>2, AddedOne
        <4>4. counter = Added
          BY <1>6, <3>1, CounterIsAdded
        <4> QED
          BY <1>1, <3>1, <4>1, <4>3, <4>4, AddedIsCounter
      <3>2. CASE bench = "loopCasTruth"
        BY <1>1, <3>2 DEF NothingLost
      <3> QED
        BY <1>4, <3>1, <3>2 DEF CasLoops
    <2> QED
      BY <1>1, <1>5, <1>7, <1>8, <2>1, <2>3, <2>4, EndOfIteration
  <1>11. CASE ~equal
    <2>1. Goto(t, "work") /\ left' = left
      BY <1>2, <1>11
    <2>2. HarnessInd'
      BY <1>1, <2>1, MoveKeepsHarness DEF OneOn, Working
    <2>3. \A u \in Threads : pc'[u] = IF u = t THEN "work" ELSE pc[u]
      BY <1>3, <2>1 DEF Goto, HarnessInd, HarnessType
    <2>4. CounterPlaces'
      BY <1>1, <1>3, <2>3 DEF CounterInd, CounterPlaces
    <2>5. CounterInHand' /\ FreshCounter'
      <3>1. \A u \in Threads : pc'[u] # "start" /\ pc'[u] # "store"
        BY <1>6, <1>9, <2>3 DEF Started
      <3> QED
        BY <1>1, <1>3, <1>4, <3>1 DEF CounterInHand, FreshCounter
    <2>6. NothingLost'
      <3>1. CASE bench = "loopCas"
        <4>1. counter' = counter
          BY <1>1, <1>2, <1>11, <3>1 DEF CasReturnsExpected
        <4>2. \A u \in Threads : Counted(u)' = Counted(u)
          BY <1>1, <1>3, <2>1, <2>3 DEF Counted, Done
        <4>3. Added' = Added /\ counter = Added
          BY <1>1, <1>6, <3>1, <4>2, AddedSame, CounterIsAdded
        <4> QED
          BY <1>1, <3>1, <4>1, <4>3, AddedIsCounter
      <3>2. CASE bench = "loopCasTruth"
        BY <1>1, <3>2 DEF NothingLost
      <3> QED
        BY <1>4, <3>1, <3>2 DEF CasLoops
    <2> QED
      BY <1>7, <1>8, <2>2, <2>4, <2>5, <2>6 DEF CounterInd, LockInv
  <1> QED
    BY <1>10, <1>11

\* What is stored is the number of iterations that the thread has made before.
LEMMA StoreKeeps ==
  ASSUME HarnessInd, CounterInd, NEW t \in Threads, Store(t)
  PROVE  HarnessInd' /\ CounterInd'
  <1>1. /\ bench \in {"store", "storeOwn"} /\ pc[t] = "work" /\ pc[t] \in Working
        /\ mine' = [mine EXCEPT ![t] = mine[t] + 1]
        /\ t \in AllThreads /\ bench' = bench /\ EndIteration(t)
        /\ UNCHANGED <<run, lock, alive, reg, ring>>
    BY ThreadsAndTurns DEF Store, Working
  <1>2. /\ bench = "store" => counter' = mine[t] /\ own' = own
        /\ bench = "storeOwn" => own' = [own EXCEPT ![t] = mine[t]] /\ counter' = counter
    BY <1>1 DEF Store
  <1>3. Threads' = Threads /\ Threads \subseteq AllThreads /\ Turns' = Turns
    BY <1>1, SameBench, ThreadsAndTurns
  <1>4. /\ bench \notin Rings /\ bench \notin Locked /\ bench \notin {"loopCasTruth", "ring"}
        /\ bench \in Counters
    BY <1>1 DEF Rings, Locked, Counters, Atomics
  <1>5. /\ counter \in Nat /\ mine \in [AllThreads -> Nat] /\ own \in [AllThreads -> Nat]
        /\ lock \in AllThreads \cup {NoOne}
    BY DEF CounterInd, LockInv, CounterType
  <1>6. Started /\ Done(t) \in Nat
    BY <1>1, AtCounter, ThreadsAndTurns
  <1>7. /\ \A u \in AllThreads \ {t} : pc'[u] = pc[u] /\ Done(u)' = Done(u)
        /\ Done(t)' = Done(t) + 1
    BY <1>1, EndKeepsHarness
  <1>8. \A u \in Threads : mine[u] = Done(u)
    BY <1>1, <1>6 DEF CounterInd, StoresCounted
  <1>9. StoresCounted'
    BY <1>3, <1>1, <1>5, <1>7, <1>8 DEF StoresCounted
  <1>10. OneInside' /\ PublishedWritten'
    BY <1>1, <1>4 DEF OneInside, Inside, PublishedWritten
  <1>11. CounterInHand'
    <2>1. \A u \in Threads : pc[u] # "store"
      BY <1>1 DEF CounterInd, CounterPlaces, Plain, Rings, Locked
    <2>2. \A u \in Threads : pc'[u] # "store"
      <3>1. pc'[t] # "store"
        BY <1>1, EndKeepsHarness
      <3> QED
        BY <1>3, <1>7, <2>1, <3>1
    <2> QED
      BY <1>1, <1>3, <1>4, <2>2 DEF CounterInHand
  <1>12. NothingLost'
    <2>1. CASE bench = "store"
      <3>1. Done(t)' > 0 /\ counter' = Done(t)' - 1
        BY <1>2, <1>6, <1>7, <1>8, <2>1
      <3> QED
        BY <1>1, <1>3, <2>1, <3>1 DEF NothingLost
    <2>2. CASE bench = "storeOwn"
      <3>1. ASSUME NEW u \in Threads
            PROVE  own'[u] = IF Done(u)' = 0 THEN 0 ELSE Done(u)' - 1
        <4>1. CASE u = t
          BY <1>1, <1>2, <1>5, <1>6, <1>7, <1>8, <2>2, <4>1
        <4>2. CASE u # t
          <5>1. own[u] = IF Done(u) = 0 THEN 0 ELSE Done(u) - 1
            BY <1>4, <1>6, <2>2 DEF CounterInd, NothingLost
          <5> QED
            BY <1>2, <1>3, <1>5, <1>7, <2>2, <4>2, <5>1
        <4> QED
          BY <4>1, <4>2
      <3> QED
        BY <1>1, <1>3, <2>2, <3>1 DEF NothingLost
    <2> QED
      BY <1>1, <2>1, <2>2
  <1>13. /\ counter' \in Nat /\ own' \in [AllThreads -> Nat] /\ mine' \in [AllThreads -> Nat]
         /\ lock' \in AllThreads \cup {NoOne}
    BY <1>1, <1>2, <1>5
  <1> QED
    BY <1>1, <1>9, <1>10, <1>11, <1>12, <1>13, EndOfIteration

\* An addition in one step cannot be lost.
LEMMA FetchAddKeeps ==
  ASSUME HarnessInd, CounterInd, NEW t \in Threads, FetchAdd(t)
  PROVE  HarnessInd' /\ CounterInd'
  <1>1. /\ bench \in {"fetchAdd", "fetchAddOwn"} /\ pc[t] = "work" /\ pc[t] \in Working
        /\ t \in AllThreads /\ bench' = bench /\ EndIteration(t)
        /\ UNCHANGED <<run, lock, alive, reg, mine, ring>>
    BY ThreadsAndTurns DEF FetchAdd, Working
  <1>2. /\ bench = "fetchAdd" => counter' = counter + 1 /\ own' = own
        /\ bench = "fetchAddOwn" => own' = [own EXCEPT ![t] = own[t] + 1] /\ counter' = counter
    BY <1>1 DEF FetchAdd
  <1>3. Threads' = Threads /\ Threads \subseteq AllThreads /\ Turns' = Turns
    BY <1>1, SameBench, ThreadsAndTurns
  <1>4. /\ bench \notin Rings /\ bench \notin Locked
        /\ bench \notin {"loopCasTruth", "ring", "store", "storeOwn"}
        /\ bench \in Counters
    BY <1>1 DEF Rings, Locked, Counters, Atomics
  <1>5. /\ counter \in Nat /\ mine \in [AllThreads -> Nat] /\ own \in [AllThreads -> Nat]
        /\ lock \in AllThreads \cup {NoOne}
    BY DEF CounterInd, LockInv, CounterType
  <1>6. Started /\ Counted(t) = Done(t) /\ Counted(t) \in 0 .. Turns - 1
    BY <1>1, AtCounter
  <1>7. /\ \A u \in AllThreads \ {t} : pc'[u] = pc[u] /\ Done(u)' = Done(u)
        /\ pc'[t] \in {"work", "stop", "done"}
        /\ Done(t)' = Done(t) + 1
    BY <1>1, EndKeepsHarness
  <1>8. OneInside' /\ PublishedWritten' /\ StoresCounted'
    BY <1>1, <1>4 DEF OneInside, Inside, PublishedWritten, StoresCounted
  <1>9. CounterInHand'
    <2>1. \A u \in Threads : pc[u] # "store"
      BY <1>1 DEF CounterInd, CounterPlaces, Plain, Rings, Locked
    <2>2. \A u \in Threads : pc'[u] # "store"
      BY <1>3, <1>7, <2>1
    <2> QED
      BY <1>1, <1>3, <1>4, <2>2 DEF CounterInHand
  <1>10. NothingLost'
    <2>1. CASE bench = "fetchAdd"
      <3>1. Counted(t)' = Counted(t) + 1 /\ \A u \in Threads \ {t} : Counted(u)' = Counted(u)
        <4>1. Counted(t)' = Done(t) + 1
          BY <1>6, <1>7, ThreadsAndTurns DEF Counted
        <4> QED
          BY <1>3, <1>6, <1>7, <4>1 DEF Counted
      <3>2. Added' = Added + 1
        BY <1>1, <1>6, <3>1, AddedOne
      <3>3. counter = Added
        BY <1>6, <2>1, CounterIsAdded
      <3> QED
        BY <1>1, <1>2, <2>1, <3>2, <3>3, AddedIsCounter
    <2>2. CASE bench = "fetchAddOwn"
      <3>1. \A u \in Threads : own[u] = Done(u)
        BY <1>4, <1>6, <2>2 DEF CounterInd, NothingLost
      <3>2. \A u \in Threads : own'[u] = Done(u)'
        BY <1>1, <1>2, <1>3, <1>5, <1>7, <2>2, <3>1
      <3> QED
        BY <1>1, <1>3, <2>2, <3>2 DEF NothingLost
    <2> QED
      BY <1>1, <2>1, <2>2
  <1>11. /\ counter' \in Nat /\ own' \in [AllThreads -> Nat] /\ mine' \in [AllThreads -> Nat]
         /\ lock' \in AllThreads \cup {NoOne}
    <2>1. CASE bench = "fetchAdd"
      BY <1>1, <1>2, <1>5, <2>1
    <2>2. CASE bench = "fetchAddOwn"
      BY <1>1, <1>2, <1>5, <2>2
    <2> QED
      BY <1>1, <2>1, <2>2
  <1> QED
    BY <1>1, <1>8, <1>9, <1>10, <1>11, EndOfIteration

\* The mutex is destroyed when no thread will lock it.
LEMMA TearDownCounterKeeps ==
  ASSUME HarnessInd, CounterInd, NEW t \in Threads, TearDownCounter(t)
  PROVE  HarnessInd' /\ CounterInd'
  <1>1. /\ bench \in Counters /\ pc[t] = "tearDown" /\ bench' = bench /\ Goto(t, "done")
        /\ alive' = (alive /\ bench \notin Rings) /\ t \in AllThreads
        /\ UNCHANGED <<run, left, lock, counter, reg, own, mine, ring>>
    BY ThreadsAndTurns DEF TearDownCounter
  <1>2. HarnessInd'
    BY <1>1, MoveKeepsHarness DEF OneOn
  <1>3. Threads' = Threads /\ Threads \subseteq AllThreads /\ Turns' = Turns
    BY <1>1, SameBench, ThreadsAndTurns
  <1>4. \A u \in Threads : /\ pc[u] \in After /\ pc'[u] \in After
                           /\ pc'[u] = IF u = t THEN "done" ELSE pc[u]
    BY <1>1, <1>3, PhaseOfAll DEF After, Goto, HarnessInd, HarnessType
  <1>5. Started
    BY <1>4 DEF Started, After
  <1>6. CounterType'
    BY <1>1 DEF CounterInd, LockInv, CounterType
  <1>7. OneInside' /\ MutexAlive' /\ CounterPlaces' /\ CounterInHand' /\ FreshCounter'
    BY <1>3, <1>4 DEF OneInside, Inside, MutexAlive, CounterPlaces, CounterInHand,
                      FreshCounter, After, Working
  <1>8. PublishedWritten'
    BY <1>1, <1>5 DEF CounterInd, LockInv, PublishedWritten
  <1>9. \A u \in Threads : Done(u)' = Done(u) /\ Counted(u)' = Counted(u)
    BY <1>1, <1>3, <1>4 DEF Done, Counted, After
  <1>10. Added' = Added
    BY <1>1, <1>9, AddedSame
  <1>11. NothingLost'
    BY <1>1, <1>3, <1>5, <1>9, <1>10 DEF CounterInd, NothingLost
  <1>12. StoresCounted'
    BY <1>1, <1>3, <1>5, <1>9 DEF CounterInd, StoresCounted
  <1> QED
    BY <1>2, <1>6, <1>7, <1>8, <1>11, <1>12 DEF CounterInd, LockInv

\* All steps at the counter.
LEMMA CounterStepKeeps ==
  ASSUME HarnessInd, CounterInd, NEW t \in Threads, CounterStep(t)
  PROVE  HarnessInd' /\ CounterInd'
  BY SetUpCounterKeeps, LockKeeps, WriteSlotKeeps, LoadCounterKeeps, StoreCounterKeeps,
     UnlockKeeps, CompareExchangeKeeps, StoreKeeps, FetchAddKeeps, TearDownCounterKeeps
  DEF CounterStep

\* Past the barrier of the start every thread finds the counter as SetUp has left it.
LEMMA CounterAtBarrier ==
  ASSUME HarnessInd, CounterInd, Barrier, UNCHANGED counterVars
  PROVE  CounterInd'
  <1>1. bench' = bench /\ Threads' = Threads /\ Turns' = Turns /\ Threads \subseteq AllThreads
    BY SameBench, ThreadsAndTurns DEF Barrier
  <1>2. UNCHANGED <<lock, alive, counter, reg, own, mine, ring>>
    BY DEF counterVars
  <1>3. CounterType'
    BY <1>2 DEF CounterInd, LockInv, CounterType
  <1>4. \A t \in Threads : Done(t)' = Done(t)
    BY MeetKeepsHarness
  <1>5. 1 \in Threads
    BY ThreadsAndTurns
  <1>6. CASE \A t \in Threads : pc[t] = "start" /\ pc'[t] = "work" /\ left[t] = Turns
    <2>1. \A t \in Threads : Done(t)' = 0 /\ Counted(t)' = 0
      BY <1>1, <1>4, <1>6, ThreadsAndTurns DEF Done, Counted
    <2>2. Added' = 0
      <3>1. Additions' = {}
        BY <1>1, <2>1 DEF Additions
      <3> QED
        BY <3>1, FS_EmptySet DEF Added
    <2>3. /\ bench \in Counters =>
               counter = 0 /\ \A t \in Threads : own[t] = 0 /\ mine[t] = 0
          /\ bench \in Rings => alive
      BY <1>5, <1>6 DEF CounterInd, FreshCounter
    <2>4. \A x \in Rings \cup Locked \cup {"store", "storeOwn"} : x \in Counters
      BY DEF Counters, Plain, Atomics
    <2>5. OneInside' /\ MutexAlive' /\ CounterPlaces' /\ CounterInHand' /\ FreshCounter'
      BY <1>1, <1>2, <1>6, <2>3
      DEF OneInside, Inside, MutexAlive, CounterPlaces, CounterInHand, FreshCounter, Rings
    <2>6. PublishedWritten' /\ StoresCounted'
      BY <1>1, <1>2, <2>1, <2>3, <2>4 DEF PublishedWritten, StoresCounted
    <2>7. NothingLost'
      BY <1>1, <1>2, <2>1, <2>2, <2>3 DEF NothingLost
    <2> QED
      BY <1>3, <2>5, <2>6, <2>7 DEF CounterInd, LockInv
  <1>7. CASE \A t \in Threads : pc[t] = "stop" /\ pc'[t] = "tearDown" /\ left[t] = 0
    <2>1. Started
      BY <1>7 DEF Started
    <2>2. \A t \in Threads : Counted(t)' = Counted(t)
      BY <1>1, <1>4, <1>7 DEF Counted
    <2>3. Added' = Added
      BY <1>1, <2>2, AddedSame
    <2>4. OneInside' /\ MutexAlive' /\ CounterPlaces' /\ CounterInHand' /\ FreshCounter'
      BY <1>1, <1>7
      DEF OneInside, Inside, MutexAlive, CounterPlaces, CounterInHand, FreshCounter, Working
    <2>5. PublishedWritten' /\ StoresCounted'
      BY <1>1, <1>2, <1>4, <2>1 DEF CounterInd, LockInv, PublishedWritten, StoresCounted
    <2>6. NothingLost'
      BY <1>1, <1>2, <1>4, <2>1, <2>3 DEF CounterInd, NothingLost
    <2> QED
      BY <1>3, <2>4, <2>5, <2>6 DEF CounterInd, LockInv
  <1> QED
    BY <1>6, <1>7, MeetKeepsHarness

\* A new run leaves what the last one has counted until SetUp.
LEMMA CounterNextRunKeeps ==
  ASSUME HarnessInd, CounterInd, NextRun, CounterNextRun
  PROVE  CounterInd'
  <1>1. bench' = bench /\ Threads' = Threads
    BY SameBench DEF NextRun
  <1>2. ~Started' /\ \A t \in Threads : pc'[t] = "setUp"
    BY NextRunKeepsHarness
  <1>3. CounterType'
    BY DEF CounterInd, LockInv, CounterType, CounterNextRun
  <1>4. OneInside' /\ MutexAlive' /\ CounterPlaces' /\ CounterInHand' /\ FreshCounter'
    BY <1>1, <1>2
    DEF OneInside, Inside, MutexAlive, CounterPlaces, CounterInHand, FreshCounter, Working
  <1>5. PublishedWritten' /\ NothingLost' /\ StoresCounted'
    BY <1>2 DEF PublishedWritten, NothingLost, StoresCounted
  <1> QED
    BY <1>3, <1>4, <1>5 DEF CounterInd, LockInv

\* The first states.
LEMMA HarnessCounterInit ==
  ASSUME HarnessInit, CounterInit
  PROVE  HarnessInd /\ CounterInd
  <1>1. /\ \A t \in AllThreads :
             pc[t] = IF t \notin Threads THEN "done" ELSE IF bench \in Loops THEN "work" ELSE "setUp"
        /\ \A t \in AllThreads : left[t] = IF t \in Threads THEN Turns ELSE 0
        /\ bench \in Benchmarks /\ run = 1
        /\ Threads \subseteq AllThreads /\ 1 \in Threads /\ Turns \in Nat \ {0}
    BY ThreadsAndTurns DEF HarnessInit, AtStart
  <1>2. HarnessType
    BY <1>1, HarnessAssumption DEF HarnessInit, AtStart, HarnessType
  <1>3. \A t \in AllThreads : LeftOf(t)
    BY <1>1 DEF LeftOf, Before, Working
  <1>4. Together
    BY <1>1 DEF Together, Before, Working
  <1>5. CounterType
    BY CounterAssumption DEF CounterInit, CounterType
  <1>6. \A t \in Threads : Done(t) = 0 /\ Counted(t) = 0
    BY <1>1 DEF Done, Counted
  <1>7. Added = 0
    BY <1>6, NoneAdded
  <1>8. OneInside /\ MutexAlive /\ CounterPlaces /\ CounterInHand /\ FreshCounter
    <2>1. bench \in Rings => bench \notin Loops
      BY DEF Rings, Loops
    <2>2. \A t \in Threads : pc[t] \in {"work", "setUp"} /\ (pc[t] = "work" => bench \in Loops)
      BY <1>1
    <2> QED
      BY <2>1, <2>2
      DEF OneInside, Inside, MutexAlive, CounterPlaces, CounterInHand, FreshCounter, Rings, Working
  <1>9. PublishedWritten /\ StoresCounted /\ NothingLost
    BY <1>1, <1>6, <1>7 DEF CounterInit, PublishedWritten, StoresCounted, NothingLost
  <1> QED
    BY <1>2, <1>3, <1>4, <1>5, <1>8, <1>9 DEF HarnessInd, CounterInd, LockInv

--------------------------------------------------------------------------------
(* The arrays.                                                                 *)

\* The benchmarks that walk through an array have one thread and an array.
LEMMA WalkFacts ==
  /\ bench \in Walks => Threads = {1} /\ bench \notin Loops /\ bench \notin Counters
                        /\ bench # "maRing"
  /\ Size \in Nat \ {0} /\ Entries = 0 .. Size - 1
  /\ MeasureCnt \in Nat \ {0} /\ NumMsg \in Nat \ {0} /\ NumStr \in Nat \ {0}
  /\ Modulus \in Nat \ {0} /\ NumStr <= Modulus
  /\ PerSecond \in Nat \ {0} /\ MaxTicks \in Nat
  <1>1. bench \in Walks => bench \in Alone /\ bench \notin Loops /\ bench \notin Counters
                           /\ bench # "maRing"
    BY DEF Walks, Alone, Loops, Counters, Plain, Rings, Locked, CasLoops, Atomics
  <1> QED
    BY <1>1, ThreadsAndTurns, HarnessAssumption, ArrayAssumption DEF Size, Entries

\* The next string is one of them.
LEMMA NextStrInside == idx \in Nat => NextStr \in 0 .. NumStr - 1
  <1>1. ASSUME idx \in Nat
        PROVE  (idx + 1) % Modulus \in Nat
    BY <1>1, WalkFacts
  <1>2. \A n \in Nat : n % NumStr \in 0 .. NumStr - 1
    BY WalkFacts
  <1> QED
    BY <1>1, <1>2 DEF NextStr

\* The walk of each benchmark goes round evenly and inside its array.
LEMMA ArrayIndImpliesInv ==
  ASSUME HarnessInd, ArrayInd
  PROVE  ArrayInv
  <1>1. bench \in Walks => Threads = {1} /\ bench \notin Loops
    BY WalkFacts
  <1>2. /\ visits \in [Entries -> Nat] /\ idx \in Nat
        /\ Size \in Nat \ {0} /\ Entries = 0 .. Size - 1
    BY WalkFacts DEF ArrayInd, ArrayType
  <1>3. LeftOf(1) /\ Turns \in Nat \ {0} /\ left[1] \in 0 .. Turns /\ 1 \in AllThreads
    BY ThreadsAndTurns DEF HarnessInd, HarnessType
  <1>4. InsideArray
    <2>1. SUFFICES ASSUME bench \in Walks, pc[1] = "work"
                   PROVE  NextEntry \in Entries /\ held = 1
      BY DEF InsideArray
    <2>2. held = 1
      BY <2>1 DEF ArrayInd, HeldInRun
    <2>3. CASE bench = "elapsed"
      <3>1. idx = Turns - left[1] /\ left[1] > 0 /\ Turns = MeasureCnt /\ Size = MeasureCnt
        BY <1>1, <1>3, <2>1, <2>3 DEF ArrayInd, ElapsedWalk, Done, LeftOf, Working, Turns, Size
      <3>2. NextEntry = idx
        BY <2>3 DEF NextEntry
      <3> QED
        BY <1>2, <1>3, <2>2, <3>1, <3>2
    <2>4. CASE bench = "log"
      BY <2>1, <2>2, <2>4 DEF ArrayInd, LogWalk, NextEntry
    <2>5. CASE bench = "strcpy"
      BY <1>2, <2>2, <2>5, NextStrInside DEF NextEntry, Size
    <2> QED
      BY <2>1, <2>3, <2>4, <2>5 DEF Walks
  <1>5. Released
    BY ThreadsAndTurns DEF Released, AllDone, ArrayInd, HeldInRun
  <1>6. VisitedEvenly
    <2>1. SUFFICES ASSUME bench \in Walks, NEW e \in Entries, NEW f \in Entries
                   PROVE  /\ Usable(e) /\ Usable(f) => visits[e] <= visits[f] + 1
                          /\ ~Usable(e) => visits[e] = 0
      BY DEF VisitedEvenly
    <2>2. visits[e] \in Nat /\ visits[f] \in Nat
      BY <1>2
    <2>3. CASE pc[1] = "setUp"
      BY <2>1, <2>2, <2>3 DEF ArrayInd, HeldInRun
    <2>4. CASE bench = "elapsed" /\ pc[1] # "setUp"
      <3>1. visits[e] \in {0, 1} /\ visits[f] \in {0, 1}
        BY <2>4 DEF ArrayInd, ElapsedWalk
      <3> QED
        BY <2>4, <3>1 DEF Usable
    <2>5. CASE bench = "log" /\ pc[1] # "setUp"
      <3>1. idx \in Entries /\ visits[idx] \in Nat
        BY <1>2, <2>5 DEF ArrayInd, LogWalk
      <3>2. \A x \in Entries :
              /\ Usable(x) => visits[x] \in {visits[idx], visits[idx] + 1}
              /\ ~Usable(x) => visits[x] = 0
        BY <2>5 DEF ArrayInd, LogWalk
      <3> QED
        BY <3>1, <3>2
    <2>6. CASE bench = "strcpy" /\ pc[1] # "setUp"
      <3>1. NextStr \in Entries /\ visits[NextStr] \in Nat
        BY <1>2, <2>6, NextStrInside DEF Size
      <3>2. \A x \in Entries : visits[x] \in {visits[NextStr], visits[NextStr] + 1}
        BY <2>6 DEF ArrayInd, StrWalk
      <3>3. Usable(e)
        BY <2>6 DEF Usable
      <3> HIDE DEF NextStr
      <3> QED
        BY <3>1, <3>2, <3>3
    <2> QED
      BY <2>1, <2>3, <2>4, <2>5, <2>6 DEF Walks
  <1>7. TimesRise
    BY DEF TimesRise, ArrayInd, ElapsedWalk
  <1> QED
    BY <1>4, <1>5, <1>6, <1>7 DEF ArrayInv, ArrayInd

\* The difference of two timespecs is that of the clock.
LEMMA ElapsedIsDifference ==
  ASSUME NEW cur \in Nat, NEW start \in Nat
  PROVE  Elapsed(cur, start) = cur - start
  <1> DEFINE a == cur \div PerSecond
             b == start \div PerSecond
             c == cur % PerSecond
             d == start % PerSecond
  <1>1. /\ a \in Nat /\ b \in Nat /\ c \in Nat /\ d \in Nat
        /\ cur = a * PerSecond + c
        /\ start = b * PerSecond + d
    BY WalkFacts
  <1>2. Elapsed(cur, start) = (a - b) * PerSecond + c - d
    BY DEF Elapsed
  <1> HIDE DEF a, b, c, d
  <1>3. (a - b) * PerSecond = a * PerSecond - b * PerSecond
    BY <1>1, WalkFacts
  <1> QED
    BY <1>1, <1>2, <1>3, WalkFacts

\* What a step of a thread that walks is about.
LEMMA ArrayStepFacts ==
  ASSUME ArrayInd, NEW t \in Threads, bench \in Walks, bench' = bench
  PROVE  /\ t = 1 /\ 1 \in Threads /\ Threads' = Threads /\ Turns' = Turns /\ Entries' = Entries
         /\ idx \in Nat /\ held \in Nat /\ clock \in Nat /\ origin \in Nat
         /\ visits \in [Entries -> Nat] /\ times \in [Entries -> Int]
         /\ Size' = Size /\ Size \in Nat \ {0} /\ Entries = 0 .. Size - 1
  BY WalkFacts, ThreadsAndTurns, SameBench DEF ArrayInd, ArrayType

\* SetUp begins a walk.
LEMMA SetUpArrayKeeps ==
  ASSUME HarnessInd, ArrayInd, NEW t \in Threads, SetUpArray(t)
  PROVE  HarnessInd' /\ ArrayInd'
  <1>1. /\ bench \in Walks /\ pc[t] = "setUp" /\ bench' = bench /\ Goto(t, "start")
        /\ held' = held + 1 /\ idx' = IndexAtSetUp /\ origin' = clock
        /\ UNCHANGED <<run, left, visits, clock, times>>
    BY DEF SetUpArray
  <1>2. HarnessInd'
    BY <1>1, MoveKeepsHarness DEF OneOn
  <1>3. /\ t = 1 /\ Threads' = Threads /\ Turns' = Turns /\ Entries' = Entries
        /\ idx \in Nat /\ held \in Nat /\ clock \in Nat
        /\ visits \in [Entries -> Nat] /\ times \in [Entries -> Int]
        /\ Size' = Size /\ Size \in Nat \ {0} /\ Entries = 0 .. Size - 1
    BY <1>1, ArrayStepFacts
  <1>4. pc'[1] = "start" /\ Done(1)' = 0
    <2>1. 1 \in AllThreads /\ left[1] = Turns
      BY <1>1, <1>3, ThreadsAndTurns DEF HarnessInd, LeftOf, Before
    <2> QED
      BY <1>1, <1>3, <2>1, ThreadsAndTurns DEF Done, Goto, HarnessInd, HarnessType
  <1>5. idx' \in Nat /\ held' \in Nat /\ held' = 1
    BY <1>1, <1>3 DEF IndexAtSetUp, ArrayInd, HeldInRun
  <1>6. ArrayType'
    BY <1>1, <1>3, <1>5 DEF ArrayType
  <1>7. HeldInRun'
    BY <1>1, <1>4, <1>5 DEF HeldInRun
  <1>8. \A e \in Entries : visits'[e] = 0
    BY <1>1, <1>3 DEF ArrayInd, HeldInRun
  <1>9. ElapsedWalk'
    <2>1. bench = "elapsed" => idx' = 0
      BY <1>1 DEF IndexAtSetUp
    <2> QED
      BY <1>1, <1>3, <1>4, <1>8, <2>1 DEF ElapsedWalk
  <1>10. LogWalk'
    <2>1. bench = "log" => idx' = 0
      BY <1>1 DEF IndexAtSetUp
    <2>2. 0 \in Entries /\ LogPlace(0) = 0
      BY <1>3 DEF LogPlace
    <2>3. \A e \in Entries : ~(LogPlace(e) < LogPlace(0))
      BY <1>3, <2>2, WalkFacts DEF LogPlace
    <2>4. Usable(0)'
      BY DEF Usable
    <2>5. SUFFICES ASSUME bench = "log"
                   PROVE  LogWalk'
      BY <1>1 DEF LogWalk
    <2>6. \A e \in Entries :
            visits'[e] = IF ~Usable(e)' THEN 0
                         ELSE IF LogPlace(e) < LogPlace(0) THEN visits'[0] + 1 ELSE visits'[0]
      BY <1>8, <2>2, <2>3
    <2> QED
      BY ONLY <1>3, <2>1, <2>2, <2>4, <2>5, <2>6 DEF LogWalk, LogPlace
  <1>11. StrWalk'
    <2>1. SUFFICES ASSUME bench = "strcpy"
                   PROVE  StrWalk'
      BY <1>1 DEF StrWalk
    <2>2. NextStr' \in Entries
      <3>1. (idx' + 1) % Modulus \in Nat
        <4>1. \A k \in Nat : (k + 1) % Modulus \in Nat
          BY WalkFacts
        <4> QED
          BY <1>5, <4>1
      <3>2. \A k \in Nat : k % NumStr \in 0 .. NumStr - 1
        BY WalkFacts
      <3> QED
        BY <1>3, <2>1, <3>1, <3>2 DEF NextStr, Size
    <2> DEFINE n == NextStr'
    <2> HIDE DEF n
    <2>3. n \in Entries /\ \A e \in Entries : ~(StrPlace(n, e) < StrPlace(n, n))
      <3>1. n \in Entries
        BY <2>2 DEF n
      <3> QED
        BY SMTT(30), <1>3, <2>1, <3>1, WalkFacts DEF StrPlace, Size
    <2>4. \A e \in Entries :
            visits'[e] = IF StrPlace(n, e) < StrPlace(n, n) THEN visits'[n] + 1 ELSE visits'[n]
      BY <1>8, <2>3
    <2> QED
      BY <1>3, <2>2, <2>4 DEF StrWalk, n
  <1> QED
    BY <1>2, <1>6, <1>7, <1>9, <1>10, <1>11 DEF ArrayInd

\* TearDown ends it.
LEMMA TearDownArrayKeeps ==
  ASSUME HarnessInd, ArrayInd, NEW t \in Threads, TearDownArray(t)
  PROVE  HarnessInd' /\ ArrayInd'
  <1>1. /\ bench \in Walks /\ pc[t] = "tearDown" /\ bench' = bench /\ Goto(t, "done")
        /\ held' = held - 1
        /\ UNCHANGED <<run, left, idx, visits, clock, origin, times>>
    BY DEF TearDownArray
  <1>2. HarnessInd'
    BY <1>1, MoveKeepsHarness DEF OneOn
  <1>3. /\ t = 1 /\ 1 \in Threads /\ Threads' = Threads /\ Turns' = Turns /\ Entries' = Entries
    BY <1>1, ArrayStepFacts
  <1>4. pc[1] = "tearDown" /\ pc'[1] = "done" /\ Done(1)' = Done(1)
    BY <1>1, <1>3, ThreadsAndTurns DEF Done, Goto, HarnessInd, HarnessType
  <1>5. held' = 0
    BY <1>1, <1>4 DEF ArrayInd, HeldInRun
  <1>6. ArrayType' /\ HeldInRun'
    BY <1>1, <1>3, <1>4, <1>5 DEF ArrayInd, ArrayType, HeldInRun
  <1>7. ElapsedWalk'
    BY <1>1, <1>3, <1>4 DEF ArrayInd, ElapsedWalk
  <1>8. LogWalk'
    BY <1>1, <1>3, <1>4 DEF ArrayInd, LogWalk, Usable
  <1>9. StrWalk'
    BY <1>1, <1>3, <1>4 DEF ArrayInd, StrWalk, NextStr
  <1> QED
    BY <1>2, <1>6, <1>7, <1>8, <1>9 DEF ArrayInd

\* The barriers leave the array as it is.
LEMMA ArrayAtBarrier ==
  ASSUME HarnessInd, ArrayInd, Barrier, UNCHANGED arrayVars
  PROVE  ArrayInd'
  <1>1. /\ bench' = bench /\ Threads' = Threads /\ Turns' = Turns /\ Entries' = Entries
        /\ 1 \in Threads /\ left' = left
    BY SameBench, ThreadsAndTurns DEF Barrier
  <1>2. UNCHANGED <<idx, held, visits, clock, origin, times>>
    BY DEF arrayVars
  <1>3. /\ Done(1)' = Done(1)
        /\ pc[1] \notin {"setUp", "done"} /\ pc'[1] \notin {"setUp", "done"}
    BY <1>1, MeetKeepsHarness
  <1>4. ArrayType' /\ HeldInRun'
    BY <1>1, <1>2, <1>3 DEF ArrayInd, ArrayType, HeldInRun
  <1>5. ElapsedWalk'
    BY <1>1, <1>2, <1>3 DEF ArrayInd, ElapsedWalk
  <1>6. LogWalk'
    BY <1>1, <1>2, <1>3 DEF ArrayInd, LogWalk, Usable
  <1>7. StrWalk'
    BY <1>1, <1>2, <1>3 DEF ArrayInd, StrWalk, NextStr
  <1> QED
    BY <1>4, <1>5, <1>6, <1>7 DEF ArrayInd

\* A new run has a new array, and nothing of the last one is held.
LEMMA ArrayNextRunKeeps ==
  ASSUME HarnessInd, ArrayInd, NextRun, ArrayNextRun
  PROVE  ArrayInd'
  <1>1. bench' = bench /\ Entries' = Entries /\ pc[1] = "done"
    BY SameBench, ThreadsAndTurns DEF NextRun, AllDone
  <1>2. pc'[1] = "setUp"
    BY ThreadsAndTurns, NextRunKeepsHarness
  <1>3. visits' = [e \in Entries |-> 0] /\ times' = [e \in Entries |-> 0]
        /\ UNCHANGED <<idx, held, clock, origin>>
    BY DEF ArrayNextRun
  <1>4. ArrayType' /\ HeldInRun'
    BY <1>1, <1>2, <1>3 DEF ArrayInd, ArrayType, HeldInRun
  <1> QED
    BY <1>2, <1>4 DEF ArrayInd, ElapsedWalk, LogWalk, StrWalk

\* The first states.
LEMMA ArrayIndInit ==
  ASSUME HarnessInit, ArrayInit
  PROVE  ArrayInd
  <1>1. bench \in Walks => pc[1] = "setUp"
    BY ThreadsAndTurns, WalkFacts DEF HarnessInit, AtStart
  <1>2. ArrayType
    BY WalkFacts DEF ArrayInit, ArrayType
  <1>3. HeldInRun
    BY <1>1 DEF ArrayInit, HeldInRun
  <1> QED
    BY <1>1, <1>2, <1>3 DEF ArrayInd, ElapsedWalk, LogWalk, StrWalk, Walks

\* Every measurement is stored behind the last one, and is no less.
LEMMA MeasureElapsedKeeps ==
  ASSUME HarnessInd, ArrayInd, NEW t \in Threads, MeasureElapsed(t)
  PROVE  HarnessInd' /\ ArrayInd'
  <1>1. /\ bench = "elapsed" /\ bench \in Walks /\ pc[t] = "work" /\ pc[t] \in Working
        /\ bench' = bench
        /\ clock' \in clock .. clock + MaxTicks
        /\ times' = [times EXCEPT ![idx] = Elapsed(clock', origin)]
        /\ visits' = [visits EXCEPT ![idx] = visits[idx] + 1]
        /\ idx' = idx + 1 /\ EndIteration(t)
        /\ UNCHANGED <<run, held, origin>>
    BY DEF MeasureElapsed, Walks, Working
  <1>2. /\ t = 1 /\ 1 \in Threads /\ Turns' = Turns /\ Entries' = Entries
        /\ idx \in Nat /\ held \in Nat /\ clock \in Nat /\ origin \in Nat
        /\ visits \in [Entries -> Nat] /\ times \in [Entries -> Int]
        /\ Entries = 0 .. Size - 1 /\ Size \in Nat
    BY <1>1, ArrayStepFacts
  <1>3. HarnessInd' /\ Done(1)' = Done(1) + 1 /\ pc'[1] \in {"work", "stop", "done"}
        /\ (pc'[1] = "done" => bench \in Loops)
    BY <1>1, <1>2, EndKeepsHarness
  <1>4. /\ idx = Done(1) /\ origin <= clock
        /\ \A e \in Entries : visits[e] = IF e < idx THEN 1 ELSE 0
        /\ \A e, f \in 0 .. idx - 1 :
             e <= f => 0 <= times[e] /\ times[e] <= times[f] /\ times[f] <= clock - origin
    BY <1>1, <1>2 DEF ArrayInd, ElapsedWalk
  <1>5. idx \in Entries
    <2>1. Done(1) \in 0 .. Turns - 1
      BY <1>1, <1>2, WorkingStarted
    <2>2. Turns = Size
      BY <1>1 DEF Turns, Size
    <2> QED
      BY <1>2, <1>4, <2>1, <2>2
  <1>6. pc'[1] \notin {"setUp", "done"} /\ pc[1] \notin {"setUp", "done"}
    BY <1>1, <1>2, <1>3, WalkFacts
  <1>7. PICK now \in Nat :
          /\ clock' = now /\ clock <= now /\ now - origin \in Int
          /\ \A e \in Entries : times'[e] = IF e = idx THEN now - origin ELSE times[e]
          /\ times' \in [Entries -> Int]
    <2>1. PICK now \in clock .. clock + MaxTicks : now = clock'
      BY <1>1
    <2>2. now \in Nat /\ clock <= now /\ now - origin \in Int
      BY <1>2, WalkFacts
    <2>3. Elapsed(now, origin) = now - origin
      BY <1>2, <2>2, ElapsedIsDifference
    <2>4. times' = [times EXCEPT ![idx] = now - origin]
      BY <1>1, <2>1, <2>3
    <2> QED
      BY <1>2, <2>1, <2>2, <2>4
  <1>8. ArrayType' /\ HeldInRun'
    <2>1. idx' \in Nat /\ visits' \in [Entries -> Nat]
      BY <1>1, <1>2, <1>5
    <2>2. ArrayType'
      BY <1>1, <1>2, <1>7, <2>1 DEF ArrayType
    <2>3. HeldInRun'
      BY <1>1, <1>6 DEF ArrayInd, HeldInRun
    <2> QED
      BY <2>2, <2>3
  <1>9. ElapsedWalk'
    <2>1. idx' = Done(1)' /\ origin' <= clock'
      BY <1>1, <1>2, <1>3, <1>4, <1>7
    <2>2. \A e \in Entries : visits'[e] = IF e < idx' THEN 1 ELSE 0
      BY SMTT(30), <1>1, <1>2, <1>4, <1>5
    <2>3. ASSUME NEW e \in 0 .. idx' - 1, NEW f \in 0 .. idx' - 1, e <= f
          PROVE  0 <= times'[e] /\ times'[e] <= times'[f] /\ times'[f] <= now - origin
      <3>1. e \in Entries /\ f \in Entries /\ e \in 0 .. idx /\ f \in 0 .. idx
        <4>1. \A n, m, k \in Nat : n \in 0 .. m - 1 /\ k \in 0 .. (n + 1) - 1 =>
                                      k \in 0 .. m - 1 /\ k \in 0 .. n
          OBVIOUS
        <4>2. e \in Nat /\ f \in Nat /\ e \in 0 .. (idx + 1) - 1 /\ f \in 0 .. (idx + 1) - 1
          BY <1>1
        <4> QED
          BY <1>2, <1>5, <4>1, <4>2
      <3>2. times[e] \in Int /\ times[f] \in Int /\ origin' = origin
        BY <1>1, <1>2, <3>1
      <3>3. /\ times'[e] = IF e = idx THEN now - origin ELSE times[e]
            /\ times'[f] = IF f = idx THEN now - origin ELSE times[f]
        BY <1>7, <3>1
      <3>4. CASE e = idx
        <4>1. f = idx
          BY <2>3, <3>1, <3>4
        <4> QED
          BY <1>2, <1>4, <1>7, <3>2, <3>3, <3>4, <4>1
      <3>5. CASE e # idx /\ f = idx
        <4>1. e \in 0 .. idx - 1
          BY <1>2, <3>1, <3>5
        <4>2. 0 <= times[e] /\ times[e] <= clock - origin
          BY <1>4, <4>1
        <4> QED
          BY <1>2, <1>7, <3>2, <3>3, <3>5, <4>2
      <3>6. CASE e # idx /\ f # idx
        <4>1. e \in 0 .. idx - 1 /\ f \in 0 .. idx - 1
          BY <1>2, <3>1, <3>6
        <4>2. 0 <= times[e] /\ times[e] <= times[f] /\ times[f] <= clock - origin
          BY <1>4, <2>3, <4>1
        <4> QED
          BY SMTT(30), <1>2, <1>7, <3>2, <3>3, <3>6, <4>2
      <3> QED
        BY <3>4, <3>5, <3>6
    <2> QED
      BY <1>1, <1>2, <1>7, <2>1, <2>2, <2>3 DEF ElapsedWalk
  <1>10. LogWalk' /\ StrWalk'
    BY <1>1 DEF LogWalk, StrWalk
  <1> QED
    BY <1>3, <1>8, <1>9, <1>10 DEF ArrayInd

\* A number below twice the width.
LEMMA RemainderOnce ==
  ASSUME NEW m \in Nat \ {0}, NEW a \in Nat
  PROVE  /\ a < m => a % m = a
         /\ m <= a /\ a - m < m => a % m = a - m
  <1> DEFINE q == a \div m
             r == a % m
  <1>1. q \in Nat /\ r \in Nat /\ r < m /\ a = q * m + r
    OBVIOUS
  <1> HIDE DEF q, r
  <1>2. CASE a < m
    <2>1. q * m + r = 0 * m + a
      BY <1>1
    <2>2. r = a
      BY <1>1, <1>2, <2>1, CellUnique
    <2> QED
      BY <1>2, <2>2 DEF r
  <1>3. CASE m <= a /\ a - m < m
    <2>1. q * m + r = 1 * m + (a - m) /\ a - m \in Nat
      BY <1>1, <1>3
    <2>2. r = a - m
      BY <1>1, <1>3, <2>1, CellUnique
    <2> QED
      BY <1>3, <2>2 DEF r
  <1> QED
    BY <1>2, <1>3

\* The entry that comes after entry i, in a walk by two.
LEMMA LogPlaceNext ==
  ASSUME NEW i \in 0 .. NumMsg - 1, NumMsg % 2 = 0 => i % 2 = 0,
         NEW j, j = (i + 2) % NumMsg
  PROVE  /\ j \in 0 .. NumMsg - 1 /\ (NumMsg % 2 = 0 => j % 2 = 0)
         /\ \/ /\ i # j /\ LogPlace(i) < LogPlace(j)
               /\ \A e \in 0 .. NumMsg - 1 :
                    (NumMsg % 2 = 0 => e % 2 = 0) =>
                      (LogPlace(e) < LogPlace(j) <=> LogPlace(e) < LogPlace(i) \/ e = i)
            \/ /\ \A e \in 0 .. NumMsg - 1 :
                    (NumMsg % 2 = 0 => e % 2 = 0) /\ e # i => LogPlace(e) < LogPlace(i)
               /\ \A e \in 0 .. NumMsg - 1 : ~(LogPlace(e) < LogPlace(j))
  <1>1. NumMsg \in Nat \ {0} /\ i + 2 \in Nat
    BY WalkFacts
  <1>2. CASE i + 2 < NumMsg
    <2>1. j = i + 2
      BY <1>1, <1>2, RemainderOnce
    <2> QED
      BY <1>1, <1>2, <2>1 DEF LogPlace
  <1>3. CASE ~(i + 2 < NumMsg) /\ NumMsg > 1
    <2>1. j = i + 2 - NumMsg /\ j \in {0, 1}
      BY <1>1, <1>3, RemainderOnce
    <2> QED
      BY <1>1, <1>3, <2>1 DEF LogPlace
  <1>4. CASE NumMsg = 1
    <2>1. i = 0 /\ j = 0
      BY <1>4
    <2> QED
      BY <1>4, <2>1 DEF LogPlace
  <1> QED
    BY <1>1, <1>2, <1>3, <1>4

\* A message that is written is the next one of the walk.
LEMMA WriteMsgKeeps ==
  ASSUME HarnessInd, ArrayInd, NEW t \in Threads, WriteMsg(t)
  PROVE  HarnessInd' /\ ArrayInd'
  <1>1. /\ bench = "log" /\ bench \in Walks /\ pc[t] = "work" /\ pc[t] \in Working
        /\ bench' = bench
        /\ visits' = [visits EXCEPT ![idx] = visits[idx] + 1]
        /\ idx' = (idx + 2) % NumMsg /\ EndIteration(t)
        /\ UNCHANGED <<run, held, clock, origin, times>>
    BY DEF WriteMsg, Walks, Working
  <1>2. /\ t = 1 /\ 1 \in Threads /\ Entries' = Entries
        /\ held \in Nat /\ clock \in Nat /\ origin \in Nat
        /\ visits \in [Entries -> Nat] /\ times \in [Entries -> Int]
        /\ Entries = 0 .. NumMsg - 1
    BY <1>1, ArrayStepFacts DEF Size
  <1>3. HarnessInd' /\ pc'[1] \in {"work", "stop", "done"} /\ (pc'[1] = "done" => bench \in Loops)
    BY <1>1, <1>2, EndKeepsHarness
  <1>4. pc'[1] \notin {"setUp", "done"} /\ pc[1] \notin {"setUp", "done"}
    BY <1>1, <1>2, <1>3, WalkFacts
  <1>5. /\ idx \in Entries /\ (NumMsg % 2 = 0 => idx % 2 = 0)
        /\ \A e \in Entries :
             visits[e] = IF ~(NumMsg % 2 = 0 => e % 2 = 0) THEN 0
                         ELSE IF LogPlace(e) < LogPlace(idx) THEN visits[idx] + 1 ELSE visits[idx]
    BY <1>1, <1>4 DEF ArrayInd, LogWalk, Usable
  <1>6. /\ idx' \in Entries /\ (NumMsg % 2 = 0 => idx' % 2 = 0)
        /\ \/ /\ idx # idx' /\ LogPlace(idx) < LogPlace(idx')
              /\ \A e \in Entries :
                   (NumMsg % 2 = 0 => e % 2 = 0) =>
                     (LogPlace(e) < LogPlace(idx') <=> LogPlace(e) < LogPlace(idx) \/ e = idx)
           \/ /\ \A e \in Entries :
                   (NumMsg % 2 = 0 => e % 2 = 0) /\ e # idx => LogPlace(e) < LogPlace(idx)
              /\ \A e \in Entries : ~(LogPlace(e) < LogPlace(idx'))
    <2>1. idx \in 0 .. NumMsg - 1
      BY <1>2, <1>5
    <2>2. PICK n : n = (idx + 2) % NumMsg
      OBVIOUS
    <2>3. /\ n \in 0 .. NumMsg - 1 /\ (NumMsg % 2 = 0 => n % 2 = 0)
          /\ \/ /\ idx # n /\ LogPlace(idx) < LogPlace(n)
                /\ \A e \in 0 .. NumMsg - 1 :
                     (NumMsg % 2 = 0 => e % 2 = 0) =>
                       (LogPlace(e) < LogPlace(n) <=> LogPlace(e) < LogPlace(idx) \/ e = idx)
             \/ /\ \A e \in 0 .. NumMsg - 1 :
                     (NumMsg % 2 = 0 => e % 2 = 0) /\ e # idx => LogPlace(e) < LogPlace(idx)
                /\ \A e \in 0 .. NumMsg - 1 : ~(LogPlace(e) < LogPlace(n))
      <3>1. NumMsg % 2 = 0 => idx % 2 = 0
        BY <1>5
      <3> QED
        BY ONLY <2>1, <2>2, <3>1, LogPlaceNext
    <2>4. idx' = n
      BY <1>1, <2>2
    <2>5. Entries = 0 .. NumMsg - 1
      BY <1>2
    <2> QED
      BY ONLY <2>3, <2>4, <2>5
  <1>7. idx' \in Nat
    BY <1>2, <1>6
  <1>8. ArrayType' /\ HeldInRun'
    BY <1>1, <1>2, <1>4, <1>5, <1>7 DEF ArrayInd, ArrayType, HeldInRun
  <1>9. \A e \in Entries : visits'[e] = IF e = idx THEN visits[idx] + 1 ELSE visits[e]
    BY <1>1, <1>2, <1>5
  <1>10. visits[idx] \in Nat
    BY <1>2, <1>5
  <1>11. \A e \in Entries : LogPlace(e) \in Nat
    BY <1>2, WalkFacts DEF LogPlace
  <1>12. ~(LogPlace(idx) < LogPlace(idx))
    BY <1>5, <1>11
  <1>13. \A e \in Entries :
           visits'[e] = IF ~(NumMsg % 2 = 0 => e % 2 = 0) THEN 0
                        ELSE IF LogPlace(e) < LogPlace(idx') THEN visits'[idx'] + 1 ELSE visits'[idx']
    <2>1. CASE /\ idx # idx' /\ LogPlace(idx) < LogPlace(idx')
               /\ \A e \in Entries :
                    (NumMsg % 2 = 0 => e % 2 = 0) =>
                      (LogPlace(e) < LogPlace(idx') <=> LogPlace(e) < LogPlace(idx) \/ e = idx)
      <3>1. ~(LogPlace(idx') < LogPlace(idx))
        BY <1>5, <1>6, <1>11, <2>1
      <3>2. visits'[idx'] = visits[idx]
        BY ONLY <1>5, <1>6, <1>9, <2>1, <3>1
      <3> QED
        BY ONLY <1>5, <1>6, <1>9, <1>12, <2>1, <3>2
    <2>2. CASE /\ \A e \in Entries :
                    (NumMsg % 2 = 0 => e % 2 = 0) /\ e # idx => LogPlace(e) < LogPlace(idx)
               /\ \A e \in Entries : ~(LogPlace(e) < LogPlace(idx'))
      <3>1. \A e \in Entries :
              visits'[e] = IF ~(NumMsg % 2 = 0 => e % 2 = 0) THEN 0 ELSE visits[idx] + 1
        BY ONLY <1>5, <1>9, <2>2
      <3> QED
        BY ONLY <1>6, <2>2, <3>1
    <2> QED
      BY ONLY <1>6, <2>1, <2>2
  <1>14. LogWalk'
    <2>1. \A e \in Entries : Usable(e)' <=> (NumMsg % 2 = 0 => e % 2 = 0)
      BY <1>1 DEF Usable
    <2>2. Usable(idx)'
      BY <1>6 DEF Usable
    <2> QED
      BY ONLY <1>2, <1>6, <1>13, <2>1, <2>2 DEF LogWalk, LogPlace
  <1>15. ElapsedWalk' /\ StrWalk'
    BY <1>1 DEF ElapsedWalk, StrWalk
  <1> QED
    BY <1>3, <1>8, <1>14, <1>15 DEF ArrayInd

\* The string that comes after string i, in a walk that begins with string f.
LEMMA StrPlaceNext ==
  ASSUME NEW i \in 0 .. NumStr - 1, NEW f \in 0 .. NumStr - 1,
         NEW j, j = ((i + 1) % Modulus) % NumStr
  PROVE  /\ j \in 0 .. NumStr - 1
         /\ \/ /\ i # j /\ StrPlace(f, i) < StrPlace(f, j)
               /\ \A e \in 0 .. NumStr - 1 :
                    StrPlace(f, e) < StrPlace(f, j) <=> StrPlace(f, e) < StrPlace(f, i) \/ e = i
            \/ /\ \A e \in 0 .. NumStr - 1 : e # i => StrPlace(f, e) < StrPlace(f, i)
               /\ \A e \in 0 .. NumStr - 1 : ~(StrPlace(f, e) < StrPlace(f, j))
  <1>1. NumStr \in Nat \ {0} /\ Modulus \in Nat \ {0} /\ NumStr <= Modulus /\ i + 1 \in Nat
    BY WalkFacts
  <1>2. j = IF i + 1 < NumStr THEN i + 1 ELSE 0
    <2>1. CASE i + 1 < NumStr
      <3>1. (i + 1) % Modulus = i + 1
        <4>1. i + 1 < Modulus
          BY <1>1, <2>1
        <4> QED
          BY <1>1, <4>1, RemainderOnce
      <3>2. (i + 1) % NumStr = i + 1
        BY <1>1, <2>1, RemainderOnce
      <3> QED
        BY <2>1, <3>1, <3>2
    <2>2. CASE i + 1 = NumStr
      <3>1. CASE i + 1 < Modulus
        <4>1. (i + 1) % Modulus = i + 1
          BY <1>1, <3>1, RemainderOnce
        <4>2. (i + 1) % NumStr = i + 1 - NumStr
          BY <1>1, <2>2, RemainderOnce
        <4> QED
          BY <1>1, <2>2, <4>1, <4>2
      <3>2. CASE i + 1 = Modulus
        <4>1. (i + 1) % Modulus = i + 1 - Modulus
          BY <1>1, <3>2, RemainderOnce
        <4>2. 0 % NumStr = 0
          BY <1>1, RemainderOnce
        <4> QED
          BY <1>1, <2>2, <3>2, <4>1, <4>2
      <3> QED
        BY <1>1, <2>2, <3>1, <3>2
    <2> QED
      BY <1>1, <2>1, <2>2
  <1> QED
    BY <1>1, <1>2 DEF StrPlace

\* A string that is copied is the next one of the walk.
LEMMA CopyStrKeeps ==
  ASSUME HarnessInd, ArrayInd, NEW t \in Threads, CopyStr(t)
  PROVE  HarnessInd' /\ ArrayInd'
  <1>1. /\ bench = "strcpy" /\ bench \in Walks /\ pc[t] = "work" /\ pc[t] \in Working
        /\ bench' = bench /\ idx' = NextStr
        /\ visits' = [visits EXCEPT ![NextStr] = visits[NextStr] + 1]
        /\ EndIteration(t)
        /\ UNCHANGED <<run, held, clock, origin, times>>
    BY DEF CopyStr, Walks, Working
  <1>2. /\ t = 1 /\ 1 \in Threads /\ Entries' = Entries
        /\ held \in Nat /\ clock \in Nat /\ origin \in Nat
        /\ visits \in [Entries -> Nat] /\ times \in [Entries -> Int]
        /\ Entries = 0 .. NumStr - 1
    BY <1>1, ArrayStepFacts DEF Size
  <1>3. HarnessInd' /\ pc'[1] \in {"work", "stop", "done"} /\ (pc'[1] = "done" => bench \in Loops)
    BY <1>1, <1>2, EndKeepsHarness
  <1>4. pc'[1] \notin {"setUp", "done"} /\ pc[1] \notin {"setUp", "done"}
    BY <1>1, <1>2, <1>3, WalkFacts
  <1>5. PICK i \in 0 .. NumStr - 1 : i = NextStr
    BY <1>1, ArrayStepFacts, NextStrInside
  <1>6. PICK j : j = ((i + 1) % Modulus) % NumStr
    OBVIOUS
  <1>7. idx' = i /\ NextStr' = j
    BY <1>1, <1>5, <1>6 DEF NextStr
  <1>8. PICK f \in 0 .. NumStr - 1 : \A e \in 0 .. NumStr - 1 :
          visits[e] = IF StrPlace(f, e) < StrPlace(f, i) THEN visits[i] + 1 ELSE visits[i]
    BY <1>1, <1>2, <1>4, <1>5 DEF ArrayInd, StrWalk
  <1>9. /\ j \in 0 .. NumStr - 1
        /\ \/ /\ i # j /\ StrPlace(f, i) < StrPlace(f, j)
              /\ \A e \in 0 .. NumStr - 1 :
                   StrPlace(f, e) < StrPlace(f, j) <=> StrPlace(f, e) < StrPlace(f, i) \/ e = i
           \/ /\ \A e \in 0 .. NumStr - 1 : e # i => StrPlace(f, e) < StrPlace(f, i)
              /\ \A e \in 0 .. NumStr - 1 : ~(StrPlace(f, e) < StrPlace(f, j))
    BY ONLY <1>6, StrPlaceNext
  <1>10. \A e \in 0 .. NumStr - 1 : visits'[e] = IF e = i THEN visits[i] + 1 ELSE visits[e]
    BY <1>1, <1>2, <1>5
  <1>11. \A e \in 0 .. NumStr - 1 : StrPlace(f, e) \in Int
    BY WalkFacts DEF StrPlace
  <1>12. ~(StrPlace(f, i) < StrPlace(f, i))
    BY <1>11
  <1>13. \A e \in 0 .. NumStr - 1 :
           visits'[e] = IF StrPlace(f, e) < StrPlace(f, j) THEN visits'[j] + 1 ELSE visits'[j]
    <2>1. CASE /\ i # j /\ StrPlace(f, i) < StrPlace(f, j)
               /\ \A e \in 0 .. NumStr - 1 :
                    StrPlace(f, e) < StrPlace(f, j) <=> StrPlace(f, e) < StrPlace(f, i) \/ e = i
      <3>1. ~(StrPlace(f, j) < StrPlace(f, i))
        BY <1>9, <1>11, <2>1
      <3>2. visits'[j] = visits[i]
        BY ONLY <1>8, <1>9, <1>10, <2>1, <3>1
      <3> QED
        BY ONLY <1>8, <1>10, <1>12, <2>1, <3>2
    <2>2. CASE /\ \A e \in 0 .. NumStr - 1 : e # i => StrPlace(f, e) < StrPlace(f, i)
               /\ \A e \in 0 .. NumStr - 1 : ~(StrPlace(f, e) < StrPlace(f, j))
      <3>1. \A e \in 0 .. NumStr - 1 : visits'[e] = visits[i] + 1
        BY ONLY <1>8, <1>10, <2>2
      <3> QED
        BY ONLY <1>9, <2>2, <3>1
    <2> QED
      BY ONLY <1>9, <2>1, <2>2
  <1>14. StrWalk'
    BY ONLY <1>2, <1>7, <1>8, <1>13 DEF StrWalk, StrPlace
  <1>15. ArrayType' /\ HeldInRun'
    <2>1. idx' \in Nat /\ visits' \in [Entries -> Nat]
      BY <1>1, <1>2, <1>5
    <2>2. ArrayType'
      BY <1>1, <1>2, <2>1 DEF ArrayType
    <2>3. HeldInRun'
      BY <1>1, <1>4 DEF ArrayInd, HeldInRun
    <2> QED
      BY <2>2, <2>3
  <1>16. ElapsedWalk' /\ LogWalk'
    BY <1>1 DEF ElapsedWalk, LogWalk
  <1> QED
    BY <1>3, <1>14, <1>15, <1>16 DEF ArrayInd

\* All steps of a walk.
LEMMA ArrayStepKeeps ==
  ASSUME HarnessInd, ArrayInd, NEW t \in Threads, ArrayStep(t)
  PROVE  HarnessInd' /\ ArrayInd' /\ bench \in Walks /\ bench' = bench /\ run' = run
  <1>1. HarnessInd' /\ ArrayInd'
    BY SetUpArrayKeeps, MeasureElapsedKeeps, WriteMsgKeeps, CopyStrKeeps, TearDownArrayKeeps
    DEF ArrayStep
  <1>2. bench \in Walks /\ bench' = bench /\ run' = run
    BY DEF ArrayStep, SetUpArray, MeasureElapsed, WriteMsg, CopyStr, TearDownArray, Walks
  <1> QED
    BY <1>1, <1>2

--------------------------------------------------------------------------------
(* The rings of muggle_ma_ring.                                                *)

\* What each step of call_once, and of the backend, leaves to a thread.
LEMMA MaTypes ==
  ASSUME MaInd
  PROVE  /\ ctx \in [Ids -> [made : BOOLEAN, slots : [MySlots -> Nat \cup {NoRecord}], w : Nat, r : Nat]]
         /\ logged \in [Ids -> Seq(Nat \cup {NoRecord})]
         /\ number \in [AllThreads -> Nat]
         /\ MaCapacity \in Nat \ {0} /\ Iterations \in Nat \ {0} /\ Runs \in Nat \ {0}
         /\ NumThread \in Nat \ {0}
         /\ \A id \in Ids : /\ ctx[id].made \in BOOLEAN /\ ctx[id].w \in Nat /\ ctx[id].r \in Nat
                            /\ ctx[id].slots \in [MySlots -> Nat \cup {NoRecord}]
                            /\ id \in AllThreads \X (1 .. Runs)
                            /\ FirstNumber(id) \in Nat
  <1>1. MaType
    BY DEF MaInd
  <1>2. MaCapacity \in Nat \ {0} /\ Iterations \in Nat \ {0} /\ Runs \in Nat \ {0}
        /\ NumThread \in Nat \ {0}
    BY MaAssumption, HarnessAssumption
  <1>3. ASSUME NEW id \in Ids
        PROVE  FirstNumber(id) \in Nat
    <2>1. id[2] \in 1 .. Runs
      BY DEF Ids
    <2>2. id[2] - 1 \in Nat
      BY <2>1, <1>2
    <2>3. \A k \in Nat : k * Iterations \in Nat
      BY <1>2
    <2> QED
      BY <2>2, <2>3 DEF FirstNumber
  <1>4. \A id \in Ids : /\ ctx[id].made \in BOOLEAN /\ ctx[id].w \in Nat /\ ctx[id].r \in Nat
                        /\ ctx[id].slots \in [MySlots -> Nat \cup {NoRecord}]
                        /\ id \in AllThreads \X (1 .. Runs)
    BY <1>1 DEF MaType, Ids
  <1> QED
    BY <1>1, <1>2, <1>3, <1>4 DEF MaType

\* The lines in the file follow from what stands in the rings.
LEMMA MaIndImpliesInv ==
  ASSUME MaInd
  PROVE  LogInv
  <1>1. MaType
    BY DEF MaInd
  <1>2. ReadyWhenUsed
    BY DEF MaInd, RingOf, OnceInv, ReadyWhenUsed
  <1>3. ASSUME NEW id \in Ids
        PROVE  /\ ctx[id].r \in Nat /\ ctx[id].w \in Nat /\ Len(logged[id]) = ctx[id].r
               /\ ctx[id].r <= ctx[id].w /\ ctx[id].w <= ctx[id].r + MaCapacity
               /\ FirstNumber(id) \in Nat
               /\ \A k \in 1 .. Len(logged[id]) : logged[id][k] = FirstNumber(id) + k - 1
               /\ logged[id] \in Seq(Nat \cup {NoRecord})
    BY MaTypes DEF MaInd, RingOf
  <1>4. LinesConsecutive
    <2>1. SUFFICES ASSUME NEW id \in Ids, NEW k \in 2 .. Len(logged[id])
                   PROVE  logged[id][k] = logged[id][k - 1] + 1
      BY DEF LinesConsecutive
    <2>2. k \in 1 .. Len(logged[id]) /\ k - 1 \in 1 .. Len(logged[id])
      BY <1>3
    <2>3. /\ logged[id][k] = FirstNumber(id) + k - 1
          /\ logged[id][k - 1] = FirstNumber(id) + (k - 1) - 1
      BY <1>3, <2>2
    <2> QED
      BY <1>3, <2>3
  <1>5. LinesBegin
    <2>1. SUFFICES ASSUME NEW id \in Ids, logged[id] # <<>>
                   PROVE  Head(logged[id]) = FirstNumber(id)
      BY DEF LinesBegin, FirstNumber
    <2>2. 1 \in 1 .. Len(logged[id]) /\ Head(logged[id]) = logged[id][1]
      BY <1>3, <2>1
    <2>3. logged[id][1] = FirstNumber(id) + 1 - 1
      BY <1>3, <2>2
    <2> QED
      BY <1>3, <2>2, <2>3
  <1>6. RingsBounded
    BY <1>3 DEF RingsBounded
  <1> QED
    BY <1>1, <1>2, <1>4, <1>5, <1>6 DEF LogInv

\* In this benchmark all threads run.
LEMMA MaThreads ==
  bench = "maRing" =>
    /\ Threads = AllThreads /\ Turns = Iterations
    /\ bench \notin Loops /\ bench \notin Counters /\ bench \notin Walks
  BY DEF Threads, Turns, Alone, Loops, Counters, Plain, Rings, Locked, CasLoops, Atomics, Walks

\* The ring of a thread in this run.
LEMMA MineIsId ==
  ASSUME HarnessInd, NEW t \in AllThreads
  PROVE  /\ Mine(t) \in Ids /\ Mine(t)[1] = t /\ Mine(t)[2] = run
         /\ \A u \in AllThreads : Mine(u) = Mine(t) => u = t
  BY DEF HarnessInd, HarnessType, Mine, Ids

\* The statements of call_once in their order.
LEMMA OnceStepKeeps ==
  ASSUME HarnessInd, MaInd, NEW t \in Threads,
         EnterOnce(t) \/ OpenLog \/ SetCtx \/ RunBackend
  PROVE  HarnessInd' /\ MaInd'
  <1>1. UNCHANGED <<harnessVars, number, ctx, logged>>
    BY DEF EnterOnce, OpenLog, SetCtx, RunBackend
  <1>2. UNCHANGED <<bench, run, pc, left>>
    BY <1>1 DEF harnessVars
  <1>3. Threads' = Threads /\ Turns' = Turns /\ t \in AllThreads
    BY <1>2, SameBench, ThreadsAndTurns
  <1>4. HarnessInd'
    BY <1>2, <1>3 DEF HarnessInd, HarnessType, Together, LeftOf
  <1>5. MaType'
    <2>1. t \in 0 .. NumThread
      BY <1>3, HarnessAssumption DEF AllThreads
    <2> QED
      BY <1>1, <2>1 DEF MaInd, MaType, EnterOnce, OpenLog, SetCtx, RunBackend
  <1>6. OnceInv'
    <2>1. OnceInv /\ \A u \in Threads : pc'[u] \in {"fill", "move"} => bench' = "maRing"
      BY <1>2 DEF MaInd, OnceInv
    <2>2. CASE EnterOnce(t)
      BY <1>2, <1>3, <2>1, <2>2 DEF OnceInv, EnterOnce
    <2>3. CASE OpenLog
      BY <1>2, <1>3, <2>1, <2>3 DEF OnceInv, OpenLog
    <2>4. CASE SetCtx
      BY <1>2, <1>3, <2>1, <2>4 DEF OnceInv, SetCtx
    <2>5. CASE RunBackend
      BY <1>2, <1>3, <2>1, <2>5 DEF OnceInv, RunBackend
    <2> QED
      BY <2>2, <2>3, <2>4, <2>5
  <1>7. \A id \in Ids : RingOf(id)'
    <2>1. once = "over" => once' = "over"
      BY DEF EnterOnce, OpenLog, SetCtx, RunBackend
    <2> QED
      BY <1>1, <2>1 DEF MaInd, RingOf, FirstNumber
  <1>8. once # "exited" /\ once' # "exited"
    BY DEF EnterOnce, OpenLog, SetCtx, RunBackend
  <1>9. bench = "maRing" => \A u \in AllThreads : WriterOf(u)'
    <2>1. bench = "maRing" => \A u \in AllThreads : WriterOf(u)
      BY <1>8 DEF MaInd
    <2> QED
      BY <1>1, <1>2, <1>3, <2>1 DEF WriterOf, Mine, FirstNumber, Done, HasRoom
  <1> QED
    BY <1>2, <1>4, <1>5, <1>6, <1>7, <1>9 DEF MaInd

\* When the file cannot be opened, no thread has a ring yet.
LEMMA OpenLogFailsKeeps ==
  ASSUME HarnessInd, MaInd, OpenLogFails
  PROVE  HarnessInd' /\ MaInd'
  <1>1. /\ once = "open" /\ once' = "exited" /\ pc' = [u \in AllThreads |-> "done"]
        /\ UNCHANGED <<bench, run, left, caller, fp, configured, backend, number, ctx, logged>>
        /\ bench = "maRing"
    BY DEF OpenLogFails, MaInd, OnceInv
  <1>2. HarnessInd'
    BY <1>1, ExitKeepsHarness
  <1>3. Threads' = Threads /\ Threads \subseteq AllThreads
    BY <1>1, SameBench, ThreadsAndTurns
  <1>4. MaType' /\ OnceInv'
    BY <1>1, <1>3 DEF MaInd, MaType, OnceInv, AllDone
  <1>5. \A id \in Ids : RingOf(id)'
    BY <1>1 DEF MaInd, RingOf, FirstNumber
  <1> QED
    BY <1>1, <1>2, <1>4, <1>5 DEF MaInd

\* What a thread of the benchmark knows when it takes a step.
LEMMA MaFacts ==
  ASSUME HarnessInd, MaInd, NEW t \in Threads, bench = "maRing", pc[t] # "done"
  PROVE  /\ t \in AllThreads /\ Threads = AllThreads /\ Turns = Iterations
         /\ Mine(t) \in Ids /\ RingOf(Mine(t))
         /\ once # "exited" /\ \A u \in AllThreads : WriterOf(u)
  <1>1. t \in AllThreads /\ Threads = AllThreads
    BY MaThreads
  <1>2. once # "exited"
    BY <1>1 DEF MaInd, OnceInv, AllDone
  <1> QED
    BY <1>1, <1>2, MaThreads, MineIsId DEF MaInd

\* A thread goes on and leaves its ring, or ends an iteration: the others stay as they
\* are.
LEMMA OthersKeep ==
  ASSUME HarnessInd, MaInd, NEW t \in AllThreads, NEW u \in AllThreads \ {t}, WriterOf(u),
         run' = run, bench' = bench,
         pc'[u] = pc[u], left'[u] = left[u], number'[u] = number[u],
         \A id \in Ids \ {Mine(t)} : ctx'[id] = ctx[id]
  PROVE  WriterOf(u)'
  <1>1. Mine(u) \in Ids \ {Mine(t)} /\ Mine(u)' = Mine(u) /\ Mine(u) = <<u, run>>
    BY MineIsId DEF Mine
  <1>2. \A r \in run + 1 .. Runs : <<u, r>> \in Ids \ {Mine(t)}
    BY DEF HarnessInd, HarnessType, Ids, Mine
  <1>3. ctx'[Mine(u)] = ctx[Mine(u)] /\ \A r \in run + 1 .. Runs : ctx'[<<u, r>>] = ctx[<<u, r>>]
    BY <1>1, <1>2
  <1>4. Turns' = Turns
    BY SameBench
  <1> QED
    BY <1>1, <1>3, <1>4 DEF WriterOf, FirstNumber, Done, HasRoom

\* A thread makes its ring.
LEMMA InitCtxKeeps ==
  ASSUME HarnessInd, MaInd, NEW t \in Threads, InitCtx(t)
  PROVE  HarnessInd' /\ MaInd'
  <1>1. /\ bench = "maRing" /\ pc[t] = "setUp" /\ once = "over" /\ Goto(t, "start")
        /\ ctx' = [ctx EXCEPT ![Mine(t)] = NewRing]
        /\ UNCHANGED <<bench, run, left, once, caller, fp, configured, backend, number, logged>>
    BY DEF InitCtx, OnceOver
  <1>2. HarnessInd'
    BY <1>1, MoveKeepsHarness DEF OneOn
  <1>3. /\ t \in AllThreads /\ Threads = AllThreads /\ Threads' = Threads /\ Turns' = Turns
        /\ Mine(t) \in Ids /\ RingOf(Mine(t)) /\ \A u \in AllThreads : WriterOf(u)
        /\ Mine(t)[1] = t /\ Mine(t)[2] = run
    BY <1>1, MaFacts, MineIsId, SameBench
  <1>4. \A u \in AllThreads : pc'[u] = IF u = t THEN "start" ELSE pc[u]
    BY <1>1, <1>3 DEF Goto, HarnessInd, HarnessType
  <1>5. ~ctx[Mine(t)].made
    BY <1>1, <1>3 DEF WriterOf
  <1>6. ctx[Mine(t)] = NoRing /\ logged[Mine(t)] = <<>>
    BY <1>3, <1>5 DEF RingOf
  <1>7. /\ NewRing \in [made : BOOLEAN, slots : [MySlots -> Nat \cup {NoRecord}], w : Nat, r : Nat]
        /\ NewRing.made = TRUE /\ NewRing.w = 0 /\ NewRing.r = 0
    <2>1. NoRing \in [made : BOOLEAN, slots : [MySlots -> Nat \cup {NoRecord}], w : Nat, r : Nat]
      BY DEF NoRing
    <2>2. NoRing.w = 0 /\ NoRing.r = 0
      BY DEF NoRing
    <2> QED
      BY <2>1, <2>2 DEF NewRing
  <1>8. /\ ctx'[Mine(t)] = NewRing /\ NewRing.made = TRUE /\ NewRing.w = 0 /\ NewRing.r = 0
        /\ \A id \in Ids \ {Mine(t)} : ctx'[id] = ctx[id]
    BY <1>1, <1>3, <1>7, MaTypes
  <1>9. MaType'
    <2>1. ctx' \in [Ids -> [made : BOOLEAN, slots : [MySlots -> Nat \cup {NoRecord}], w : Nat, r : Nat]]
      BY <1>1, <1>3, <1>7, MaTypes
    <2> QED
      BY <1>1, <2>1 DEF MaInd, MaType
  <1>10. OnceInv'
    BY <1>1, <1>3 DEF MaInd, OnceInv
  <1>11. ASSUME NEW id \in Ids
         PROVE  RingOf(id)'
    <2>1. RingOf(id) /\ FirstNumber(id)' = FirstNumber(id) /\ logged' = logged /\ once' = once
      BY <1>1 DEF MaInd, FirstNumber
    <2>2. CASE id = Mine(t)
      <3>1. /\ ctx'[id].made = TRUE /\ ctx'[id].w = 0 /\ ctx'[id].r = 0
            /\ logged'[id] = <<>> /\ once' = "over" /\ MaCapacity \in Nat
        BY <1>1, <1>6, <1>8, <2>2, MaTypes
      <3>2. Len(logged'[id]) = 0
        BY <3>1
      <3> QED
        BY ONLY <3>1, <3>2 DEF RingOf
    <2>3. CASE id # Mine(t)
      <3>1. ctx'[id] = ctx[id]
        BY <1>8, <2>3
      <3> QED
        BY <2>1, <3>1 DEF RingOf
    <2> QED
      BY <2>2, <2>3
  <1>12. ASSUME NEW u \in AllThreads
         PROVE  WriterOf(u)'
    <2>1. CASE u # t
      BY <1>1, <1>3, <1>4, <1>8, <2>1, OthersKeep
    <2>2. CASE u = t
      <3>1. Done(t) = 0 /\ Done(t)' = 0
        <4>1. left[t] = Turns
          BY <1>1, <1>3 DEF HarnessInd, LeftOf, Before
        <4> QED
          BY <1>1, <1>3, <4>1, ThreadsAndTurns DEF Done
      <3>2. /\ number[t] = FirstNumber(Mine(t)) + 0
            /\ \A r \in run + 1 .. Runs : ~ctx[<<t, r>>].made
        BY SMTT(30), <1>1, <1>3, <3>1, MaTypes DEF WriterOf
      <3>3. \A r \in run + 1 .. Runs : ~ctx'[<<t, r>>].made
        <4>1. \A r \in run + 1 .. Runs : <<t, r>> \in Ids \ {Mine(t)}
          BY <1>3 DEF HarnessInd, HarnessType, Ids, Mine
        <4> QED
          BY <1>8, <3>2, <4>1
      <3>4. Mine(t)' = Mine(t) /\ FirstNumber(Mine(t)) \in Nat
        BY <1>1, <1>3, MaTypes DEF Mine
      <3>5. pc'[t] = "start"
        BY <1>3, <1>4
      <3> QED
        BY <1>1, <1>8, <2>2, <3>1, <3>2, <3>3, <3>4, <3>5 DEF WriterOf, FirstNumber
    <2> QED
      BY <2>1, <2>2
  <1> QED
    BY <1>2, <1>9, <1>10, <1>11, <1>12 DEF MaInd

\* A thread goes on and leaves its ring as it is.
LEMMA MaMoveKeeps ==
  ASSUME HarnessInd, MaInd, NEW t \in Threads, NEW to, bench = "maRing",
         OneOn(pc[t], to), Goto(t, to), UNCHANGED <<bench, run, left, maVars>>,
         to = "fill" => HasRoom(ctx[Mine(t)]),
         to # "move" /\ to # "setUp" /\ pc[t] # "move" /\ pc[t] # "setUp",
         to = "done" => left[t] = 0
  PROVE  HarnessInd' /\ MaInd'
  <1>1. UNCHANGED <<once, caller, fp, configured, backend, number, ctx, logged>>
    BY DEF maVars
  <1>2. HarnessInd'
    BY MoveKeepsHarness
  <1>3. /\ t \in AllThreads /\ Threads = AllThreads /\ Threads' = Threads /\ Turns' = Turns
        /\ Mine(t) \in Ids
    BY MaThreads, MineIsId, SameBench
  <1>4. \A u \in AllThreads : pc'[u] = IF u = t THEN to ELSE pc[u]
    BY <1>3 DEF Goto, HarnessInd, HarnessType
  <1>5. MaType' /\ OnceInv'
    <2>1. pc[t] # "done"
      BY DEF OneOn, Working
    <2>2. once # "exited"
      BY <2>1, MaFacts
    <2> QED
      BY <1>1, <1>3, <2>2 DEF MaInd, MaType, OnceInv
  <1>6. \A id \in Ids : RingOf(id)'
    BY <1>1 DEF MaInd, RingOf, FirstNumber
  <1>7. ASSUME once # "exited", NEW u \in AllThreads
        PROVE  WriterOf(u)'
    <2>1. WriterOf(u)
      BY <1>7 DEF MaInd
    <2>2. CASE u # t
      BY <1>1, <1>3, <1>4, <2>1, <2>2, OthersKeep
    <2>3. CASE u = t
      <3>1. /\ pc'[t] = to /\ Mine(t)' = Mine(t) /\ Done(t)' = Done(t) /\ left' = left
            /\ ctx' = ctx /\ number' = number /\ run' = run
        BY <1>1, <1>3, <1>4 DEF Mine, Done
      <3> QED
        BY <2>1, <2>3, <3>1 DEF WriterOf, FirstNumber, HasRoom
    <2> QED
      BY <2>2, <2>3
  <1> QED
    BY <1>1, <1>2, <1>5, <1>6, <1>7 DEF MaInd

\* alloc returns when there is room; cleanup leaves the ring to the backend.
LEMMA AllocCleanUpKeeps ==
  ASSUME HarnessInd, MaInd, NEW t \in Threads, Alloc(t) \/ CleanUpCtx(t)
  PROVE  HarnessInd' /\ MaInd'
  <1>1. CASE Alloc(t)
    <2>1. /\ bench = "maRing" /\ pc[t] = "work" /\ HasRoom(ctx[Mine(t)]) /\ Goto(t, "fill")
          /\ UNCHANGED <<bench, run, left, maVars>>
      BY <1>1 DEF Alloc
    <2>2. OneOn(pc[t], "fill")
      BY <2>1 DEF OneOn, Working
    <2> QED
      BY <2>1, <2>2, MaMoveKeeps
  <1>2. CASE CleanUpCtx(t)
    <2>1. /\ bench = "maRing" /\ pc[t] = "tearDown" /\ Goto(t, "done")
          /\ UNCHANGED <<bench, run, left, maVars>>
      BY <1>2 DEF CleanUpCtx
    <2>2. OneOn(pc[t], "done") /\ left[t] = 0
      BY <2>1, ThreadsAndTurns DEF OneOn, HarnessInd, LeftOf
    <2> QED
      BY <2>1, <2>2, MaMoveKeeps
  <1> QED
    BY <1>1, <1>2

\* A record is filled into a slot that the backend has read.
LEMMA FillKeeps ==
  ASSUME HarnessInd, MaInd, NEW t \in Threads, Fill(t)
  PROVE  HarnessInd' /\ MaInd'
  <1> DEFINE c == ctx[Mine(t)]
             n == number[t]
  <1>1. /\ pc[t] = "fill" /\ Goto(t, "move")
        /\ ctx' = [ctx EXCEPT ![Mine(t)].slots[c.w % MaCapacity] = n]
        /\ number' = [number EXCEPT ![t] = n + 1]
        /\ UNCHANGED <<bench, run, left, once, caller, fp, configured, backend, logged>>
        /\ bench = "maRing"
    BY DEF Fill, MaInd, OnceInv
  <1>2. HarnessInd'
    BY <1>1, MoveKeepsHarness DEF OneOn, Working
  <1>3. /\ t \in AllThreads /\ Threads = AllThreads /\ Threads' = Threads /\ Turns' = Turns
        /\ Mine(t) \in Ids /\ RingOf(Mine(t)) /\ Mine(t)' = Mine(t)
        /\ once # "exited" /\ \A u \in AllThreads : WriterOf(u)
    BY <1>1, MaFacts, MineIsId, SameBench DEF Mine
  <1>4. \A u \in AllThreads : pc'[u] = IF u = t THEN "move" ELSE pc[u]
    BY <1>1, <1>3 DEF Goto, HarnessInd, HarnessType
  <1>5. /\ c.w \in Nat /\ c.r \in Nat /\ n \in Nat /\ MaCapacity \in Nat \ {0}
        /\ c.slots \in [MySlots -> Nat \cup {NoRecord}] /\ c.made \in BOOLEAN
        /\ c.w % MaCapacity \in MySlots
    BY SMTT(30), <1>3, MaTypes DEF MySlots
  <1>6. /\ ctx'[Mine(t)] = [c EXCEPT !.slots = [c.slots EXCEPT ![c.w % MaCapacity] = n]]
        /\ \A id \in Ids \ {Mine(t)} : ctx'[id] = ctx[id]
        /\ \A u \in AllThreads : number'[u] = IF u = t THEN n + 1 ELSE number[u]
    BY <1>1, <1>3, MaTypes
  <1>7. /\ ctx'[Mine(t)].w = c.w /\ ctx'[Mine(t)].r = c.r /\ ctx'[Mine(t)].made = c.made
        /\ ctx'[Mine(t)].slots = [c.slots EXCEPT ![c.w % MaCapacity] = n]
        /\ ctx'[Mine(t)] \in [made : BOOLEAN, slots : [MySlots -> Nat \cup {NoRecord}], w : Nat, r : Nat]
    <2>1. c \in [made : BOOLEAN, slots : [MySlots -> Nat \cup {NoRecord}], w : Nat, r : Nat]
      BY <1>3, MaTypes
    <2>2. [c.slots EXCEPT ![c.w % MaCapacity] = n] \in [MySlots -> Nat \cup {NoRecord}]
      BY <1>5
    <2> HIDE DEF c
    <2> QED
      BY <1>6, <2>1, <2>2
  <1>8. MaType'
    <2>1. ctx' \in [Ids -> [made : BOOLEAN, slots : [MySlots -> Nat \cup {NoRecord}], w : Nat, r : Nat]]
      <3>1. DOMAIN ctx' = Ids /\ ctx' = [id \in Ids |-> ctx'[id]]
        BY <1>1, MaTypes
      <3>2. \A id \in Ids :
              ctx'[id] \in [made : BOOLEAN, slots : [MySlots -> Nat \cup {NoRecord}], w : Nat, r : Nat]
        BY <1>6, <1>7, MaTypes
      <3> QED
        BY <3>1, <3>2
    <2>2. number' \in [AllThreads -> Nat]
      <3>1. n + 1 \in Nat /\ number \in [AllThreads -> Nat]
        BY SMTT(30), <1>5, MaTypes
      <3> HIDE DEF n
      <3> QED
        BY <1>1, <3>1
    <2> QED
      BY <1>1, <2>1, <2>2 DEF MaInd, MaType
  <1>9. OnceInv'
    BY <1>1, <1>3 DEF MaInd, OnceInv
  <1> DEFINE first == FirstNumber(Mine(t))
  <1>10. /\ n = first + c.w /\ first \in Nat /\ c.w = Done(t) /\ c.made
         /\ c.w - c.r < MaCapacity /\ c.r <= c.w
         /\ \A k \in c.r .. c.w - 1 : c.slots[k % MaCapacity] = first + k
         /\ \A r \in run + 1 .. Runs : ~ctx[<<t, r>>].made
    <2>1. first \in Nat
      BY <1>3, MaTypes
    <2>2. WriterOf(t) /\ RingOf(Mine(t))
      BY <1>3
    <2>3. n = first + c.w + 0
      BY <1>1, <2>2 DEF WriterOf
    <2> QED
      BY <1>1, <1>5, <2>1, <2>2, <2>3 DEF WriterOf, RingOf, HasRoom
  <1>11. ASSUME NEW id \in Ids
         PROVE  RingOf(id)'
    <2>1. RingOf(id) /\ FirstNumber(id)' = FirstNumber(id) /\ logged' = logged /\ once' = once
      BY <1>1 DEF MaInd, FirstNumber
    <2>2. CASE id = Mine(t)
      <3>1. ASSUME NEW k \in c.r .. c.w - 1
            PROVE  ctx'[Mine(t)].slots[k % MaCapacity] = first + k
        <4>1. k \in Nat /\ k <= c.w /\ c.w - k < MaCapacity /\ k # c.w
          BY <1>5, <1>10
        <4>2. k % MaCapacity # c.w % MaCapacity
          BY <1>5, <4>1, RemainderUnique
        <4>3. k % MaCapacity \in MySlots
          BY <1>5, <4>1 DEF MySlots
        <4>4. c.slots[k % MaCapacity] = first + k
          BY <1>10
        <4> HIDE DEF c, n, first
        <4> QED
          BY <1>5, <1>7, <4>2, <4>3, <4>4
      <3> QED
        BY <1>7, <1>10, <2>1, <2>2, <3>1 DEF RingOf
    <2>3. CASE id # Mine(t)
      <3>1. ctx'[id] = ctx[id]
        BY <1>6, <2>3
      <3> QED
        BY <2>1, <3>1 DEF RingOf
    <2> QED
      BY <2>2, <2>3
  <1>12. ASSUME NEW u \in AllThreads
         PROVE  WriterOf(u)'
    <2>1. CASE u # t
      BY <1>1, <1>3, <1>4, <1>6, <2>1, OthersKeep
    <2>2. CASE u = t
      <3>1. \A r \in run + 1 .. Runs : ~ctx'[<<t, r>>].made
        <4>1. \A r \in run + 1 .. Runs : <<t, r>> \in Ids \ {Mine(t)}
          BY <1>3 DEF HarnessInd, HarnessType, Ids, Mine
        <4> QED
          BY <1>6, <1>10, <4>1
      <3>2. ctx'[Mine(t)].slots[c.w % MaCapacity] = first + c.w
        <4> HIDE DEF c, n, first
        <4> QED
          BY <1>5, <1>7, <1>10
      <3>3. number'[t] = first + c.w + 1 /\ pc'[t] = "move" /\ Done(t)' = Done(t)
        BY <1>1, <1>3, <1>4, <1>6, <1>10 DEF Done
      <3>4. first' = first
        BY <1>3 DEF FirstNumber
      <3> QED
        BY <1>1, <1>3, <1>7, <1>10, <2>2, <3>1, <3>2, <3>3, <3>4 DEF WriterOf, HasRoom
    <2> QED
      BY <2>1, <2>2
  <1> QED
    BY <1>2, <1>8, <1>9, <1>11, <1>12 DEF MaInd

\* A record that is filled becomes visible to the backend.
LEMMA MoveKeeps ==
  ASSUME HarnessInd, MaInd, NEW t \in Threads, Move(t)
  PROVE  HarnessInd' /\ MaInd'
  <1> DEFINE c == ctx[Mine(t)]
             first == FirstNumber(Mine(t))
  <1>1. /\ pc[t] = "move" /\ EndIteration(t)
        /\ ctx' = [ctx EXCEPT ![Mine(t)].w = c.w + 1]
        /\ UNCHANGED <<bench, run, once, caller, fp, configured, backend, number, logged>>
        /\ bench = "maRing" /\ pc[t] \in Working
    BY DEF Move, MaInd, OnceInv, Working
  <1>2. /\ HarnessInd' /\ Done(t)' = Done(t) + 1 /\ pc'[t] \in {"work", "stop", "done"}
        /\ pc'[t] = "done" => bench \in Loops
        /\ \A u \in AllThreads \ {t} : pc'[u] = pc[u]
        /\ \A u \in AllThreads \ {t} : left'[u] = left[u]
    <2>1. \A u \in AllThreads \ {t} : left'[u] = left[u]
      BY <1>1 DEF EndIteration, HarnessInd, HarnessType
    <2> QED
      BY <1>1, <2>1, EndKeepsHarness
  <1>3. /\ t \in AllThreads /\ Threads = AllThreads /\ Threads' = Threads /\ Turns' = Turns
        /\ Mine(t) \in Ids /\ RingOf(Mine(t)) /\ Mine(t)' = Mine(t)
        /\ once # "exited" /\ \A u \in AllThreads : WriterOf(u)
    BY <1>1, MaFacts, MineIsId, SameBench DEF Mine
  <1>4. pc'[t] \in {"work", "stop"}
    BY <1>1, <1>2, MaThreads
  <1>5. /\ c.w \in Nat /\ c.r \in Nat /\ MaCapacity \in Nat \ {0} /\ first \in Nat
        /\ number[t] = first + c.w + 1 /\ c.w = Done(t) /\ c.made /\ once = "over"
        /\ c.w - c.r < MaCapacity /\ c.r <= c.w
        /\ \A k \in c.r .. c.w - 1 : c.slots[k % MaCapacity] = first + k
        /\ c.slots[c.w % MaCapacity] = first + c.w
        /\ \A r \in run + 1 .. Runs : ~ctx[<<t, r>>].made
    <2>1. c.w \in Nat /\ c.r \in Nat /\ MaCapacity \in Nat \ {0} /\ first \in Nat
      BY <1>3, MaTypes
    <2>2. WriterOf(t) /\ RingOf(Mine(t))
      BY <1>3
    <2> QED
      BY <1>1, <2>1, <2>2 DEF WriterOf, RingOf, HasRoom
  <1>6. /\ ctx'[Mine(t)].w = c.w + 1 /\ ctx'[Mine(t)].r = c.r /\ ctx'[Mine(t)].made = c.made
        /\ ctx'[Mine(t)].slots = c.slots
        /\ ctx'[Mine(t)] \in [made : BOOLEAN, slots : [MySlots -> Nat \cup {NoRecord}], w : Nat, r : Nat]
        /\ \A id \in Ids \ {Mine(t)} : ctx'[id] = ctx[id]
    <2>1. /\ ctx'[Mine(t)] = [c EXCEPT !.w = c.w + 1]
          /\ \A id \in Ids \ {Mine(t)} : ctx'[id] = ctx[id]
      BY <1>1, <1>3, MaTypes
    <2>2. c \in [made : BOOLEAN, slots : [MySlots -> Nat \cup {NoRecord}], w : Nat, r : Nat]
      BY <1>3, MaTypes
    <2> HIDE DEF c
    <2> QED
      BY <2>1, <2>2
  <1>7. MaType'
    <2>1. ctx' \in [Ids -> [made : BOOLEAN, slots : [MySlots -> Nat \cup {NoRecord}], w : Nat, r : Nat]]
      <3>1. DOMAIN ctx' = Ids /\ ctx' = [id \in Ids |-> ctx'[id]]
        BY <1>1, MaTypes
      <3>2. \A id \in Ids :
              ctx'[id] \in [made : BOOLEAN, slots : [MySlots -> Nat \cup {NoRecord}], w : Nat, r : Nat]
        BY <1>6, MaTypes
      <3> QED
        BY <3>1, <3>2
    <2> QED
      BY <1>1, <2>1 DEF MaInd, MaType
  <1>8. OnceInv'
    BY <1>1, <1>3, <1>5 DEF MaInd, OnceInv
  <1>9. ASSUME NEW id \in Ids
        PROVE  RingOf(id)'
    <2>1. RingOf(id) /\ FirstNumber(id)' = FirstNumber(id) /\ logged' = logged /\ once' = once
      BY <1>1 DEF MaInd, FirstNumber
    <2>2. CASE id = Mine(t)
      <3>1. ASSUME NEW k \in c.r .. (c.w + 1) - 1
            PROVE  c.slots[k % MaCapacity] = first + k
        <4>1. k = c.w \/ k \in c.r .. c.w - 1
          BY <1>5
        <4> QED
          BY <1>5, <4>1
      <3>2. c.r <= c.w + 1 /\ c.w + 1 <= c.r + MaCapacity
        BY <1>5
      <3>3. /\ c.made /\ once = "over" /\ Len(logged[id]) = c.r
            /\ \A k \in 1 .. c.r : logged[id][k] = first + k - 1
            /\ FirstNumber(id) = first
        BY <1>5, <2>1, <2>2 DEF RingOf
      <3>4. /\ ctx'[id].made = c.made /\ ctx'[id].slots = c.slots
            /\ ctx'[id].w = c.w + 1 /\ ctx'[id].r = c.r
        BY <1>6, <2>2
      <3> HIDE DEF c, first
      <3> QED
        BY ONLY <2>1, <3>1, <3>2, <3>3, <3>4 DEF RingOf
    <2>3. CASE id # Mine(t)
      <3>1. ctx'[id] = ctx[id]
        BY <1>6, <2>3
      <3> QED
        BY <2>1, <3>1 DEF RingOf
    <2> QED
      BY <2>2, <2>3
  <1>10. ASSUME NEW u \in AllThreads
         PROVE  WriterOf(u)'
    <2>1. CASE u # t
      BY <1>1, <1>2, <1>3, <1>6, <2>1, OthersKeep
    <2>2. CASE u = t
      <3>1. \A r \in run + 1 .. Runs : ~ctx'[<<t, r>>].made
        <4>1. \A r \in run + 1 .. Runs : <<t, r>> \in Ids \ {Mine(t)}
          BY <1>3 DEF HarnessInd, HarnessType, Ids, Mine
        <4> QED
          BY <1>5, <1>6, <4>1
      <3>2. number'[t] = first + (c.w + 1) + 0 /\ Done(t)' = c.w + 1
        BY <1>1, <1>2, <1>5
      <3>3. first' = first
        BY <1>3 DEF FirstNumber
      <3> QED
        BY <1>1, <1>3, <1>4, <1>5, <1>6, <2>2, <3>1, <3>2, <3>3 DEF WriterOf
    <2> QED
      BY <2>1, <2>2
  <1> QED
    BY <1>2, <1>7, <1>8, <1>9, <1>10 DEF MaInd

\* The backend takes the oldest record of a ring.
LEMMA WriteRecordKeeps ==
  ASSUME HarnessInd, MaInd, NEW id \in Ids, WriteRecord(id)
  PROVE  HarnessInd' /\ MaInd'
  <1> DEFINE c == ctx[id]
             first == FirstNumber(id)
             record == c.slots[c.r % MaCapacity]
  <1>1. /\ once # "exited" /\ c.r < c.w
        /\ logged' = [logged EXCEPT ![id] = Append(logged[id], record)]
        /\ ctx' = [ctx EXCEPT ![id].r = c.r + 1]
        /\ UNCHANGED <<bench, run, pc, left, once, caller, fp, configured, backend, number>>
    BY DEF WriteRecord, harnessVars
  <1>2. Threads' = Threads /\ Turns' = Turns
    BY <1>1, SameBench
  <1>3. HarnessInd'
    BY <1>1, <1>2 DEF HarnessInd, HarnessType, Together, LeftOf
  <1>4. /\ c.w \in Nat /\ c.r \in Nat /\ MaCapacity \in Nat \ {0} /\ first \in Nat
        /\ c.slots \in [MySlots -> Nat \cup {NoRecord}] /\ c.made \in BOOLEAN
        /\ logged[id] \in Seq(Nat \cup {NoRecord})
    BY MaTypes
  <1>5. /\ c.w <= c.r + MaCapacity /\ Len(logged[id]) = c.r
        /\ \A k \in 1 .. c.r : logged[id][k] = first + k - 1
        /\ \A k \in c.r .. c.w - 1 : c.slots[k % MaCapacity] = first + k
        /\ (~c.made => c = NoRing) /\ (c.made => once = "over")
    BY DEF MaInd, RingOf
  <1>6. c.made
    <2>1. NoRing.r = 0 /\ NoRing.w = 0
      BY DEF NoRing
    <2>2. c = NoRing => c.r = 0 /\ c.w = 0
      BY <2>1
    <2> QED
      BY <1>1, <1>5, <2>2
  <1>7. record = first + c.r /\ record \in Nat
    <2>1. c.r \in c.r .. c.w - 1
      BY <1>1, <1>4
    <2>2. record = first + c.r
      BY <1>5, <2>1
    <2> QED
      BY <1>4, <2>2
  <1>8. /\ ctx'[id].w = c.w /\ ctx'[id].r = c.r + 1 /\ ctx'[id].made = c.made
        /\ ctx'[id].slots = c.slots
        /\ ctx'[id] \in [made : BOOLEAN, slots : [MySlots -> Nat \cup {NoRecord}], w : Nat, r : Nat]
        /\ \A i \in Ids \ {id} : ctx'[i] = ctx[i]
    <2>1. /\ ctx'[id] = [c EXCEPT !.r = c.r + 1]
          /\ \A i \in Ids \ {id} : ctx'[i] = ctx[i]
      BY <1>1, MaTypes
    <2>2. c \in [made : BOOLEAN, slots : [MySlots -> Nat \cup {NoRecord}], w : Nat, r : Nat]
      BY MaTypes
    <2> HIDE DEF c
    <2> QED
      BY <2>1, <2>2
  <1>9. /\ logged'[id] = Append(logged[id], record)
        /\ \A i \in Ids \ {id} : logged'[i] = logged[i]
    <2> HIDE DEF record
    <2> QED
      BY <1>1, MaTypes
  <1>10. /\ logged'[id] \in Seq(Nat \cup {NoRecord})
         /\ Len(logged'[id]) = c.r + 1
         /\ \A k \in 1 .. c.r + 1 : logged'[id][k] = first + k - 1
    <2>1. Append(logged[id], record) \in Seq(Nat \cup {NoRecord})
      BY <1>4, <1>7
    <2>2. Len(Append(logged[id], record)) = c.r + 1
      BY <1>4, <1>5, <1>7
    <2>3. ASSUME NEW k \in 1 .. c.r + 1
          PROVE  Append(logged[id], record)[k] = first + k - 1
      <3>1. CASE k = c.r + 1
        <4>1. Append(logged[id], record)[k] = record
          <5> HIDE DEF record, c
          <5> QED
            BY <1>4, <1>5, <3>1
        <4>2. first + (c.r + 1) - 1 = first + c.r
          BY <1>4
        <4> QED
          BY <1>7, <3>1, <4>1, <4>2
      <3>2. CASE k # c.r + 1
        <4>1. k \in 1 .. c.r
          BY <1>4, <3>2
        <4>2. Append(logged[id], record)[k] = logged[id][k]
          <5> HIDE DEF record, c
          <5> QED
            BY <1>4, <1>5, <4>1
        <4> QED
          BY <1>5, <4>1, <4>2
      <3> QED
        BY <3>1, <3>2
    <2> QED
      BY <1>9, <2>1, <2>2, <2>3
  <1>11. MaType'
    <2>1. ctx' \in [Ids -> [made : BOOLEAN, slots : [MySlots -> Nat \cup {NoRecord}], w : Nat, r : Nat]]
      <3>1. DOMAIN ctx' = Ids /\ ctx' = [i \in Ids |-> ctx'[i]]
        BY <1>1, MaTypes
      <3>2. \A i \in Ids :
              ctx'[i] \in [made : BOOLEAN, slots : [MySlots -> Nat \cup {NoRecord}], w : Nat, r : Nat]
        BY <1>8, MaTypes
      <3> QED
        BY <3>1, <3>2
    <2>2. logged' \in [Ids -> Seq(Nat \cup {NoRecord})]
      <3>1. DOMAIN logged' = Ids /\ logged' = [i \in Ids |-> logged'[i]]
        BY <1>1, MaTypes
      <3>2. \A i \in Ids : logged'[i] \in Seq(Nat \cup {NoRecord})
        BY <1>9, <1>10, MaTypes
      <3> QED
        BY <3>1, <3>2
    <2> QED
      BY <1>1, <2>1, <2>2 DEF MaInd, MaType
  <1>12. OnceInv'
    BY <1>1, <1>2 DEF MaInd, OnceInv, AllDone
  <1>13. ASSUME NEW i \in Ids
         PROVE  RingOf(i)'
    <2>1. RingOf(i) /\ FirstNumber(i)' = FirstNumber(i) /\ once' = once
      BY <1>1 DEF MaInd, FirstNumber
    <2>2. CASE i = id
      <3>1. \A k \in c.r + 1 .. c.w - 1 : c.slots[k % MaCapacity] = first + k
        <4>1. \A k \in c.r + 1 .. c.w - 1 : k \in c.r .. c.w - 1
          BY <1>4
        <4> QED
          BY <1>5, <4>1
      <3>2. c.r + 1 <= c.w /\ c.w <= (c.r + 1) + MaCapacity
        BY SMTT(30), <1>1, <1>4, <1>5
      <3>3. /\ c.made /\ once = "over" /\ FirstNumber(i) = first
            /\ Len(logged'[i]) = c.r + 1
            /\ \A k \in 1 .. c.r + 1 : logged'[i][k] = first + k - 1
        BY SMTT(30), <1>1, <1>4, <1>5, <1>6, <1>10, <2>1, <2>2 DEF RingOf
      <3>4. /\ ctx'[i].made = c.made /\ ctx'[i].slots = c.slots
            /\ ctx'[i].w = c.w /\ ctx'[i].r = c.r + 1
        BY <1>8, <2>2
      <3> HIDE DEF c, first
      <3> QED
        BY ONLY <2>1, <3>1, <3>2, <3>3, <3>4 DEF RingOf
    <2>3. CASE i # id
      <3>1. ctx'[i] = ctx[i] /\ logged'[i] = logged[i]
        BY <1>8, <1>9, <2>3
      <3> QED
        BY <2>1, <3>1 DEF RingOf
    <2> QED
      BY <2>2, <2>3
  <1>14. ASSUME bench = "maRing", NEW u \in AllThreads
         PROVE  WriterOf(u)'
    <2>1. WriterOf(u) /\ Mine(u) \in Ids /\ Mine(u)' = Mine(u) /\ Done(u)' = Done(u)
          /\ FirstNumber(Mine(u))' = FirstNumber(Mine(u))
      BY <1>1, <1>2, <1>14, MineIsId DEF MaInd, Mine, Done, FirstNumber
    <2>2. \A i \in Ids : /\ ctx'[i].made = ctx[i].made /\ ctx'[i].w = ctx[i].w
                         /\ ctx'[i].slots = ctx[i].slots
                         /\ HasRoom(ctx[i]) => HasRoom(ctx'[i])
      <3>1. HasRoom(c) => HasRoom(ctx'[id])
        BY <1>4, <1>8 DEF HasRoom
      <3> QED
        BY <1>8, <3>1
    <2>3. \A r \in run + 1 .. Runs : <<u, r>> \in Ids
      BY DEF HarnessInd, HarnessType, Ids
    <2> QED
      BY <1>1, <2>1, <2>2, <2>3 DEF WriterOf
  <1> QED
    BY <1>1, <1>3, <1>11, <1>12, <1>13, <1>14 DEF MaInd

--------------------------------------------------------------------------------
(* A step that changes nothing that an invariant is about.                     *)

\* Each part of the inductive invariant depends on its own variables and the harness.
LEMMA UnchangedKeeps ==
  ASSUME UNCHANGED <<bench, run, pc, left>>
  PROVE  /\ HarnessInd => HarnessInd'
         /\ CounterInd /\ UNCHANGED counterVars => CounterInd'
         /\ ArrayInd /\ UNCHANGED arrayVars => ArrayInd'
         /\ MaInd /\ UNCHANGED maVars => MaInd'
  <1>1. /\ Threads' = Threads /\ Turns' = Turns /\ Entries' = Entries
        /\ bench' = bench /\ run' = run /\ pc' = pc /\ left' = left
    BY SameBench
  <1>2. HarnessInd => HarnessInd'
    BY <1>1 DEF HarnessInd, HarnessType, Together, LeftOf
  <1>3. ASSUME CounterInd, UNCHANGED counterVars
        PROVE  CounterInd'
    <2>1. UNCHANGED <<lock, alive, counter, reg, own, mine, ring>>
      BY <1>3 DEF counterVars
    <2>2. \A t \in Threads : Done(t)' = Done(t) /\ Counted(t)' = Counted(t)
      BY <1>1 DEF Done, Counted
    <2>3. Added' = Added /\ Started' = Started
      BY <1>1, <2>2, AddedSame DEF Started
    <2>4. CounterType' /\ OneInside' /\ MutexAlive' /\ PublishedWritten'
      BY <1>1, <1>3, <2>1, <2>3
      DEF CounterInd, LockInv, CounterType, OneInside, Inside, MutexAlive, PublishedWritten
    <2>5. NothingLost' /\ StoresCounted'
      BY <1>1, <1>3, <2>1, <2>2, <2>3 DEF CounterInd, NothingLost, StoresCounted
    <2>6. CounterPlaces' /\ FreshCounter' /\ CounterInHand'
      BY <1>1, <1>3, <2>1 DEF CounterInd, CounterPlaces, FreshCounter, CounterInHand
    <2> QED
      BY <2>4, <2>5, <2>6 DEF CounterInd, LockInv
  <1>4. ASSUME ArrayInd, UNCHANGED arrayVars
        PROVE  ArrayInd'
    <2>1. UNCHANGED <<idx, held, visits, clock, origin, times>> /\ Done(1)' = Done(1)
      BY <1>1, <1>4 DEF arrayVars, Done
    <2>2. NextStr' = NextStr /\ \A e \in Entries : Usable(e)' = Usable(e)
      BY <1>1, <2>1 DEF NextStr, Usable
    <2> QED
      BY <1>1, <1>4, <2>1, <2>2
      DEF ArrayInd, ArrayType, HeldInRun, ElapsedWalk, LogWalk, Usable, LogPlace, StrWalk, StrPlace
  <1>5. ASSUME MaInd, UNCHANGED maVars
        PROVE  MaInd'
    <2>1. UNCHANGED <<once, caller, fp, configured, backend, number, ctx, logged>>
      BY <1>5 DEF maVars
    <2>2. MaType' /\ OnceInv'
      BY <1>1, <1>5, <2>1 DEF MaInd, MaType, OnceInv, AllDone
    <2>3. \A id \in Ids : RingOf(id)'
      BY <1>5, <2>1 DEF MaInd, RingOf, FirstNumber
    <2>4. \A t \in AllThreads : WriterOf(t) => WriterOf(t)'
      BY <1>1, <2>1 DEF WriterOf, Mine, FirstNumber, Done
    <2> QED
      BY <1>1, <1>5, <2>1, <2>2, <2>3, <2>4 DEF MaInd
  <1> QED
    BY <1>2, <1>3, <1>4, <1>5

\* All steps of the benchmark but those of the backend.
LEMMA MaStepKeeps ==
  ASSUME HarnessInd, MaInd, NEW t \in Threads, MaStep(t)
  PROVE  HarnessInd' /\ MaInd' /\ bench = "maRing" /\ bench' = bench /\ run' = run
  <1>1. HarnessInd' /\ MaInd'
    BY InitCtxKeeps, AllocCleanUpKeeps, FillKeeps, MoveKeeps, OnceStepKeeps, OpenLogFailsKeeps
    DEF MaStep
  <1>2. bench = "maRing"
    BY DEF MaInd, OnceInv, MaStep, EnterOnce, InitCtx, Alloc, Fill, Move, CleanUpCtx, OpenLog,
           OpenLogFails, SetCtx, RunBackend
  <1>3. bench' = bench /\ run' = run
    BY DEF MaStep, EnterOnce, InitCtx, Alloc, Fill, Move, CleanUpCtx, OpenLog,
           OpenLogFails, SetCtx, RunBackend, harnessVars
  <1> QED
    BY <1>1, <1>2, <1>3

\* The barriers leave the rings as they are.
LEMMA MaAtBarrier ==
  ASSUME HarnessInd, MaInd, Barrier, UNCHANGED maVars
  PROVE  MaInd'
  <1>1. /\ bench' = bench /\ run' = run /\ left' = left /\ Threads' = Threads /\ Turns' = Turns
        /\ 1 \in Threads
    BY SameBench, ThreadsAndTurns DEF Barrier
  <1>2. UNCHANGED <<once, caller, fp, configured, backend, number, ctx, logged>>
    BY DEF maVars
  <1>3. \A t \in Threads : /\ pc[t] \in {"start", "stop"} /\ pc'[t] \in {"work", "tearDown"}
                           /\ pc[t] \notin {"fill", "move", "done", "setUp"}
                           /\ pc'[t] \notin {"fill", "move", "done", "setUp"}
    BY MeetKeepsHarness
  <1>4. MaType'
    BY <1>2 DEF MaInd, MaType
  <1>5. OnceInv'
    <2>1. once # "exited"
      BY <1>1, <1>3, ThreadsAndTurns DEF MaInd, OnceInv, AllDone
    <2> QED
      BY <1>1, <1>2, <1>3, <2>1 DEF MaInd, OnceInv
  <1>6. \A id \in Ids : RingOf(id)'
    BY <1>2 DEF MaInd, RingOf, FirstNumber
  <1>7. ASSUME bench = "maRing", once # "exited", NEW t \in AllThreads
        PROVE  WriterOf(t)'
    <2>1. WriterOf(t) /\ t \in Threads
      BY <1>7, MaThreads DEF MaInd
    <2> QED
      BY <1>1, <1>2, <1>3, <2>1 DEF WriterOf, Mine, FirstNumber, Done
  <1> QED
    BY <1>1, <1>2, <1>4, <1>5, <1>6, <1>7 DEF MaInd

\* In a new run each thread makes a new ring, and only the main thread counts on.
LEMMA MaNextRunKeeps ==
  ASSUME HarnessInd, MaInd, NextRun, MaNextRun, once # "exited"
  PROVE  MaInd'
  <1>1. /\ bench' = bench /\ run' = run + 1 /\ run \in 1 .. Runs /\ run < Runs
        /\ Threads' = Threads /\ Turns' = Turns /\ Runs \in Nat
        /\ UNCHANGED <<once, caller, fp, configured, backend, ctx, logged>>
        /\ number' = [t \in AllThreads |-> IF t = 1 THEN number[t] ELSE 0]
    BY SameBench, HarnessAssumption DEF NextRun, MaNextRun, HarnessInd, HarnessType
  <1>2. \A t \in Threads : pc'[t] = "setUp" /\ Done(t)' = 0
    BY NextRunKeepsHarness
  <1>3. MaType'
    <2>1. number' \in [AllThreads -> Nat]
      BY <1>1, MaTypes
    <2> QED
      BY <1>1, <2>1 DEF MaInd, MaType
  <1>4. OnceInv'
    BY <1>1, <1>2 DEF MaInd, OnceInv
  <1>5. \A id \in Ids : RingOf(id)'
    BY <1>1 DEF MaInd, RingOf, FirstNumber
  <1>6. ASSUME bench = "maRing", NEW t \in AllThreads
        PROVE  WriterOf(t)'
    <2> DEFINE id == <<t, run + 1>>
    <2>1. WriterOf(t) /\ t \in Threads /\ Turns = Iterations /\ pc[t] = "done"
      BY <1>6, MaThreads DEF MaInd, NextRun, AllDone
    <2>2. run + 1 \in run + 1 .. Runs /\ id \in Ids
      BY <1>1 DEF Ids
    <2>3. ~ctx[id].made
      BY <2>1, <2>2 DEF WriterOf
    <2>4. ctx[id] = NoRing
      BY <2>2, <2>3 DEF MaInd, RingOf
    <2>5. ctx[id].w = 0 /\ ~ctx[id].made
      BY <2>3, <2>4 DEF NoRing
    <2>6. pc'[t] = "setUp" /\ Done(t)' = 0 /\ Mine(t)' = id /\ ctx' = ctx
      BY <1>1, <1>2, <2>1 DEF Mine
    <2>7. \A r \in run + 2 .. Runs : ~ctx[<<t, r>>].made
      <3>1. \A r \in run + 2 .. Runs : r \in run + 1 .. Runs
        BY <1>1
      <3> QED
        BY <2>1, <3>1 DEF WriterOf
    <2>8. number'[t] = FirstNumber(id)
      <3>1. CASE t # 1
        BY <1>1, <3>1 DEF FirstNumber
      <3>2. CASE t = 1
        <4>1. number'[t] = number[t]
          BY <1>1, <3>2
        <4>2. left[t] = 0
          BY <2>1 DEF WriterOf
        <4>3. Done(t) = Iterations
          BY <2>1, <4>2, HarnessAssumption DEF Done
        <4>4. number[t] = FirstNumber(Mine(t)) + Iterations + 0
          BY <2>1, <4>3 DEF WriterOf
        <4>5. FirstNumber(Mine(t)) = (run - 1) * Iterations
          BY <3>2 DEF FirstNumber, Mine
        <4>6. FirstNumber(id) = ((run + 1) - 1) * Iterations
          BY <3>2 DEF FirstNumber
        <4>7. \A n \in Nat : (n - 1) * Iterations + Iterations + 0 = ((n + 1) - 1) * Iterations
          BY HarnessAssumption
        <4>8. run \in Nat
          BY <1>1
        <4> QED
          BY <4>1, <4>4, <4>5, <4>6, <4>7, <4>8
      <3> QED
        BY <3>1, <3>2
    <2>9. number'[t] \in Nat
      BY <1>3 DEF MaType
    <2>10. FirstNumber(Mine(t))' = FirstNumber(id)
      <3>1. FirstNumber(Mine(t))' = IF t = 1 THEN (run' - 1) * Iterations ELSE 0
        BY DEF FirstNumber, Mine
      <3>2. FirstNumber(id) = IF t = 1 THEN ((run + 1) - 1) * Iterations ELSE 0
        BY DEF FirstNumber
      <3> QED
        BY <1>1, <3>1, <3>2
    <2>11. number'[t] = FirstNumber(id) + 0 + 0
      BY <2>8, <2>9
    <2>12. \A r \in run' + 1 .. Runs : ~ctx'[<<t, r>>].made
      <3>1. run' + 1 = run + 2
        BY <1>1
      <3> QED
        BY <2>6, <2>7, <3>1
    <2> HIDE DEF id
    <2> QED
      BY <2>5, <2>6, <2>10, <2>11, <2>12 DEF WriterOf
  <1> QED
    BY <1>1, <1>3, <1>4, <1>5, <1>6 DEF MaInd

\* The first states.
LEMMA MaIndInit ==
  ASSUME HarnessInit, MaInit
  PROVE  MaInd
  <1>1. /\ NoRing \in [made : BOOLEAN, slots : [MySlots -> Nat \cup {NoRecord}], w : Nat, r : Nat]
        /\ ~NoRing.made /\ NoRing.w = 0 /\ NoRing.r = 0
    BY DEF NoRing
  <1>2. \A id \in Ids : ctx[id] = NoRing /\ logged[id] = <<>>
    BY DEF MaInit
  <1>3. MaType
    <2>1. /\ once \in {"first", "open", "set", "run", "over", "exited"}
          /\ fp \in BOOLEAN /\ configured \in BOOLEAN /\ backend \in BOOLEAN
          /\ number \in [AllThreads -> Nat]
      BY DEF MaInit
    <2>2. caller \in 0 .. NumThread
      BY HarnessAssumption DEF MaInit
    <2>3. ctx \in [Ids -> [made : BOOLEAN, slots : [MySlots -> Nat \cup {NoRecord}], w : Nat, r : Nat]]
      <3>1. ctx = [id \in Ids |-> NoRing]
        BY DEF MaInit
      <3> QED
        BY ONLY <1>1, <3>1
    <2>4. logged \in [Ids -> Seq(Nat \cup {NoRecord})]
      <3>1. logged = [id \in Ids |-> <<>>]
        BY DEF MaInit
      <3>2. <<>> \in Seq(Nat \cup {NoRecord})
        OBVIOUS
      <3> QED
        BY ONLY <3>1, <3>2
    <2> QED
      BY <2>1, <2>2, <2>3, <2>4 DEF MaType
  <1>4. OnceInv
    BY ThreadsAndTurns DEF MaInit, OnceInv, HarnessInit, AtStart
  <1>5. \A id \in Ids : RingOf(id)
    BY <1>1, <1>2, MaAssumption DEF RingOf
  <1>6. ASSUME bench = "maRing", NEW t \in AllThreads
        PROVE  WriterOf(t)
    <2>1. /\ t \in Threads /\ pc[t] = "setUp" /\ left[t] = Turns /\ run = 1
          /\ Turns \in Nat /\ Runs \in Nat /\ Runs >= 1
      BY <1>6, MaThreads, ThreadsAndTurns, HarnessAssumption DEF HarnessInit, AtStart
    <2>2. Mine(t) \in Ids /\ \A r \in run + 1 .. Runs : <<t, r>> \in Ids
      BY <2>1 DEF Mine, Ids
    <2>3. FirstNumber(Mine(t)) = 0
      BY <2>1, HarnessAssumption DEF FirstNumber, Mine
    <2>4. number[t] = 0 /\ Done(t) = 0
      BY <2>1 DEF MaInit, Done
    <2>5. /\ \A r \in run + 1 .. Runs : ~ctx[<<t, r>>].made
          /\ ~ctx[Mine(t)].made /\ ctx[Mine(t)].w = 0
      BY <1>1, <1>2, <2>2
    <2> QED
      BY <2>1, <2>3, <2>4, <2>5 DEF WriterOf
  <1> QED
    BY <1>3, <1>4, <1>5, <1>6 DEF MaInd

--------------------------------------------------------------------------------
(* All of them together.                                                       *)

\* The first states satisfy the inductive invariant.
LEMMA MicroIndInit == Init => MicroInd
  BY HarnessCounterInit, ArrayIndInit, MaIndInit DEF Init, MicroInd

\* A step of one benchmark keeps its part of the inductive invariant and leaves the
\* rest as it is.
LEMMA ThreadKeeps ==
  ASSUME MicroInd, NEW t \in Threads, Thread(t)
  PROVE  MicroInd'
  <1>1. HarnessInd /\ CounterInd /\ ArrayInd /\ MaInd
    BY DEF MicroInd
  <1>2. CASE CounterStep(t) /\ UNCHANGED <<arrayVars, maVars>>
    <2>1. HarnessInd' /\ CounterInd' /\ bench \in Counters /\ bench' = bench /\ run' = run
      BY <1>1, <1>2, CounterStepKeeps, CounterBench
    <2>2. bench \notin Walks /\ bench # "maRing"
      BY <2>1, WalkFacts, MaThreads
    <2>3. ArrayInd'
      BY <1>1, <1>2, <2>1, <2>2, ArrayIdle
    <2>4. \A u \in Threads : pc'[u] \notin {"fill", "move"}
      <3>1. Threads' = Threads
        BY <2>1, SameBench
      <3>2. \A u \in Threads : pc[u] \notin {"fill", "move"} /\ u \in AllThreads
        BY <1>1, <2>2, ThreadsAndTurns DEF MaInd, OnceInv
      <3>3. /\ pc'[t] \notin {"fill", "move"}
            /\ \A u \in Threads \ {t} : pc'[u] = pc[u]
        BY <1>1, <1>2, <3>2
        DEF CounterStep, SetUpCounter, Lock, WriteSlot, LoadCounter, StoreCounter, Unlock,
            CompareExchange, Store, FetchAdd, TearDownCounter, EndIteration, Goto,
            HarnessInd, HarnessType
      <3> QED
        BY <3>2, <3>3
    <2>5. MaInd'
      <3>1. number \in [AllThreads -> Nat]
        BY <1>1, MaTypes
      <3>2. UNCHANGED <<once, caller, fp, configured, backend, number, ctx, logged>>
        BY <1>2 DEF maVars
      <3> QED
        BY <1>1, <2>1, <2>2, <2>4, <3>1, <3>2, MaIdle
    <2> QED
      BY <2>1, <2>3, <2>5 DEF MicroInd
  <1>3. CASE ArrayStep(t) /\ UNCHANGED <<counterVars, maVars>>
    <2>1. HarnessInd' /\ ArrayInd' /\ bench \in Walks /\ bench' = bench /\ run' = run
      BY <1>1, <1>3, ArrayStepKeeps
    <2>2. bench \notin Counters /\ bench # "maRing" /\ Threads = {1} /\ t = 1
      BY <2>1, WalkFacts
    <2>3. pc'[1] \notin CounterPlace \cup {"fill", "move"}
      <3>1. 1 \in AllThreads
        BY ThreadsAndTurns
      <3> QED
        BY <1>1, <1>3, <2>2, <3>1
        DEF ArrayStep, SetUpArray, MeasureElapsed, WriteMsg, CopyStr, TearDownArray, EndIteration,
            Goto, HarnessInd, HarnessType, CounterPlace
    <2>4. CounterInd'
      BY <1>1, <1>3, <2>1, <2>2, <2>3, CounterIdle
    <2>5. MaInd'
      <3>1. number \in [AllThreads -> Nat]
        BY <1>1, MaTypes
      <3>2. UNCHANGED <<once, caller, fp, configured, backend, number, ctx, logged>>
        BY <1>3 DEF maVars
      <3> QED
        BY <1>1, <2>1, <2>2, <2>3, <3>1, <3>2, MaIdle
    <2> QED
      BY <2>1, <2>4, <2>5 DEF MicroInd
  <1>4. CASE MaStep(t) /\ UNCHANGED <<counterVars, arrayVars>>
    <2>1. HarnessInd' /\ MaInd' /\ bench = "maRing" /\ bench' = bench /\ run' = run
      BY <1>1, <1>4, MaStepKeeps
    <2>2. bench \notin Counters /\ bench \notin Walks /\ Threads = AllThreads
      BY <2>1, MaThreads
    <2>3. ArrayInd'
      BY <1>1, <1>4, <2>1, <2>2, ArrayIdle
    <2>4. \A u \in Threads : pc'[u] \notin CounterPlace
      <3>1. \A u \in Threads : pc[u] \notin CounterPlace
        BY <1>1, <2>2 DEF CounterInd, CounterPlaces, CounterPlace, Counters, Plain
      <3>2. \A u \in AllThreads : pc'[u] = pc[u] \/ pc'[u] \notin CounterPlace
        BY <1>1, <1>4, <2>2
        DEF MaStep, EnterOnce, InitCtx, Alloc, Fill, Move, CleanUpCtx, OpenLog, OpenLogFails,
            SetCtx, RunBackend, harnessVars, EndIteration, Goto, HarnessInd, HarnessType, CounterPlace
      <3> QED
        BY <2>2, <3>1, <3>2
    <2>5. CounterInd'
      BY <1>1, <1>4, <2>1, <2>2, <2>4, CounterIdle
    <2> QED
      BY <2>1, <2>3, <2>5 DEF MicroInd
  <1> QED
    BY <1>2, <1>3, <1>4 DEF Thread

\* Every step keeps the inductive invariant.
LEMMA MicroIndNext == MicroInd /\ [Next]_vars => MicroInd'
  <1> SUFFICES ASSUME MicroInd, [Next]_vars
               PROVE  MicroInd'
    OBVIOUS
  <1>1. HarnessInd /\ CounterInd /\ ArrayInd /\ MaInd
    BY DEF MicroInd
  <1>2. CASE \E t \in Threads : Thread(t)
    BY <1>2, ThreadKeeps
  <1>3. CASE Meeting
    <2>1. Barrier /\ UNCHANGED counterVars /\ UNCHANGED arrayVars /\ UNCHANGED maVars
      BY <1>3 DEF Meeting
    <2> QED
      BY <1>1, <2>1, MeetKeepsHarness, CounterAtBarrier, ArrayAtBarrier, MaAtBarrier DEF MicroInd
  <1>4. CASE RunAgain
    <2>1. once # "exited" /\ NextRun /\ CounterNextRun /\ ArrayNextRun /\ MaNextRun
      BY <1>4 DEF RunAgain
    <2> QED
      BY <1>1, <2>1, NextRunKeepsHarness, CounterNextRunKeeps, ArrayNextRunKeeps, MaNextRunKeeps
      DEF MicroInd
  <1>5. CASE Reader
    <2>1. PICK id \in Ids : WriteRecord(id)
      BY <1>5 DEF Reader, Backend
    <2>2. UNCHANGED <<bench, run, pc, left>> /\ UNCHANGED counterVars /\ UNCHANGED arrayVars
      BY <1>5, <2>1 DEF Reader, WriteRecord, harnessVars
    <2>3. HarnessInd' /\ MaInd'
      BY <1>1, <2>1, WriteRecordKeeps
    <2>4. CounterInd' /\ ArrayInd'
      BY <1>1, <2>2, UnchangedKeeps
    <2> QED
      BY <2>3, <2>4 DEF MicroInd
  <1>6. CASE UNCHANGED vars
    <2>1. /\ UNCHANGED <<bench, run, pc, left>> /\ UNCHANGED counterVars /\ UNCHANGED arrayVars
          /\ UNCHANGED maVars
      BY <1>6 DEF vars, harnessVars
    <2> QED
      BY <1>1, <2>1, UnchangedKeeps DEF MicroInd
  <1> QED
    BY <1>2, <1>3, <1>4, <1>5, <1>6 DEF Next, Stopped

\* What the mutex and the lock guard is as LockInv says, in all benchmarks.
THEOREM LockSafe == Spec => []LockInv
  <1>1. MicroInd => LockInv
    BY DEF MicroInd, CounterInd
  <1> QED
    BY <1>1, MicroIndInit, MicroIndNext, PTL DEF Spec

\* No addition to a counter is lost, in all benchmarks, for every number of threads.
THEOREM CounterExact == Spec => []NothingLost
  <1>1. MicroInd => NothingLost
    BY DEF MicroInd, CounterInd
  <1> QED
    BY <1>1, MicroIndInit, MicroIndNext, PTL DEF Spec

\* No walk leaves its array, for every size.
THEOREM WalkSafe == Spec => []ArrayInv
  <1>1. MicroInd => ArrayInv
    BY ArrayIndImpliesInv DEF MicroInd
  <1> QED
    BY <1>1, MicroIndInit, MicroIndNext, PTL DEF Spec

\* The lines of the file are those that the threads wrote, in their order.
THEOREM LogExact == Spec => []LogInv
  <1>1. MicroInd => LogInv
    BY MaIndImpliesInv DEF MicroInd
  <1> QED
    BY <1>1, MicroIndInit, MicroIndNext, PTL DEF Spec

--------------------------------------------------------------------------------
(* The lock-free writers of TicketRing.                                        *)

USE TicketAssumption

--------------------------------------------------------------------------------
(* The tickets between cursor and next are fewer than the counters can tell    *)
(* apart.                                                                      *)

\* The tickets that threads hold are no more than the threads.
LEMMA HeldTickets ==
  ASSUME TicketType
  PROVE  LET H == {pos[t] : t \in AllThreads}
         IN  IsFiniteSet(H) /\ Cardinality(H) <= NumThread
  <1> DEFINE H == {pos[t] : t \in AllThreads}
  <1>1. IsFiniteSet(AllThreads) /\ Cardinality(AllThreads) = NumThread
    BY FS_Interval DEF AllThreads
  <1>2. pos \in Surjection(AllThreads, H)
    <2>1. pos \in [AllThreads -> H]
      BY DEF TicketType
    <2>2. \A h \in H : \E t \in AllThreads : pos[t] = h
      OBVIOUS
    <2> QED
      BY <2>1, <2>2 DEF Surjection
  <1> HIDE DEF H
  <1>3. IsFiniteSet(H) /\ Cardinality(H) <= Cardinality(AllThreads)
    BY <1>1, <1>2, FS_Surjection
  <1> QED
    BY <1>1, <1>3 DEF H

\* A run of tickets that are all held is no longer than there are threads.
LEMMA RunBound ==
  ASSUME TicketType, NEW a \in Nat, NEW b \in Nat,
         \A k \in a .. b : \E t \in AllThreads : pos[t] = k
  PROVE  b - a < NumThread \/ b < a
  <1> DEFINE H == {pos[t] : t \in AllThreads}
  <1>1. IsFiniteSet(H) /\ Cardinality(H) <= NumThread
    BY HeldTickets
  <1>2. a .. b \in SUBSET H
    OBVIOUS
  <1> HIDE DEF H
  <1>3. Cardinality(a .. b) <= Cardinality(H)
    BY <1>1, <1>2, FS_Subset
  <1>4. Cardinality(a .. b) = IF a > b THEN 0 ELSE b - a + 1
    BY FS_Interval
  <1>5. Cardinality(H) \in Nat
    BY <1>1, FS_CardinalityType
  <1> QED
    BY <1>1, <1>3, <1>4, <1>5

\* The first ticket that a thread may still hold.
First == IF dropped = {} THEN cursor ELSE cursor + 1

\* All active tickets lie in a window as wide as there are threads.
LEMMA Window ==
  ASSUME IndInv
  PROVE  /\ \A t \in AllThreads : Active(t) => pos[t] \in First .. next - 1
         /\ next - First <= NumThread
  <1> USE DEF IndInv
  <1>1. cursor \in Nat /\ next \in Nat /\ dropped \subseteq Nat
    BY DEF TicketType
  <1>2. First \in Nat
    BY <1>1 DEF First
  <1>3. \A t \in AllThreads : Active(t) => pos[t] \in First .. next - 1
    <2> TAKE t \in AllThreads
    <2> HAVE Active(t)
    <2>1. pos[t] \in cursor .. next - 1
      BY DEF TicketsInWindow
    <2>2. dropped # {} => pos[t] # cursor
      BY DEF GivenUpIsOver, GivenUpBlocks
    <2> QED
      BY <1>1, <2>1, <2>2 DEF First
  <1>4. \A k \in First .. next - 1 : \E t \in AllThreads : pos[t] = k
    <2> TAKE k \in First .. next - 1
    <2>1. k \in cursor .. next - 1 /\ k \notin dropped
      BY <1>1 DEF First, GivenUpBlocks
    <2> QED
      BY <2>1 DEF NoneForgotten
  <1>5. next - First <= NumThread
    <2>1. CASE next = 0
      BY <1>2, <2>1
    <2>2. CASE next # 0
      <3>1. next - 1 \in Nat
        BY <1>1, <2>2
      <3>2. (next - 1) - First < NumThread \/ next - 1 < First
        BY <1>2, <1>4, <3>1, RunBound
      <3> QED
        BY <1>1, <1>2, <3>2
    <2> QED
      BY <2>1, <2>2
  <1> QED
    BY <1>3, <1>5

\* The low bits of cursor are those of a thread's ticket only when the cursor
\* has come to the ticket.
LEMMA TurnExact ==
  ASSUME IndInv, NEW t \in AllThreads, Active(t), MyTurn(t)
  PROVE  cursor = pos[t] /\ dropped = {}
  <1>1. cursor \in Nat /\ next \in Nat /\ pos[t] \in Nat
    BY DEF IndInv, TicketType
  <1>2. pos[t] \in First .. next - 1 /\ next - First <= NumThread
    BY Window
  <1>3. cursor <= pos[t] /\ pos[t] - cursor < Modulus
    BY <1>1, <1>2 DEF First
  <1>4. cursor = pos[t]
    BY <1>1, <1>3, RemainderUnique DEF MyTurn, Low
  <1>5. dropped = {}
    BY <1>1, <1>2, <1>4 DEF First
  <1> QED
    BY <1>4, <1>5

LEMMA SlotType == ASSUME NEW k \in Nat PROVE SlotOf(k) \in Slots /\ SlotOf(k) = k % Capacity
  <1>1. SlotOf(k) = k % Capacity
    BY RemainderTwice DEF SlotOf, Low
  <1> QED
    BY <1>1 DEF Slots

--------------------------------------------------------------------------------
(* The inductive invariant.                                                    *)

LEMMA InvInit == TicketInit => IndInv
  BY DEF TicketInit, IndInv, TicketType, Active, TicketsInWindow, NoneForgotten, GivenUpBlocks,
         GivenUpIsOver, WrittenBeforePublish, TicketsWritten,
         IterationsLeft

LEMMA InvTake ==
  ASSUME IndInv, NEW t \in AllThreads, Take(t)
  PROVE  IndInv'
  <1> USE DEF IndInv, Take, Active
  <1>1. TicketType'
    BY DEF TicketType
  <1>2. (cursor <= next)'
    BY DEF TicketType
  <1>3. TicketsInWindow'
    BY DEF TicketType, TicketsInWindow
  <1>4. NoneForgotten'
    BY DEF TicketType, NoneForgotten
  <1>5. GivenUpBlocks'
    BY DEF GivenUpBlocks
  <1>6. GivenUpIsOver'
    BY DEF TicketType, GivenUpIsOver
  <1>7. WrittenBeforePublish'
    BY DEF TicketType, WrittenBeforePublish, SlotOf, Low
  <1>8. TicketsWritten'
    BY DEF TicketsWritten, SlotOf, Low
  <1>9. IterationsLeft'
    BY DEF TicketType, IterationsLeft
  <1> QED
    BY <1>1, <1>2, <1>3, <1>4, <1>5, <1>6, <1>7, <1>8, <1>9

LEMMA InvWrite ==
  ASSUME IndInv, NEW t \in AllThreads, Write(t)
  PROVE  IndInv'
  <1> USE DEF IndInv, Write, Active
  <1>1. TicketType'
    <2>1. SlotOf(pos[t]) \in Slots
      BY SlotType DEF TicketType
    <2> QED
      BY <2>1 DEF TicketType
  <1>2. (cursor <= next)'
    OBVIOUS
  <1>3. TicketsInWindow'
    BY DEF TicketType, TicketsInWindow
  <1>4. NoneForgotten'
    BY DEF TicketType, NoneForgotten
  <1>5. GivenUpBlocks'
    BY DEF GivenUpBlocks
  <1>6. GivenUpIsOver'
    BY DEF TicketType, GivenUpIsOver
  <1>7. WrittenBeforePublish'
    BY DEF TicketType, WrittenBeforePublish, SlotOf, Low
  <1>8. TicketsWritten'
    BY DEF TicketsWritten, SlotOf, Low
  <1>9. IterationsLeft'
    BY DEF TicketType, IterationsLeft
  <1> QED
    BY <1>1, <1>2, <1>3, <1>4, <1>5, <1>6, <1>7, <1>8, <1>9

LEMMA InvPublish ==
  ASSUME IndInv, NEW t \in AllThreads, Publish(t)
  PROVE  IndInv'
  <1> USE DEF IndInv, Publish, Finish, Active
  <1>0. cursor = pos[t] /\ dropped = {} /\ pos[t] \in cursor .. next - 1
    BY TurnExact DEF TicketsInWindow
  <1>1. TicketType'
    BY DEF TicketType, IterationsLeft
  <1>2. (cursor <= next)'
    BY <1>0 DEF TicketType
  <1>3. TicketsInWindow'
    BY <1>0 DEF TicketType, TicketsInWindow
  <1>4. NoneForgotten'
    BY <1>0 DEF TicketType, NoneForgotten
  <1>5. GivenUpBlocks'
    BY <1>0 DEF GivenUpBlocks
  <1>6. GivenUpIsOver'
    BY <1>0 DEF TicketType, GivenUpIsOver
  <1>7. WrittenBeforePublish'
    BY DEF TicketType, WrittenBeforePublish, SlotOf, Low
  <1>8. TicketsWritten'
    <2>1. SlotOf(pos[t]) \in ring
      BY DEF WrittenBeforePublish
    <2> SUFFICES ASSUME NEW k \in 0 .. cursor' - 1 PROVE SlotOf(k) \in ring
      BY DEF TicketsWritten, SlotOf, Low
    <2>2. k \in 0 .. cursor - 1 \/ k = pos[t]
      BY <1>0 DEF TicketType
    <2> QED
      BY <2>1, <2>2 DEF TicketsWritten
  <1>9. IterationsLeft'
    BY DEF TicketType, IterationsLeft
  <1> QED
    BY <1>1, <1>2, <1>3, <1>4, <1>5, <1>6, <1>7, <1>8, <1>9

LEMMA InvGiveUp ==
  ASSUME IndInv, NEW t \in AllThreads, GiveUp(t)
  PROVE  IndInv'
  <1> USE DEF IndInv, GiveUp, Finish, Active
  <1>0. cursor = pos[t] /\ dropped = {} /\ pos[t] \in cursor .. next - 1
    BY TurnExact DEF TicketsInWindow
  <1>1. TicketType'
    <2>1. left' \in [AllThreads -> 0 .. Iterations]
      BY DEF TicketType, IterationsLeft
    <2>2. pc' \in [AllThreads -> {"take", "write", "publish", "done"}]
      BY DEF TicketType
    <2>3. dropped' \subseteq Nat
      BY DEF TicketType
    <2> QED
      BY <2>1, <2>2, <2>3 DEF TicketType
  <1>2. (cursor <= next)'
    OBVIOUS
  <1>3. TicketsInWindow'
    BY <1>0 DEF TicketType, TicketsInWindow
  <1>4. NoneForgotten'
    BY <1>0 DEF TicketType, NoneForgotten
  <1>5. GivenUpBlocks'
    BY <1>0 DEF GivenUpBlocks
  <1>6. GivenUpIsOver'
    BY <1>0 DEF TicketType, GivenUpIsOver, TicketsInWindow
  <1>7. WrittenBeforePublish'
    BY DEF TicketType, WrittenBeforePublish, SlotOf, Low
  <1>8. TicketsWritten'
    BY DEF TicketsWritten, SlotOf, Low
  <1>9. IterationsLeft'
    BY DEF TicketType, IterationsLeft
  <1> QED
    BY <1>1, <1>2, <1>3, <1>4, <1>5, <1>6, <1>7, <1>8, <1>9

LEMMA InvStutter == ASSUME IndInv, UNCHANGED ticketVars PROVE IndInv'
  BY DEF IndInv, ticketVars, TicketType, Active, TicketsInWindow, NoneForgotten, GivenUpBlocks,
         GivenUpIsOver, WrittenBeforePublish, TicketsWritten,
         IterationsLeft, SlotOf, Low

LEMMA InvNext == IndInv /\ [TicketNext]_ticketVars => IndInv'
  <1> SUFFICES ASSUME IndInv, [TicketNext]_ticketVars PROVE IndInv'
    OBVIOUS
  <1>1. ASSUME NEW t \in AllThreads, Take(t) PROVE IndInv'
    BY <1>1, InvTake
  <1>2. ASSUME NEW t \in AllThreads, Write(t) PROVE IndInv'
    BY <1>2, InvWrite
  <1>3. ASSUME NEW t \in AllThreads, Publish(t) PROVE IndInv'
    BY <1>3, InvPublish
  <1>4. ASSUME NEW t \in AllThreads, GiveUp(t) PROVE IndInv'
    BY <1>4, InvGiveUp
  <1>5. CASE UNCHANGED ticketVars
    BY <1>5, InvStutter
  <1> QED
    BY <1>1, <1>2, <1>3, <1>4, <1>5 DEF TicketNext, Exited

--------------------------------------------------------------------------------
(* The theorems.                                                               *)

\* The inductive invariant holds in every reachable state.
THEOREM Invariant == TicketSpec => []IndInv
  BY InvInit, InvNext, PTL DEF TicketSpec

\* Tickets and slots stay in their types (the slot mask of the CAS benchmark).
THEOREM TypeCorrect == TicketSpec => []TicketType
  <1>1. IndInv => TicketType
    BY DEF IndInv
  <1> QED
    BY <1>1, Invariant, PTL

\* No two threads of the CAS benchmark work on one ticket, and none on a ticket
\* that the cursor has passed.
THEOREM TicketsHeldOnce == TicketSpec => []TicketsInWindow
  <1>1. IndInv => TicketsInWindow
    BY DEF IndInv
  <1> QED
    BY <1>1, Invariant, PTL

\* Every slot below the cursor of the CAS benchmark has been written.
THEOREM PublishedIsWritten == TicketSpec => []TicketsWritten
  <1>1. IndInv => TicketsWritten
    BY DEF IndInv
  <1> QED
    BY <1>1, Invariant, PTL

\* A spurious failure of the compare-and-exchange blocks the cursor for good.
THEOREM GivenUpIsLast == TicketSpec => []GivenUpBlocks
  <1>1. IndInv => GivenUpBlocks
    BY DEF IndInv
  <1> QED
    BY <1>1, Invariant, PTL

\* As long as the threads are no more than the slots, no two threads of the CAS
\* benchmark write one slot, although nobody waits before writing.
THEOREM SlotsNeverShared == TicketSpec => []SlotsDistinct
  <1>1. ASSUME IndInv, NumThread <= Capacity, NEW t \in AllThreads, NEW u \in AllThreads,
               Active(t), Active(u), SlotOf(pos[t]) = SlotOf(pos[u]), pos[t] <= pos[u]
        PROVE  t = u
    <2>1. pos[t] \in Nat /\ pos[u] \in Nat /\ next \in Nat /\ First \in Nat
      BY <1>1 DEF IndInv, TicketType, First
    <2>2. pos[t] \in First .. next - 1 /\ pos[u] \in First .. next - 1 /\ next - First <= NumThread
      BY <1>1, Window
    <2>3. pos[u] - pos[t] < Capacity
      BY <1>1, <2>1, <2>2
    <2>4. pos[t] % Capacity = pos[u] % Capacity
      BY <1>1, <2>1, SlotType
    <2>5. pos[t] = pos[u]
      BY <1>1, <2>1, <2>3, <2>4, RemainderUnique
    <2> QED
      BY <1>1, <2>5 DEF IndInv, TicketsInWindow
  <1>2. IndInv => SlotsDistinct
    <2> SUFFICES ASSUME IndInv, NumThread <= Capacity, NEW t \in AllThreads, NEW u \in AllThreads,
                        Active(t), Active(u), SlotOf(pos[t]) = SlotOf(pos[u])
                 PROVE  t = u
      BY DEF SlotsDistinct
    <2>1. pos[t] \in Nat /\ pos[u] \in Nat
      BY DEF IndInv, TicketType
    <2>2. pos[t] <= pos[u] \/ pos[u] <= pos[t]
      BY <2>1
    <2> QED
      BY <1>1, <2>2
  <1> QED
    BY <1>2, Invariant, PTL

\* The cursor of the CAS benchmark moves one ticket at a time, and not at all
\* after a ticket was given up.
THEOREM CursorMovesByOne == TicketSpec => CursorSteps
  <1> DEFINE Step == /\ cursor' \in {cursor, cursor + 1}
                     /\ dropped # {} => cursor' = cursor
  <1>1. IndInv /\ [TicketNext]_ticketVars => [Step]_ticketVars
    <2> SUFFICES ASSUME IndInv, TicketNext PROVE Step \/ UNCHANGED ticketVars
      OBVIOUS
    <2>1. ASSUME NEW t \in AllThreads, Publish(t) PROVE Step
      BY <2>1, TurnExact DEF Publish, Active
    <2>2. ASSUME NEW t \in AllThreads, Take(t) \/ Write(t) \/ GiveUp(t) PROVE Step
      BY <2>2 DEF Take, Write, GiveUp
    <2> QED
      BY <2>1, <2>2 DEF TicketNext, Exited
  <1> QED
    BY <1>1, Invariant, PTL DEF TicketSpec, CursorSteps

--------------------------------------------------------------------------------
(* How many tickets there are.  A ticket is one iteration of one thread, and   *)
(* next is the number of iterations that have taken theirs.                    *)

\* The iterations of thread t that have taken a ticket.
Taken(t) == IF Active(t) THEN Iterations - left[t] + 1 ELSE Iterations - left[t]

AllTurns == AllThreads \X (0 .. Iterations - 1)

TakenTurns == {x \in AllTurns : x[2] < Taken(x[1])}

TicketsCounted ==
  /\ next = Cardinality(TakenTurns)
  /\ \A t \in AllThreads : pc[t] = "done" => left[t] = 0

\* The iterations of all threads.
LEMMA TurnSets ==
  /\ IsFiniteSet(AllTurns)
  /\ Cardinality(AllTurns) = NumThread * Iterations
  /\ IsFiniteSet(TakenTurns)
  <1>1. IsFiniteSet(AllThreads) /\ Cardinality(AllThreads) = NumThread
    BY FS_Interval DEF AllThreads
  <1>2. IsFiniteSet(0 .. Iterations - 1) /\ Cardinality(0 .. Iterations - 1) = Iterations
    BY FS_Interval
  <1>3. IsFiniteSet(AllTurns) /\ Cardinality(AllTurns) = NumThread * Iterations
    BY ZenonT(30), <1>1, <1>2, FS_Product DEF AllTurns
  <1>4. TakenTurns \in SUBSET AllTurns
    BY DEF TakenTurns
  <1>5. IsFiniteSet(TakenTurns)
    BY <1>3, <1>4, FS_Subset
  <1> QED
    BY <1>3, <1>5

\* Steps that take no ticket.
LEMMA CountFrame ==
  ASSUME TicketsCounted, next' = next, \A t \in AllThreads : Taken(t)' = Taken(t),
         \A t \in AllThreads : pc'[t] = "done" => left'[t] = 0
  PROVE  TicketsCounted'
  <1>1. TakenTurns' = {x \in AllTurns : x[2] < Taken(x[1])'}
    BY DEF TakenTurns, AllTurns, AllThreads
  <1>2. \A x \in AllTurns : Taken(x[1])' = Taken(x[1])
    BY DEF AllTurns
  <1>3. TakenTurns' = TakenTurns
    BY <1>1, <1>2 DEF TakenTurns
  <1> QED
    BY <1>3 DEF TicketsCounted

\* A ticket is one more, that of the thread's next iteration.
LEMMA CountTake ==
  ASSUME IndInv, TicketsCounted, NEW t \in AllThreads, Take(t)
  PROVE  TicketsCounted'
  <1>1. /\ pc[t] = "take" /\ next' = next + 1 /\ left' = left
        /\ pc'[t] = "write" /\ \A u \in AllThreads \ {t} : pc'[u] = pc[u]
    BY DEF Take, IndInv, TicketType
  <1>2. left[t] \in 1 .. Iterations
    BY <1>1 DEF IndInv, TicketType, IterationsLeft
  <1>3. /\ Taken(t) = Iterations - left[t] /\ Taken(t)' = Taken(t) + 1
        /\ Taken(t) \in 0 .. Iterations - 1
        /\ \A u \in AllThreads \ {t} : Taken(u)' = Taken(u)
    BY <1>1, <1>2 DEF Taken, Active
  <1>4. PICK k \in 0 .. Iterations - 1 : k = Taken(t)
    BY <1>3
  <1> DEFINE turn == <<t, k>>
  <1>5. turn \in AllTurns /\ turn \notin TakenTurns
    BY <1>4 DEF AllTurns, TakenTurns
  <1>6. ASSUME NEW x \in AllTurns
        PROVE  x[2] < Taken(x[1])' <=> x[2] < Taken(x[1]) \/ x = turn
    <2>1. x[1] \in AllThreads /\ x[2] \in 0 .. Iterations - 1 /\ x = <<x[1], x[2]>>
      BY DEF AllTurns
    <2>2. CASE x[1] = t
      <3>1. x = turn <=> x[2] = k
        BY <2>1, <2>2
      <3> QED
        BY <1>3, <1>4, <2>1, <2>2, <3>1
    <2>3. CASE x[1] # t
      <3>1. x # turn
        BY <2>3
      <3> QED
        BY <1>3, <2>1, <2>3, <3>1
    <2> QED
      BY <2>2, <2>3
  <1>7. TakenTurns' = {x \in AllTurns : x[2] < Taken(x[1])'}
    BY DEF TakenTurns, AllTurns, AllThreads
  <1> HIDE DEF turn
  <1>8. TakenTurns' = TakenTurns \cup {turn}
    BY <1>5, <1>6, <1>7 DEF TakenTurns
  <1>9. Cardinality(TakenTurns') = Cardinality(TakenTurns) + 1
    BY <1>5, <1>8, TurnSets, FS_AddElement
  <1> QED
    BY <1>1, <1>9 DEF TicketsCounted

\* Every step keeps the count.
LEMMA CountStep == IndInv /\ TicketsCounted /\ [TicketNext]_ticketVars => TicketsCounted'
  <1> SUFFICES ASSUME IndInv, TicketsCounted, [TicketNext]_ticketVars
               PROVE  TicketsCounted'
    OBVIOUS
  <1>1. ASSUME NEW t \in AllThreads, Write(t)
        PROVE  TicketsCounted'
    BY <1>1, CountFrame DEF Write, Taken, Active, TicketsCounted, IndInv, TicketType
  <1>2. ASSUME NEW t \in AllThreads, Publish(t) \/ GiveUp(t)
        PROVE  TicketsCounted'
    <2>1. /\ pc[t] = "publish" /\ next' = next
          /\ left'[t] = left[t] - 1 /\ \A u \in AllThreads \ {t} : left'[u] = left[u]
          /\ pc'[t] = IF left[t] = 1 THEN "done" ELSE "take"
          /\ \A u \in AllThreads \ {t} : pc'[u] = pc[u]
      BY <1>2 DEF Publish, GiveUp, Finish, IndInv, TicketType
    <2>2. left[t] \in 1 .. Iterations
      BY <2>1 DEF IndInv, TicketType, IterationsLeft
    <2>3. Taken(t)' = Taken(t) /\ \A u \in AllThreads \ {t} : Taken(u)' = Taken(u)
      BY <2>1, <2>2 DEF Taken, Active
    <2> QED
      BY <2>1, <2>3, CountFrame DEF TicketsCounted
  <1>3. CASE UNCHANGED ticketVars
    BY <1>3, CountFrame DEF ticketVars, Taken, Active, TicketsCounted
  <1> QED
    BY <1>1, <1>2, <1>3, CountTake DEF TicketNext, Exited

\* No ticket has been taken at the start.
LEMMA CountInit == TicketInit => TicketsCounted
  <1> SUFFICES ASSUME TicketInit PROVE TicketsCounted
    OBVIOUS
  <1>1. \A t \in AllThreads : Taken(t) = 0
    BY DEF TicketInit, Taken, Active
  <1>2. \A x \in AllTurns : x[1] \in AllThreads /\ x[2] \in 0 .. Iterations - 1
    BY DEF AllTurns
  <1>3. TakenTurns = {}
    BY <1>1, <1>2 DEF TakenTurns
  <1> QED
    BY <1>3, FS_EmptySet DEF TicketInit, TicketsCounted

\* At the end of the CAS benchmark every iteration of every thread has been published,
\* unless a ticket was given up.
THEOREM NothingIsLost == TicketSpec => []NoTicketLost
  <1>1. IndInv /\ TicketsCounted => NoTicketLost
    <2> SUFFICES ASSUME IndInv, TicketsCounted, AllDone, dropped = {}
                 PROVE  cursor = next /\ next = NumThread * Iterations
      BY DEF NoTicketLost
    <2>1. cursor = next
      BY DEF IndInv, TicketType, NoneForgotten, AllDone, Active
    <2>2. \A t \in AllThreads : Taken(t) = Iterations
      BY DEF Taken, Active, AllDone, TicketsCounted
    <2>3. \A x \in AllTurns : x[1] \in AllThreads /\ x[2] \in 0 .. Iterations - 1
      BY DEF AllTurns
    <2>4. TakenTurns = AllTurns
      BY <2>2, <2>3 DEF TakenTurns
    <2> QED
      BY <2>1, <2>4, TurnSets DEF TicketsCounted
  <1> QED
    BY <1>1, CountInit, CountStep, Invariant, PTL DEF TicketSpec

================================================================================
