------------------------------ MODULE SharedCounter ------------------------------
(*******************************************************************************)
(* Threads that add to one counter.                                            *)
(*                                                                             *)
(*   ring, ringAlone    muggle_thread_trans_write (SpinLock, Mutex, Sync;      *)
(*                      Single): the counter is cursor, and the ring slot of   *)
(*                      cursor is written first                                *)
(*   spin, mutex        muggle_spin_lock and muggle_sync; muggle_mutex and     *)
(*                      std_mutex, whose SetUp leaves the lock alone           *)
(*   counterAlone       muggle_atomic Store, which loads and stores            *)
(*   store, fetchAdd    the Store and FetchAdd benchmarks of std_atomic (and   *)
(*                      muggle_atomic), with storeOwn and fetchAddOwn on a     *)
(*                      counter of each thread                                 *)
(*   loopAlone, loopLock, loopCas, loopCasTruth                                *)
(*                      loop_increment: run_unlock and run_volatile, run_lock, *)
(*                      run_cas                                                *)
(*                                                                             *)
(* run_cas ends its inner loop when the compare-and-exchange returns the value *)
(* that was expected.  The function is a macro of a library.  In loopCas it    *)
(* returns the value that it found and leaves the expected one alone, in       *)
(* loopCasTruth it returns whether it succeeded, as the benchmarks of          *)
(* muggle_atomic take it to, and updates the expected value when it fails.     *)
(*******************************************************************************)
EXTENDS Harness, FiniteSets

CONSTANT MaxCounter   \* bound on a counter that run_cas increments for ever

ASSUME CounterAssumption ==
  /\ Capacity \in Nat \ {0}
  /\ MaxCounter > NumThread * Iterations

VARIABLES
  lock,       \* the thread that holds the lock
  alive,      \* the mutex is initialised and not destroyed
  counter,    \* cursor, ival or g_v_tmp
  reg,        \* what each thread has loaded from it
  own,        \* s_thread_local_ival of each thread
  mine        \* s_ival of each thread

counterVars == <<lock, alive, counter, reg, own, mine, ring>>

NoOne == 0

Rings    == {"ring", "ringAlone"}
Locked   == {"ring", "spin", "mutex", "loopLock"}
Plain    == Rings \cup Locked \cup {"counterAlone", "loopAlone"}
CasLoops == {"loopCas", "loopCasTruth"}
Atomics  == {"store", "storeOwn", "fetchAdd", "fetchAddOwn"}
Counters == Plain \cup CasLoops \cup Atomics

CounterType ==
  /\ lock \in AllThreads \cup {NoOne}
  /\ alive \in BOOLEAN
  /\ counter \in Nat
  /\ reg \in [AllThreads -> Nat]
  /\ own \in [AllThreads -> Nat]
  /\ mine \in [AllThreads -> Nat]
  /\ ring \subseteq 0 .. Capacity - 1

CounterInit ==
  /\ lock = NoOne
  /\ alive = FALSE
  /\ counter = 0
  /\ reg = [t \in AllThreads |-> 0]
  /\ own = [t \in AllThreads |-> 0]
  /\ mine = [t \in AllThreads |-> 0]
  /\ ring = {}

--------------------------------------------------------------------------------

\* Every thread resets the one fixture, and what is its own.
SetUpCounter(t) ==
  /\ bench \in Counters
  /\ pc[t] = "setUp"
  /\ counter' = 0
  /\ lock' = IF bench = "mutex" THEN lock ELSE NoOne
  /\ alive' = (alive \/ bench \in Rings)
  /\ own' = [own EXCEPT ![t] = 0]
  /\ mine' = [mine EXCEPT ![t] = 0]
  /\ Goto(t, "start")
  /\ UNCHANGED <<bench, run, left, reg, ring>>

\* Fault: the lock is taken whoever holds it.
FreeAlways == TRUE

Free == lock = NoOne

Lock(t) ==
  /\ bench \in Locked
  /\ pc[t] = "work"
  /\ Free
  /\ lock' = t
  /\ Goto(t, "inside")
  /\ UNCHANGED <<bench, run, left, alive, counter, reg, own, mine, ring>>

\* Where an iteration has come to after the lock, if there is one.
Entered(t) == pc[t] = IF bench \in Locked THEN "inside" ELSE "work"

\* AsignInLock: the slot of the cursor, then the cursor plus one.
WriteSlot(t) ==
  /\ bench \in Rings
  /\ Entered(t)
  /\ ring' = ring \cup {counter % Capacity}
  /\ Goto(t, "load")
  /\ UNCHANGED <<bench, run, left, lock, alive, counter, reg, own, mine>>

LoadCounter(t) ==
  /\ bench \in Plain \cup CasLoops
  /\ IF bench \in Rings THEN pc[t] = "load" ELSE Entered(t)
  /\ reg' = [reg EXCEPT ![t] = counter]
  /\ Goto(t, IF bench \in CasLoops THEN "cas" ELSE "store")
  /\ UNCHANGED <<bench, run, left, lock, alive, counter, own, mine, ring>>

StoreCounter(t) ==
  /\ pc[t] = "store"
  /\ counter' = reg[t] + 1
  /\ IF bench \in Locked THEN Goto(t, "unlock") /\ UNCHANGED left ELSE EndIteration(t)
  /\ UNCHANGED <<bench, run, lock, alive, reg, own, mine, ring>>

\* Fault: the last iteration keeps the lock.
UnlockButLast(t) ==
  /\ pc[t] = "unlock"
  /\ lock' = IF left[t] = 1 THEN lock ELSE NoOne
  /\ EndIteration(t)
  /\ UNCHANGED <<bench, run, alive, counter, reg, own, mine, ring>>

Unlock(t) ==
  /\ pc[t] = "unlock"
  /\ lock' = NoOne
  /\ EndIteration(t)
  /\ UNCHANGED <<bench, run, alive, counter, reg, own, mine, ring>>

\* Whether the value returned can equal tmp.  With a truth value, tmp is read
\* before or after the call, which replaces it by what the counter is.
CasReturnsExpected(t) ==
  IF bench = "loopCas" THEN {counter = reg[t]}
  ELSE IF counter = reg[t] THEN {reg[t] = 1}
  ELSE {reg[t] = 0, counter = 0}

CompareExchange(t) ==
  /\ pc[t] = "cas"
  /\ counter < MaxCounter
  /\ counter' = IF counter = reg[t] THEN counter + 1 ELSE counter
  /\ \E equal \in CasReturnsExpected(t) :
       IF equal THEN EndIteration(t) ELSE Goto(t, "work") /\ UNCHANGED left
  /\ UNCHANGED <<bench, run, lock, alive, reg, own, mine, ring>>

\* ival.store(s_ival++) and the same on s_thread_local_ival.
Store(t) ==
  /\ bench \in {"store", "storeOwn"}
  /\ pc[t] = "work"
  /\ mine' = [mine EXCEPT ![t] = @ + 1]
  /\ IF bench = "store" THEN counter' = mine[t] /\ UNCHANGED own
     ELSE own' = [own EXCEPT ![t] = mine[t]] /\ UNCHANGED counter
  /\ EndIteration(t)
  /\ UNCHANGED <<bench, run, lock, alive, reg, ring>>

FetchAdd(t) ==
  /\ bench \in {"fetchAdd", "fetchAddOwn"}
  /\ pc[t] = "work"
  /\ IF bench = "fetchAdd" THEN counter' = counter + 1 /\ UNCHANGED own
     ELSE own' = [own EXCEPT ![t] = @ + 1] /\ UNCHANGED counter
  /\ EndIteration(t)
  /\ UNCHANGED <<bench, run, lock, alive, reg, mine, ring>>

\* Every thread destroys the one mutex.
TearDownCounter(t) ==
  /\ bench \in Counters
  /\ pc[t] = "tearDown"
  /\ alive' = (alive /\ bench \notin Rings)
  /\ Goto(t, "done")
  /\ UNCHANGED <<bench, run, left, lock, counter, reg, own, mine, ring>>

CounterStep(t) ==
  \/ SetUpCounter(t) \/ Lock(t) \/ WriteSlot(t) \/ LoadCounter(t) \/ StoreCounter(t)
  \/ Unlock(t) \/ CompareExchange(t) \/ Store(t) \/ FetchAdd(t) \/ TearDownCounter(t)

\* The threads of a new run have thread-local variables of their own.
CounterNextRun == ring' = {} /\ UNCHANGED <<lock, alive, counter, reg, own, mine>>

--------------------------------------------------------------------------------
(* Properties.                                                                 *)

Inside(t) == bench \in Locked /\ pc[t] \in {"inside", "load", "store", "unlock"}

\* No thread's SetUp frees the lock under another thread that holds it: one thread
\* at a time is inside, and it is the one the lock knows of.
OneInside == \A t \in Threads : Inside(t) => lock = t

\* The mutex exists as long as some thread may lock or unlock it, although each
\* thread destroys it for all.
MutexAlive ==
  bench = "ring" => \A t \in Threads : pc[t] = "work" \/ Inside(t) => alive

\* A slot is written before the cursor passes it.
PublishedWritten ==
  bench \in Rings /\ Started => \A k \in 0 .. counter - 1 : k % Capacity \in ring

\* The lock and the mutex behind it, and the ring it guards.
LockInv ==
  /\ CounterType
  /\ OneInside
  /\ MutexAlive
  /\ PublishedWritten

\* Iterations that have added to the counter.
Counted(t) == Done(t) + (IF pc[t] = "unlock" THEN 1 ELSE 0)

Additions == {x \in Threads \X (1 .. Turns) : x[2] <= Counted(x[1])}

Added == Cardinality(Additions)

\* The counter is the number of iterations, in every run: no increment is lost to
\* another thread, nor to the SetUp of a thread that comes late.  A counter that is
\* stored to holds what some thread stored last, and a thread's own counter is
\* what that thread has made it.
NothingLost ==
  bench \in Counters \ {"loopCasTruth"} /\ Started =>
    CASE bench = "store" ->
           \/ \E t \in Threads : Done(t) > 0 /\ counter = Done(t) - 1
           \/ Added = 0 /\ counter = 0
      [] bench = "storeOwn" ->
           \A t \in Threads : own[t] = IF Done(t) = 0 THEN 0 ELSE Done(t) - 1
      [] bench = "fetchAddOwn" -> \A t \in Threads : own[t] = Done(t)
      [] OTHER -> counter = Added

--------------------------------------------------------------------------------
(* What the inductive invariant adds.                                          *)

\* Which benchmarks have a thread in which place.
CounterPlaces ==
  \A t \in Threads :
    /\ pc[t] \in {"inside", "unlock"} => bench \in Locked
    /\ pc[t] = "load" => bench \in Rings
    /\ pc[t] = "store" => bench \in Plain
    /\ pc[t] = "cas" => bench \in CasLoops

\* What SetUp has left to a thread that waits for the others.
FreshCounter ==
  /\ bench \in Counters =>
       \A t \in Threads : pc[t] = "start" => counter = 0 /\ own[t] = 0 /\ mine[t] = 0
  /\ bench \in Rings =>
       \A t \in Threads : pc[t] \in {"start", "stop"} \cup Working => alive

\* The thread between its load and its store of the counter is alone there.
CounterInHand ==
  /\ \A t \in Threads : pc[t] = "store" => reg[t] = counter
  /\ bench \in Rings =>
       \A t \in Threads : pc[t] \in {"load", "store"} => counter % Capacity \in ring

\* s_ival counts the iterations.
StoresCounted ==
  bench \in {"store", "storeOwn"} /\ Started => \A t \in Threads : mine[t] = Done(t)

CounterInd ==
  LockInv /\ NothingLost /\ CounterPlaces /\ FreshCounter /\ CounterInHand /\ StoresCounted

================================================================================
