-------------------------------- MODULE ArrayWalk --------------------------------
(*******************************************************************************)
(* The fixtures that walk through an array, one entry per iteration:           *)
(*                                                                             *)
(*   elapsed   time_elapsed_measure: stores the time since SetUp, and never    *)
(*             goes back; all its clocks do the same                           *)
(*   log       c_write_va_to_file: writes a message to a file, and goes round  *)
(*             by two                                                          *)
(*   strcpy    strcpy: copies a string, and goes round by one from wherever    *)
(*             it was, which at first is what was in the memory of idx         *)
(*                                                                             *)
(* A clock counts ticks; a timespec has the whole seconds and the rest.        *)
(*******************************************************************************)
EXTENDS Harness

CONSTANTS
  PerSecond,   \* ticks in a second
  MaxTicks     \* bound on the ticks between two readings of the clock

ASSUME ArrayAssumption ==
  /\ Modulus \in Nat \ {0}
  /\ NumStr <= Modulus
  /\ PerSecond \in Nat \ {0}
  /\ MaxTicks \in Nat

VARIABLES
  idx,      \* the index
  held,     \* what SetUp has acquired more often than TearDown released it
  visits,   \* how often each entry was used in this run
  clock,    \* the clock
  origin,   \* what it was in SetUp
  times     \* int64_arr

arrayVars == <<idx, held, visits, clock, origin, times>>

Walks == {"elapsed", "log", "strcpy"}

Size ==
  CASE bench = "elapsed" -> MeasureCnt
    [] bench = "log"     -> NumMsg
    [] bench = "strcpy"  -> NumStr
    [] OTHER             -> 1

Entries == 0 .. Size - 1

ArrayType ==
  /\ idx \in Nat
  /\ held \in Nat
  /\ visits \in [Entries -> Nat]
  /\ clock \in Nat
  /\ origin \in Nat
  /\ times \in [Entries -> Int]

ArrayInit ==
  /\ idx \in IF bench = "strcpy" THEN 0 .. Modulus - 1 ELSE {0}
  /\ held = 0
  /\ visits = [e \in Entries |-> 0]
  /\ clock \in IF bench = "elapsed" THEN 0 .. PerSecond - 1 ELSE {0}
  /\ origin = 0
  /\ times = [e \in Entries |-> 0]

--------------------------------------------------------------------------------

\* Fault: an index goes on where the last run has left it.
IndexKept == idx

\* strcpy sets no index.
IndexAtSetUp == IF bench = "strcpy" THEN idx ELSE 0

\* malloc or fopen, the index, and the start of the clock.
SetUpArray(t) ==
  /\ bench \in Walks
  /\ pc[t] = "setUp"
  /\ held' = held + 1
  /\ idx' = IndexAtSetUp
  /\ origin' = clock
  /\ Goto(t, "start")
  /\ UNCHANGED <<bench, run, left, visits, clock, times>>

\* The difference of two timespecs.
Elapsed(cur, start) ==
  (cur \div PerSecond - start \div PerSecond) * PerSecond
    + (cur % PerSecond) - (start % PerSecond)

MeasureElapsed(t) ==
  /\ bench = "elapsed"
  /\ pc[t] = "work"
  /\ clock' \in clock .. clock + MaxTicks
  /\ times' = [times EXCEPT ![idx] = Elapsed(clock', origin)]
  /\ visits' = [visits EXCEPT ![idx] = @ + 1]
  /\ idx' = idx + 1
  /\ EndIteration(t)
  /\ UNCHANGED <<bench, run, held, origin>>

\* msgs[idx++], then idx = (idx + 1) % msgs.size().
WriteMsg(t) ==
  /\ bench = "log"
  /\ pc[t] = "work"
  /\ visits' = [visits EXCEPT ![idx] = @ + 1]
  /\ idx' = (idx + 2) % NumMsg
  /\ EndIteration(t)
  /\ UNCHANGED <<bench, run, held, clock, origin, times>>

NextStr == ((idx + 1) % Modulus) % NumStr

CopyStr(t) ==
  /\ bench = "strcpy"
  /\ pc[t] = "work"
  /\ idx' = NextStr
  /\ visits' = [visits EXCEPT ![NextStr] = @ + 1]
  /\ EndIteration(t)
  /\ UNCHANGED <<bench, run, held, clock, origin, times>>

TearDownArray(t) ==
  /\ bench \in Walks
  /\ pc[t] = "tearDown"
  /\ held' = held - 1
  /\ Goto(t, "done")
  /\ UNCHANGED <<bench, run, left, idx, visits, clock, origin, times>>

ArrayStep(t) ==
  SetUpArray(t) \/ MeasureElapsed(t) \/ WriteMsg(t) \/ CopyStr(t) \/ TearDownArray(t)

\* A new run writes into new memory; clock and idx go on.
ArrayNextRun ==
  /\ visits' = [e \in Entries |-> 0]
  /\ times' = [e \in Entries |-> 0]
  /\ UNCHANGED <<idx, held, clock, origin>>

--------------------------------------------------------------------------------
(* Properties.                                                                 *)

\* The entry of the next iteration.
NextEntry == IF bench = "strcpy" THEN NextStr ELSE idx

\* No iteration of any run uses an entry outside the array or memory that is not
\* there, whatever idx was at first: as many iterations are registered as
\* time_elapsed_measure has entries, and it starts again from 0.
InsideArray ==
  bench \in Walks /\ pc[1] = "work" => NextEntry \in Entries /\ held = 1

\* All that was acquired is released before the next run.
Released == bench \in Walks /\ AllDone => held = 0

\* A step of two goes round an even number of messages without the odd ones.
Usable(e) == bench = "log" /\ NumMsg % 2 = 0 => e % 2 = 0

\* The benchmark repeats its operation on all entries alike: none is used twice
\* more than another, although the walk of strcpy goes on from run to run.
VisitedEvenly ==
  bench \in Walks =>
    \A e, f \in Entries :
      /\ Usable(e) /\ Usable(f) => visits[e] <= visits[f] + 1
      /\ ~Usable(e) => visits[e] = 0

\* The times that are stored never decrease, and are no longer than it took,
\* wherever in a second SetUp was.
TimesRise ==
  bench = "elapsed" /\ pc[1] \in {"work", "stop"} =>
    \A e, f \in 0 .. idx - 1 :
      e <= f => 0 <= times[e] /\ times[e] <= times[f] /\ times[f] <= clock - origin

\* An index, the array it is used for, and what was written there.
ArrayInv ==
  /\ ArrayType
  /\ InsideArray
  /\ Released
  /\ VisitedEvenly
  /\ TimesRise

--------------------------------------------------------------------------------
(* The inductive invariant, from which ArrayInv follows.                       *)

\* What SetUp has acquired, and an array that was not used yet.
HeldInRun ==
  bench \in Walks =>
    /\ held = IF pc[1] \in {"setUp", "done"} THEN 0 ELSE 1
    /\ pc[1] = "setUp" => \A e \in Entries : visits[e] = 0

\* The entries below the index are used, and their times rise.
ElapsedWalk ==
  bench = "elapsed" /\ pc[1] # "setUp" =>
    /\ idx = Done(1)
    /\ \A e \in Entries : visits[e] = IF e < idx THEN 1 ELSE 0
    /\ origin <= clock
    /\ \A e, f \in 0 .. idx - 1 :
         e <= f => 0 <= times[e] /\ times[e] <= times[f] /\ times[f] <= clock - origin

\* Twice the place of an entry in a walk by two: first the even entries, then the
\* odd ones.
LogPlace(e) == IF e % 2 = 0 THEN e ELSE e + NumMsg

\* The walk has gone round as often as it has used the next entry, and on to it.
LogWalk ==
  bench = "log" /\ pc[1] # "setUp" =>
    /\ idx \in Entries /\ Usable(idx)
    /\ \A e \in Entries :
         visits[e] = IF ~Usable(e) THEN 0
                     ELSE IF LogPlace(e) < LogPlace(idx) THEN visits[idx] + 1 ELSE visits[idx]

\* The place of an entry in a walk by one that begins with entry first.
StrPlace(first, e) == IF e < first THEN e + NumStr ELSE e

StrWalk ==
  bench = "strcpy" /\ pc[1] # "setUp" =>
    \E first \in Entries : \A e \in Entries :
      visits[e] = IF StrPlace(first, e) < StrPlace(first, NextStr) THEN visits[NextStr] + 1
                  ELSE visits[NextStr]

ArrayInd == ArrayType /\ HeldInRun /\ ElapsedWalk /\ LogWalk /\ StrWalk

================================================================================
