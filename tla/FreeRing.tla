-------------------------------- MODULE FreeRing --------------------------------
(*******************************************************************************)
(* The benchmarks of cpp/deprecated/benchmark/c_malloc_free: producers         *)
(* allocate blocks and write them into a ring buffer, one consumer reads them  *)
(* position by position and frees them.  main runs three of them, with one     *)
(* producer, one per processor and two per processor.                          *)
(*                                                                             *)
(* muggle_ringbuffer is a library and modelled as the benchmark uses it: a     *)
(* write stores into the next slot and never waits, a read waits until its     *)
(* position has been written and returns what the slot holds then.  So the     *)
(* consumer can be lapped, which the "(message loss)" of the benchmark is      *)
(* about, and it then reads the same block twice.  CppPrograms starts it.      *)
(*******************************************************************************)
EXTENDS Integers, FiniteSets

CONSTANTS
  Processors,    \* what hardware_concurrency may return
  Loop,          \* config.loop
  CntPerLoop,    \* config.cnt_per_loop
  Capacity,      \* slots of the ring
  AllocFails,    \* malloc can return a null pointer
  Null           \* the null pointer, and an empty slot

ASSUME FreeRingAssumption ==
  /\ Processors \subseteq Nat
  /\ Loop \in Nat
  /\ CntPerLoop \in Nat
  /\ Capacity \in Nat \ {0}
  /\ AllocFails \in BOOLEAN
  /\ Null \notin Int

Cnt    == Loop * CntPerLoop
Blocks == 0 .. Cnt - 1
Slots  == 0 .. Capacity - 1

VARIABLES
  hc,        \* what hardware_concurrency returned
  call,      \* which call of Benchmark_wr it is
  main,      \* what the main thread does
  ready,     \* consumer_ready
  ppc,       \* what each producer does next
  k,         \* turns each producer has made through its two loops
  slot,      \* the pointer in each slot of the ring
  cursor,    \* positions written
  cpc,       \* what the consumer does next
  pos,       \* the next position of the consumer
  block,     \* the block it has read
  cnt,       \* cnt, stored in consumer_read_num
  state,     \* what has become of the memory of each block
  lapped     \* history: a read has come after its slot was overwritten

producerVars == <<ppc, k>>
consumerVars == <<cpc, pos, block, cnt>>
callVars == <<hc, call>>
ringVars == <<callVars, main, ready, ppc, k, slot, cursor, cpc, pos, block, cnt, state, lapped>>

\* The calls of Benchmark_wr, and cnt_producer in each.
ProducersOf(n) == 0 .. <<1, hc, 2 * hc>>[n] - 1

Producers   == ProducersOf(call)
NumProducer == Cardinality(Producers)

RingType ==
  /\ hc \in Processors
  /\ call \in 1 .. 3
  /\ main \in {"join", "null", "joinConsumer", "report", "done", "aborted"}
  /\ ready \in {0, 1}
  /\ ppc \in [Producers -> {"wait", "malloc", "write", "done"}]
  /\ k \in [Producers -> 0 .. Cnt]
  /\ slot \in [Slots -> Blocks \cup {Null}]
  /\ cursor \in 0 .. Cnt + 1
  /\ cpc \in {"start", "read", "free", "done"}
  /\ pos \in 0 .. Cnt + 1
  /\ block \in Blocks \cup {Null}
  /\ cnt \in 0 .. Cnt
  /\ state \in [Blocks -> {"none", "failed", "allocated", "freed", "freedTwice"}]
  /\ lapped \in BOOLEAN

RingInit ==
  /\ hc \in Processors
  /\ call = 1
  /\ main = "join"
  /\ ready = 0
  /\ ppc = [p \in Producers |-> "wait"]
  /\ k = [p \in Producers |-> 0]
  /\ slot = [s \in Slots |-> Null]
  /\ cursor = 0
  /\ cpc = "start"
  /\ pos = 0
  /\ block = Null
  /\ cnt = 0
  /\ state = [b \in Blocks |-> "none"]
  /\ lapped = FALSE

--------------------------------------------------------------------------------
(* The slice start_idx .. end_idx - 1 of every loop that producer p allocates. *)

Share == CntPerLoop \div NumProducer

StartIdx(p) == p * Share

\* Fault: the last producer gets no more than the others.
EndIdxNoRest(p) == (p + 1) * Share

\* Fault: neighbours share a block.
EndIdxOverlap(p) == IF p = NumProducer - 1 THEN CntPerLoop ELSE (p + 1) * Share + 1

EndIdx(p) == IF p = NumProducer - 1 THEN CntPerLoop ELSE (p + 1) * Share

Width(p) == EndIdx(p) - StartIdx(p)

\* The block of turn t of the two loops.
BlockAt(p, t) == (t \div Width(p)) * CntPerLoop + StartIdx(p) + (t % Width(p))

Turns(p) == Loop * Width(p)

NextTurn(p) ==
  /\ k' = [k EXCEPT ![p] = @ + 1]
  /\ ppc' = [ppc EXCEPT ![p] = IF k[p] + 1 < Turns(p) THEN "malloc" ELSE "done"]

--------------------------------------------------------------------------------
(* The ring buffer.                                                            *)

SlotOf(n) == n % Capacity

Put(b) ==
  /\ slot' = [slot EXCEPT ![SlotOf(cursor)] = b]
  /\ cursor' = cursor + 1

--------------------------------------------------------------------------------
(* Producer p.                                                                 *)

Alive == main # "aborted"

SeeReady(p) ==
  /\ Alive
  /\ ppc[p] = "wait"
  /\ ready = 1
  /\ ppc' = [ppc EXCEPT ![p] = IF Turns(p) > 0 THEN "malloc" ELSE "done"]
  /\ UNCHANGED <<callVars, main, ready, k, slot, cursor, consumerVars, state, lapped>>

Malloc(p) ==
  /\ Alive
  /\ ppc[p] = "malloc"
  /\ state' = [state EXCEPT ![BlockAt(p, k[p])] = "allocated"]
  /\ ppc' = [ppc EXCEPT ![p] = "write"]
  /\ UNCHANGED <<callVars, main, ready, k, slot, cursor, consumerVars, lapped>>

\* The block is left out.
MallocFails(p) ==
  /\ Alive
  /\ AllocFails
  /\ ppc[p] = "malloc"
  /\ state' = [state EXCEPT ![BlockAt(p, k[p])] = "failed"]
  /\ NextTurn(p)
  /\ UNCHANGED <<callVars, main, ready, slot, cursor, consumerVars, lapped>>

Write(p) ==
  /\ Alive
  /\ ppc[p] = "write"
  /\ Put(BlockAt(p, k[p]))
  /\ NextTurn(p)
  /\ UNCHANGED <<callVars, main, ready, consumerVars, state, lapped>>

--------------------------------------------------------------------------------
(* The consumer.                                                               *)

\* Fault: the consumer does not say that it is ready.
StartSilent ==
  /\ Alive
  /\ cpc = "start"
  /\ cpc' = "read"
  /\ UNCHANGED <<callVars, main, ready, producerVars, slot, cursor, pos, block, cnt, state, lapped>>

Start ==
  /\ Alive
  /\ cpc = "start"
  /\ ready' = ready + 1
  /\ cpc' = "read"
  /\ UNCHANGED <<callVars, main, producerVars, slot, cursor, pos, block, cnt, state, lapped>>

Read ==
  /\ Alive
  /\ cpc = "read"
  /\ pos < cursor
  /\ block' = slot[SlotOf(pos)]
  /\ pos' = pos + 1
  /\ lapped' = (lapped \/ cursor - pos > Capacity)
  /\ cpc' = IF slot[SlotOf(pos)] = Null THEN "done" ELSE "free"
  /\ UNCHANGED <<callVars, main, ready, producerVars, slot, cursor, cnt, state>>

Free ==
  /\ Alive
  /\ cpc = "free"
  /\ state' = [state EXCEPT ![block] = IF @ = "allocated" THEN "freed" ELSE "freedTwice"]
  /\ cnt' = cnt + 1
  /\ cpc' = "read"
  /\ UNCHANGED <<callVars, main, ready, producerVars, slot, cursor, pos, block, lapped>>

\* The allocator notices that the block is free already.
FreeAborts ==
  /\ Alive
  /\ cpc = "free"
  /\ state[block] # "allocated"
  /\ main' = "aborted"
  /\ UNCHANGED <<callVars, ready, producerVars, slot, cursor, consumerVars, state, lapped>>

--------------------------------------------------------------------------------
(* The main thread.                                                            *)

JoinProducers ==
  /\ main = "join"
  /\ \A p \in Producers : ppc[p] = "done"
  /\ main' = "null"
  /\ UNCHANGED <<callVars, ready, producerVars, slot, cursor, consumerVars, state, lapped>>

WriteNull ==
  /\ main = "null"
  /\ Put(Null)
  /\ main' = "joinConsumer"
  /\ UNCHANGED <<callVars, ready, producerVars, consumerVars, state, lapped>>

JoinConsumer ==
  /\ main = "joinConsumer"
  /\ cpc = "done"
  /\ main' = "report"
  /\ UNCHANGED <<callVars, ready, producerVars, slot, cursor, consumerVars, state, lapped>>

MessageLoss == cnt # Cnt

\* The next call of Benchmark_wr has a ring and blocks of its own.
NextBenchmark ==
  /\ main = "report"
  /\ call < 3
  /\ call' = call + 1
  /\ main' = "join"
  /\ ready' = 0
  /\ ppc' = [p \in ProducersOf(call + 1) |-> "wait"]
  /\ k' = [p \in ProducersOf(call + 1) |-> 0]
  /\ slot' = [s \in Slots |-> Null]
  /\ cursor' = 0
  /\ cpc' = "start"
  /\ pos' = 0
  /\ block' = Null
  /\ cnt' = 0
  /\ state' = [b \in Blocks |-> "none"]
  /\ lapped' = FALSE
  /\ UNCHANGED hc

Return ==
  /\ main = "report"
  /\ call = 3
  /\ main' = "done"
  /\ UNCHANGED <<callVars, ready, producerVars, slot, cursor, consumerVars, state, lapped>>

RingEnded == main \in {"done", "aborted"}

Main == JoinProducers \/ WriteNull \/ JoinConsumer \/ NextBenchmark \/ Return

Producer(p) == SeeReady(p) \/ Malloc(p) \/ Write(p)

Consumer == Start \/ Read \/ Free

Ring ==
  \/ Main
  \/ \E p \in Producers : Producer(p) \/ MallocFails(p)
  \/ Consumer \/ FreeAborts

--------------------------------------------------------------------------------
(* Properties.                                                                 *)

\* A block that is in the consumer's hands is allocated, and freed once, unless
\* the consumer was lapped.
FreedOnceUnlessLapped ==
  ~lapped => /\ cpc = "free" => state[block] = "allocated"
             /\ \A b \in Blocks : state[b] # "freedTwice"
             /\ main # "aborted"

\* Who owns the memory of a block.
FreeInv == RingType /\ FreedOnceUnlessLapped

\* While the consumer has not been lapped the report is right: what was allocated
\* was freed, and a message is reported lost exactly when one was left out.  With
\* no producer everything is reported lost.
ReportExactUnlessLapped ==
  main = "report" /\ ~lapped =>
    /\ Producers # {} => \A b \in Blocks : state[b] \in {"freed", "failed"}
    /\ MessageLoss <=> \E b \in Blocks : state[b] # "freed"

--------------------------------------------------------------------------------
(* The inductive invariant behind these.                                       *)

\* How far a producer is in its turns.
TurnInv ==
  \A p \in Producers :
    /\ ppc[p] = "wait" => k[p] = 0
    /\ ppc[p] \in {"malloc", "write"} => k[p] < Turns(p)
    /\ ppc[p] = "done" => k[p] = Turns(p)

\* The order of the phases, and who has joined whom.
PhaseInv ==
  /\ cpc = "start" <=> ready = 0
  /\ main \in {"null", "joinConsumer", "report", "done"} => \A p \in Producers : ppc[p] = "done"
  /\ main \in {"report", "done"} => cpc = "done"

\* Null has been written, the last of all.
NullWritten == main \in {"joinConsumer", "report", "done"}

\* The blocks of the turns that are over, and of those in which a producer writes.
Taken     == {b \in Blocks : \E p \in Producers : \E t \in 0 .. k[p] - 1 : b = BlockAt(p, t)}
InHand(b) == \E p \in Producers : ppc[p] = "write" /\ b = BlockAt(p, k[p])

\* No more is freed than was read, and no more read than was written.
PositionInv ==
  main # "aborted" =>
    /\ pos <= cursor
    /\ (IF NullWritten THEN cursor - 1 ELSE cursor) <= Cardinality(Taken)
    /\ (IF cpc \in {"free", "done"} THEN cnt + 1 ELSE cnt) <= pos
    /\ NullWritten => slot[SlotOf(cursor - 1)] = Null /\ (cpc # "done" => pos < cursor)

Freed == {b \in Blocks : state[b] = "freed"}

\* Whose a block is while the consumer has not been lapped.
OwnerInv ==
  ~lapped =>
    /\ main # "aborted"
    /\ \A b \in Blocks : /\ state[b] # "freedTwice"
                         /\ state[b] = "none" <=> b \notin Taken /\ ~InHand(b)
                         /\ InHand(b) => state[b] = "allocated"
    /\ cpc = "free" => block \in Taken /\ state[block] = "allocated"
    /\ cpc = "done" => NullWritten /\ pos = cursor
    /\ cnt = Cardinality(Freed)

Pending == pos .. cursor - 1

\* While it is not about to be lapped, the slots ahead of the consumer hold every
\* allocated block that nobody has in hand, once.
WindowInv ==
  ~lapped /\ cursor - pos <= Capacity =>
    /\ \A m \in Pending : slot[SlotOf(m)] = Null => NullWritten /\ m = cursor - 1
    /\ \A m \in Pending : slot[SlotOf(m)] # Null =>
         /\ slot[SlotOf(m)] \in Taken
         /\ state[slot[SlotOf(m)]] = "allocated"
         /\ cpc = "free" => slot[SlotOf(m)] # block
    /\ \A m, n \in Pending :
         slot[SlotOf(m)] = slot[SlotOf(n)] /\ slot[SlotOf(m)] # Null => m = n
    /\ \A b \in Blocks : state[b] = "allocated" =>
         \/ InHand(b)
         \/ cpc = "free" /\ block = b
         \/ \E m \in Pending : slot[SlotOf(m)] = b

\* These are inductive, and FreeInv and ReportExactUnlessLapped follow from them.
RingInd ==
  /\ RingType
  /\ TurnInv
  /\ PhaseInv
  /\ PositionInv
  /\ OwnerInv
  /\ WindowInv

================================================================================
