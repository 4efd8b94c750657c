------------------------ MODULE BlockingQueueTrans_proof ------------------------
(*******************************************************************************)
(* Proofs about BlockingQueueTrans for every number of threads, messages and   *)
(* every capacity.  The invariant is proved in layers: types, the loops of the *)
(* producers, the phases of the main thread, the messages with id -1, where    *)
(* every message is, and the stamps.                                           *)
(*******************************************************************************)
EXTENDS BlockingQueueTrans, Cells

USE QueueAssumption, ConfigAssumption

--------------------------------------------------------------------------------
(* Message ids: producer p owns p * Count .. p * Count + Count - 1.            *)

\* How many messages a producer writes, and how many there are, is a number.
LEMMA CountType == Count \in Nat /\ RecordCount \in Nat
  BY DEF Count, RecordCount

\* The ids are the pairs of a producer and an index below Count.
LEMMA IdOfType ==
  ASSUME NEW p \in Producers, NEW k \in 0 .. Count - 1
  PROVE  IdOf(p, k) \in Ids
  <1>1. p * Count + k < NumProducer * Count
    BY CellBound, CountType DEF Producers
  <1> QED
    BY <1>1, CountType DEF IdOf, Ids, RecordCount, Producers

\* An id has one producer and one index.
LEMMA IdOfUnique ==
  ASSUME NEW p \in Producers, NEW q \in Producers,
         NEW k \in 0 .. Count - 1, NEW l \in 0 .. Count - 1,
         IdOf(p, k) = IdOf(q, l)
  PROVE  p = q /\ k = l
  BY CellUnique, CountType DEF IdOf, Producers

\* Every id has them.
LEMMA IdOfCovers ==
  ASSUME NEW id \in Ids
  PROVE  \E p \in Producers, k \in 0 .. Count - 1 : id = IdOf(p, k)
  <1>1. id \in Nat /\ id < NumProducer * Count
    BY CountType DEF Ids, RecordCount
  <1>2. \E p \in 0 .. NumProducer - 1, k \in 0 .. Count - 1 : id = p * Count + k
    BY ONLY <1>1, CellExists, CountType, NumProducer \in Nat, Zenon
  <1> QED
    BY <1>2 DEF IdOf, Producers

\* The message a producer works on is the next of its slice.
LEMMA CurrentMessage ==
  ASSUME HarnessTypeOK, LoopInv, NEW p \in Producers, Sending(p)
  PROVE  /\ Finished(p) \in 0 .. Count - 1
         /\ MsgId(p) = IdOf(p, Finished(p))
         /\ MsgId(p) \in Ids
  <1>1. round[p] \in Nat /\ i[p] \in Nat /\ round[p] < TotalRounds /\ i[p] < RecordPerRound
    BY DEF HarnessTypeOK, LoopInv
  <1>2. Finished(p) \in 0 .. Count - 1
    <2>1. round[p] * RecordPerRound + i[p] < TotalRounds * RecordPerRound
      BY <1>1, CellBound, TotalRounds \in Nat, RecordPerRound \in Nat, Zenon
    <2> QED
      BY <1>1, <2>1 DEF Finished, Count
  <1>3. MsgId(p) = IdOf(p, Finished(p))
    <2>1. round[p] * RecordPerRound \in Nat /\ p * Count \in Nat
      BY <1>1, CountType DEF Producers
    <2> QED
      BY <1>1, <2>1 DEF MsgId, IdOf, Finished
  <1> QED
    BY <1>2, <1>3, IdOfType

\* A turn of NextMsg moves to the next message of the producer.
LEMMA LoopTurn ==
  ASSUME HarnessTypeOK, LoopInv, NEW p \in Producers, ppc[p] = "end", NextMsg(p)
  PROVE  /\ i' \in [Producers -> 0 .. RecordPerRound]
         /\ round' \in [Producers -> 0 .. TotalRounds]
         /\ ppc' \in [Producers -> {"unborn", "begin", "write", "end", "done"}]
         /\ Finished(p)' = Finished(p) + 1
         /\ ppc'[p] = "begin" => round'[p] < TotalRounds /\ i'[p] < RecordPerRound
         /\ ppc'[p] = "done" => Finished(p)' = Count
         /\ ppc'[p] \in {"begin", "done"}
         /\ \A q \in Producers \ {p} : ppc'[q] = ppc[q] /\ round'[q] = round[q] /\ i'[q] = i[q]
  <1> USE DEF HarnessTypeOK
  <1>1. round[p] \in Nat /\ i[p] \in Nat /\ round[p] < TotalRounds /\ i[p] < RecordPerRound
    BY DEF LoopInv, Sending
  <1>2. CASE i[p] + 1 = RecordPerRound
    <2>1. i'[p] = 0 /\ round'[p] = round[p] + 1
      BY <1>2 DEF NextMsg
    <2>2. Finished(p)' = Finished(p) + 1
      BY <1>1, <1>2, <2>1 DEF Finished
    <2>3. ppc'[p] = IF round[p] + 1 = TotalRounds THEN "done" ELSE "begin"
      BY <1>2 DEF NextMsg
    <2>4. round[p] + 1 = TotalRounds => Finished(p)' = Count
      BY <1>1, <2>1 DEF Finished, Count
    <2> QED
      BY <1>1, <1>2, <2>1, <2>2, <2>3, <2>4 DEF NextMsg
  <1>3. CASE i[p] + 1 # RecordPerRound
    <2>1. i'[p] = i[p] + 1 /\ round'[p] = round[p] /\ ppc'[p] = "begin"
      BY <1>3 DEF NextMsg
    <2>2. Finished(p)' = Finished(p) + 1
      BY <1>1, <2>1 DEF Finished
    <2> QED
      BY <1>1, <1>3, <2>1, <2>2 DEF NextMsg
  <1> QED
    BY <1>2, <1>3

--------------------------------------------------------------------------------
(* The message of a producer.                                                   *)

\* The message a producer works on is the next of its slice.
LEMMA MsgIdInSlice ==
  ASSUME TypeOK, LoopInv, NEW p \in Producers, Sending(p)
  PROVE  /\ Finished(p) \in 0 .. Count - 1
         /\ MsgId(p) = IdOf(p, Finished(p))
         /\ MsgId(p) \in Ids
  BY CurrentMessage DEF TypeOK

--------------------------------------------------------------------------------
(* The first layer: types, the loops of the producers, and where a producer    *)
(* may be in each phase of the main thread.                                    *)

BaseInv == TypeOK /\ LoopInv /\ ProducerPhaseInv /\ HeldInv

LEMMA BaseInit == Init => BaseInv
  <1> SUFFICES ASSUME Init PROVE BaseInv
    OBVIOUS
  <1> USE DEF Init, HarnessInit
  <1>1. TypeOK
    BY DEF TypeOK, HarnessTypeOK, Phases
  <1>2. LoopInv
    BY DEF LoopInv, Sending
  <1>3. ProducerPhaseInv
    BY DEF ProducerPhaseInv, BeforeProducers, AfterProducers, Over
  <1>4. HeldInv
    BY DEF HeldInv
  <1> QED
    BY <1>1, <1>2, <1>3, <1>4 DEF BaseInv

\* A turn of NextMsg moves to the next message of the producer.
LEMMA NextMsgStep ==
  ASSUME TypeOK, LoopInv, NEW p \in Producers, ppc[p] = "end", NextMsg(p)
  PROVE  /\ i' \in [Producers -> 0 .. RecordPerRound]
         /\ round' \in [Producers -> 0 .. TotalRounds]
         /\ ppc' \in [Producers -> {"unborn", "begin", "write", "end", "done"}]
         /\ Finished(p)' = Finished(p) + 1
         /\ ppc'[p] = "begin" => round'[p] < TotalRounds /\ i'[p] < RecordPerRound
         /\ ppc'[p] = "done" => Finished(p)' = Count
         /\ ppc'[p] \in {"begin", "done"}
         /\ \A q \in Producers \ {p} : ppc'[q] = ppc[q] /\ round'[q] = round[q] /\ i'[q] = i[q]
  BY LoopTurn DEF TypeOK

\* What of the base invariant the transport's variables cannot disturb.
LEMMA BaseFrame ==
  ASSUME BaseInv, UNCHANGED <<main, n, ppc, round, i>>
  PROVE  (LoopInv /\ ProducerPhaseInv)'
  BY DEF BaseInv, LoopInv, ProducerPhaseInv, Sending, Finished, ProducersDone

\* A message the queue hands out is a message of the benchmark or the id -1.
LEMMA QueueOps ==
  ASSUME TypeOK
  PROVE  /\ \A k \in 1 .. Len(queue) : queue[k] \in Ids \cup {Poison}
         /\ \A id \in Ids \cup {Poison} : Enqueue(id) =>
              /\ queue' \in Seq(Ids \cup {Poison})
              /\ Len(queue') = Len(queue) + 1
              /\ Len(queue') <= Capacity
              /\ queue'[Len(queue) + 1] = id
              /\ \A k \in 1 .. Len(queue) : queue'[k] = queue[k]
         /\ queue # <<>> /\ queue' = Tail(queue) =>
              /\ queue' \in Seq(Ids \cup {Poison})
              /\ Len(queue) \in Nat \ {0}
              /\ Len(queue') = Len(queue) - 1
              /\ Len(queue') <= Capacity
              /\ Head(queue) = queue[1]
              /\ Head(queue) \in Ids \cup {Poison}
              /\ \A k \in 1 .. Len(queue') : queue'[k] = queue[k + 1]
  <1> DEFINE Elems == Ids \cup {Poison}
  <1>1. queue \in Seq(Elems) /\ Len(queue) <= Capacity /\ Len(queue) \in Nat
    BY DEF TypeOK
  <1>2. ASSUME NEW id \in Elems, Enqueue(id)
        PROVE  /\ queue' \in Seq(Elems)
               /\ Len(queue') = Len(queue) + 1
               /\ Len(queue') <= Capacity
               /\ queue'[Len(queue) + 1] = id
               /\ \A k \in 1 .. Len(queue) : queue'[k] = queue[k]
    <2> HIDE DEF Elems
    <2> QED
      BY <1>1, <1>2 DEF Enqueue, HasRoom
  <1>3. ASSUME queue # <<>>, queue' = Tail(queue)
        PROVE  /\ queue' \in Seq(Elems)
               /\ Len(queue) \in Nat \ {0}
               /\ Len(queue') = Len(queue) - 1
               /\ Len(queue') <= Capacity
               /\ Head(queue) = queue[1]
               /\ Head(queue) \in Elems
               /\ \A k \in 1 .. Len(queue') : queue'[k] = queue[k + 1]
    <2> HIDE DEF Elems
    <2> QED
      BY <1>1, <1>3
  <1>4. \A k \in 1 .. Len(queue) : queue[k] \in Elems
    <2> HIDE DEF Elems
    <2> QED
      BY <1>1
  <1> QED
    BY <1>2, <1>3, <1>4

LEMMA BaseStep == BaseInv /\ [Next]_vars => BaseInv'
  <1> SUFFICES ASSUME BaseInv, [Next]_vars
               PROVE  BaseInv'
    OBVIOUS
  <1> USE DEF BaseInv, loopVars, producerVars, recordVars, harnessVars, consumerVars
  <1>1. ASSUME NEW p \in Producers, BeginWrite(p)
        PROVE  BaseInv'
    <2>1. ppc[p] = "begin" /\ MsgId(p) \in Ids
      BY <1>1, MsgIdInSlice DEF BeginWrite, StampBegin, Sending
    <2>2. TypeOK'
      BY <1>1, <2>1 DEF BeginWrite, StampBegin, TypeOK, HarnessTypeOK
    <2>3. LoopInv'
      BY <1>1, <2>1 DEF BeginWrite, StampBegin, LoopInv, Sending, Finished, TypeOK, HarnessTypeOK
    <2>4. ProducerPhaseInv'
      BY <1>1, <2>1 DEF BeginWrite, StampBegin, ProducerPhaseInv, ProducersDone, TypeOK, HarnessTypeOK
    <2>5. HeldInv'
      BY <1>1 DEF BeginWrite, HeldInv
    <2> QED
      BY <2>2, <2>3, <2>4, <2>5
  <1>2. ASSUME NEW p \in Producers, Write(p)
        PROVE  BaseInv'
    <2>1. ppc[p] = "write" /\ MsgId(p) \in Ids
      BY <1>2, MsgIdInSlice DEF Write, Sending
    <2>2. TypeOK'
      BY <1>2, <2>1, QueueOps DEF Write, TypeOK, HarnessTypeOK
    <2>3. LoopInv'
      BY <1>2, <2>1 DEF Write, LoopInv, Sending, Finished, TypeOK, HarnessTypeOK
    <2>4. ProducerPhaseInv'
      BY <1>2, <2>1 DEF Write, ProducerPhaseInv, ProducersDone, TypeOK, HarnessTypeOK
    <2>5. HeldInv'
      BY <1>2 DEF Write, HeldInv
    <2> QED
      BY <2>2, <2>3, <2>4, <2>5
  <1>3. ASSUME NEW p \in Producers, FinishWrite(p)
        PROVE  BaseInv'
    <2>1. ppc[p] = "end" /\ MsgId(p) \in Ids /\ NextMsg(p)
      BY <1>3, MsgIdInSlice DEF FinishWrite, EndWrite, Sending
    <2>2. TypeOK'
      <3>1. beg[p] \in Nat /\ stamps[MsgId(p)] \in Nat
        BY <2>1 DEF TypeOK, HarnessTypeOK
      <3>2. stamps' \in [Ids -> Nat]
        BY <1>3, <2>1, <3>1 DEF FinishWrite, EndWrite, TypeOK, HarnessTypeOK
      <3>3. records' \in [Actions -> [Ids -> Nat \cup {NoRecord}]]
        BY <1>3, <2>1, <3>1 DEF FinishWrite, EndWrite, TypeOK, HarnessTypeOK, Actions
      <3> QED
        BY <1>3, <2>1, <3>2, <3>3, NextMsgStep DEF FinishWrite, EndWrite, TypeOK, HarnessTypeOK
    <2>3. LoopInv'
      <3>1. /\ ppc'[p] \in {"begin", "done"}
            /\ ppc'[p] = "begin" => round'[p] < TotalRounds /\ i'[p] < RecordPerRound
            /\ ppc'[p] = "done" => Finished(p)' = Count
            /\ \A q \in Producers \ {p} :
                 ppc'[q] = ppc[q] /\ round'[q] = round[q] /\ i'[q] = i[q]
        BY <2>1, NextMsgStep, Zenon
      <3> QED
        BY <3>1 DEF LoopInv, Sending, Finished
    <2>4. ProducerPhaseInv'
      BY <1>3, <2>1, NextMsgStep DEF FinishWrite, EndWrite, ProducerPhaseInv, ProducersDone, TypeOK, HarnessTypeOK
    <2>5. HeldInv'
      BY <1>3 DEF FinishWrite, HeldInv
    <2> QED
      BY <2>2, <2>3, <2>4, <2>5
  <1>4. ASSUME NEW c \in Consumers, TakeMessage(c) \/ TakePoison(c)
        PROVE  BaseInv'
    <2>1. TypeOK'
      <3>1. /\ queue' \in Seq(Ids \cup {Poison})
            /\ Len(queue') <= Capacity
            /\ Head(queue) \in Ids \cup {Poison}
        BY <1>4, QueueOps DEF TakeMessage, TakePoison
      <3>2. /\ cpc' \in [Consumers -> {"unborn", "take", "record", "done"}]
            /\ held' \in [Consumers -> Ids \cup {Poison}]
        BY <1>4, <3>1 DEF TakeMessage, TakePoison, TypeOK
      <3> QED
        BY <1>4, <3>1, <3>2 DEF TakeMessage, TakePoison, TypeOK, HarnessTypeOK
    <2>2. HeldInv'
      BY <1>4, QueueOps DEF TakeMessage, TakePoison, HeldInv, TypeOK
    <2> QED
      BY <1>4, <2>1, <2>2, BaseFrame DEF TakeMessage, TakePoison
  <1>5. ASSUME NEW c \in Consumers, RecordMessage(c)
        PROVE  BaseInv'
    <2>1. held[c] \in Ids
      BY <1>5 DEF RecordMessage, HeldInv
    <2>2. /\ stamps' \in [Ids -> Nat]
          /\ records' \in [Actions -> [Ids -> Nat \cup {NoRecord}]]
      BY <1>5, <2>1 DEF RecordMessage, RecordRead, TypeOK, HarnessTypeOK, Actions
    <2>3. TypeOK'
      BY <1>5, <2>2 DEF RecordMessage, TypeOK, HarnessTypeOK
    <2>4. HeldInv'
      BY <1>5 DEF RecordMessage, HeldInv, TypeOK
    <2> QED
      BY <1>5, <2>3, <2>4, BaseFrame DEF RecordMessage
  <1>6. CASE StartConsumer
    <2>1. TypeOK' /\ HeldInv'
      <3>1. TypeOK'
        <4>1. n' \in Nat /\ main' = main
          BY <1>6 DEF StartConsumer, Turn, TypeOK, HarnessTypeOK
        <4>2. cpc' \in [Consumers -> {"unborn", "take", "record", "done"}]
          BY <1>6 DEF StartConsumer, TypeOK
        <4> QED
          BY <1>6, <4>1, <4>2 DEF StartConsumer, TypeOK, HarnessTypeOK
      <3>2. HeldInv'
        BY <1>6 DEF StartConsumer, Turn, TypeOK, HeldInv
      <3> QED
        BY <3>1, <3>2
    <2>2. LoopInv'
      BY <1>6 DEF StartConsumer, LoopInv, Sending, Finished
    <2>3. ProducerPhaseInv'
      BY <1>6 DEF StartConsumer, Turn, ProducerPhaseInv, BeforeProducers, AfterProducers, Over
    <2> QED
      BY <2>1, <2>2, <2>3
  <1>7. CASE StartProducer /\ UNCHANGED <<queue, consumerVars>>
    <2>1. n \in Producers /\ ppc[n] = "unborn" /\ main = "producers"
      BY <1>7 DEF StartProducer, Turn, ProducerPhaseInv, BeforeProducers, TypeOK, HarnessTypeOK, Producers
    <2>2. TypeOK' /\ HeldInv'
      <3>1. TypeOK'
        <4>1. n' \in Nat /\ main' = main
          BY <1>7 DEF StartProducer, Turn, TypeOK, HarnessTypeOK
        <4>2. ppc' \in [Producers -> {"unborn", "begin", "write", "end", "done"}]
          BY <1>7 DEF StartProducer, TypeOK, HarnessTypeOK
        <4> QED
          BY <1>7, <4>1, <4>2 DEF StartProducer, TypeOK, HarnessTypeOK
      <3>2. HeldInv'
        BY <1>7 DEF HeldInv
      <3> QED
        BY <3>1, <3>2
    <2>3. LoopInv'
      <3>1. round[n] = 0 /\ i[n] = 0
        BY <2>1 DEF LoopInv
      <3>2. Count > 0 => TotalRounds > 0 /\ RecordPerRound > 0
        BY DEF Count
      <3>3. Finished(n) = 0
        BY <3>1 DEF Finished
      <3> QED
        BY <1>7, <2>1, <3>1, <3>2, <3>3, CountType DEF StartProducer, LoopInv, Sending, Finished, TypeOK, HarnessTypeOK
    <2>4. ProducerPhaseInv'
      BY <1>7, <2>1 DEF StartProducer, Turn, ProducerPhaseInv, BeforeProducers, AfterProducers, Over,
                       TypeOK, HarnessTypeOK, Producers
    <2> QED
      BY <2>2, <2>3, <2>4
  <1>8. CASE JoinProducer /\ UNCHANGED <<queue, consumerVars>>
    <2>1. TypeOK' /\ HeldInv' /\ LoopInv'
      BY <1>8 DEF JoinProducer, Turn, TypeOK, HarnessTypeOK, HeldInv, LoopInv, Sending, Finished
    <2>2. ProducerPhaseInv'
      BY <1>8 DEF JoinProducer, Turn, ProducerPhaseInv, BeforeProducers, AfterProducers, Over,
                  TypeOK, HarnessTypeOK, Producers
    <2> QED
      BY <2>1, <2>2
  <1>9. CASE GenReport /\ UNCHANGED <<queue, consumerVars>>
    <2>1. TypeOK' /\ HeldInv' /\ LoopInv'
      BY <1>9 DEF GenReport, TypeOK, HarnessTypeOK, Phases, HeldInv, LoopInv, Sending, Finished
    <2>2. ProducerPhaseInv'
      BY <1>9 DEF GenReport, ProducerPhaseInv, BeforeProducers, AfterProducers, Over, ProducersDone
    <2> QED
      BY <2>1, <2>2
  <1>10. CASE PutPoison
    <2>1. TypeOK'
      BY <1>10, QueueOps DEF PutPoison, Turn, TypeOK, HarnessTypeOK
    <2>2. HeldInv' /\ LoopInv'
      BY <1>10 DEF PutPoison, HeldInv, LoopInv, Sending, Finished
    <2>3. ProducerPhaseInv'
      BY <1>10 DEF PutPoison, Turn, ProducerPhaseInv, BeforeProducers, AfterProducers, Over, ProducersDone
    <2> QED
      BY <2>1, <2>2, <2>3
  <1>11. CASE JoinConsumer
    <2>1. TypeOK' /\ HeldInv' /\ LoopInv'
      BY <1>11 DEF JoinConsumer, Turn, TypeOK, HarnessTypeOK, HeldInv, LoopInv, Sending, Finished
    <2>2. ProducerPhaseInv'
      BY <1>11 DEF JoinConsumer, Turn, ProducerPhaseInv, BeforeProducers, AfterProducers, Over, ProducersDone
    <2> QED
      BY <2>1, <2>2
  <1>12. CASE NextPhase
    <2>1. TypeOK' /\ HeldInv' /\ LoopInv'
      BY <1>12 DEF NextPhase, Leave, TypeOK, HarnessTypeOK, Phases, HeldInv, LoopInv, Sending, Finished
    <2>2. ProducerPhaseInv'
      BY <1>12 DEF NextPhase, Leave, ProducerPhaseInv, BeforeProducers, AfterProducers, Over,
                   ProducersDone, Producers
    <2> QED
      BY <2>1, <2>2
  <1>13. CASE UNCHANGED vars
    BY <1>13, BaseFrame DEF vars, TypeOK, HarnessTypeOK, HeldInv
  <1> QED
    BY <1>1, <1>2, <1>3, <1>4, <1>5, <1>6, <1>7, <1>8, <1>9, <1>10, <1>11, <1>12, <1>13
    DEF Next, Main, Producer, Consumer, Exited

--------------------------------------------------------------------------------
(* The second layer: when messages with id -1 are sent, and which consumers    *)
(* have stopped.                                                               *)

StopInv == ConsumerPhaseInv /\ PoisonInv

LEMMA StopInit == Init => StopInv
  BY DEF Init, HarnessInit, StopInv, ConsumerPhaseInv, PoisonInv, NothingBehindPoison,
         InQueue, Over, AfterProducers

\* Steps that leave the queue and the consumers alone and do not go back.
LEMMA StopFrame ==
  ASSUME StopInv, UNCHANGED <<main, n, queue, cpc>>
  PROVE  StopInv'
  BY DEF StopInv, ConsumerPhaseInv, PoisonInv, NothingBehindPoison, InQueue

LEMMA PoisonKept ==
  ASSUME PoisonInv, UNCHANGED <<queue, cpc>>, main \in AfterProducers => main' \in AfterProducers
  PROVE  PoisonInv'
  BY DEF PoisonInv, NothingBehindPoison, InQueue

LEMMA StopStep == BaseInv /\ StopInv /\ [Next]_vars => StopInv'
  <1> SUFFICES ASSUME BaseInv, StopInv, [Next]_vars
               PROVE  StopInv'
    OBVIOUS
  <1> USE DEF loopVars, producerVars, recordVars, harnessVars, consumerVars
  <1>0. TypeOK /\ ProducerPhaseInv /\ ConsumerPhaseInv /\ PoisonInv
    BY DEF BaseInv, StopInv
  <1>1. ASSUME NEW p \in Producers, BeginWrite(p) \/ FinishWrite(p)
        PROVE  StopInv'
    BY <1>1, StopFrame DEF BeginWrite, StampBegin, FinishWrite, EndWrite
  <1>2. ASSUME NEW p \in Producers, Write(p)
        PROVE  StopInv'
    <2>1. main \notin AfterProducers
      BY <1>0, <1>2 DEF Write, ProducerPhaseInv, ProducersDone
    <2>2. MsgId(p) \in Ids
      BY <1>2, MsgIdInSlice DEF BaseInv, Write, Sending
    <2>3. \A k \in 1 .. Len(queue') : queue'[k] # Poison
      <3>1. \A k \in 1 .. Len(queue) : queue[k] # Poison
        BY <1>0, <2>1 DEF PoisonInv, InQueue
      <3>2. MsgId(p) # Poison
        BY <2>2, CountType DEF Ids, Poison
      <3>3. Len(queue) \in Nat
        BY <1>0 DEF TypeOK
      <3> QED
        BY <1>0, <1>2, <2>2, <3>1, <3>2, <3>3, QueueOps DEF Write
    <2>4. PoisonInv'
      BY <1>0, <1>2, <2>1, <2>3 DEF Write, PoisonInv, NothingBehindPoison, InQueue
    <2>5. ConsumerPhaseInv'
      BY <1>0, <1>2 DEF Write, ConsumerPhaseInv
    <2> QED
      BY <2>4, <2>5 DEF StopInv
  <1>3. ASSUME NEW c \in Consumers, TakeMessage(c)
        PROVE  StopInv'
    <2>1. /\ Len(queue) \in Nat \ {0}
          /\ Len(queue') = Len(queue) - 1
          /\ queue[1] # Poison
          /\ \A k \in 1 .. Len(queue') : queue'[k] = queue[k + 1]
      BY <1>0, <1>3, QueueOps, Zenon DEF TakeMessage
    <2>2. \A d \in Consumers : cpc[d] # "done"
      BY <1>0, <2>1 DEF PoisonInv
    <2>3. \A d \in Consumers : cpc'[d] # "done" /\ (cpc[d] = "unborn" => cpc'[d] = "unborn")
      BY <1>0, <1>3, <2>2 DEF TakeMessage, TypeOK
    <2>4. PoisonInv'
      <3>1. NothingBehindPoison'
        BY <1>0, <2>1 DEF PoisonInv, NothingBehindPoison
      <3>2. InQueue(Poison)' => InQueue(Poison)
        BY <2>1 DEF InQueue
      <3> QED
        BY <1>0, <1>3, <2>3, <3>1, <3>2 DEF TakeMessage, PoisonInv
    <2>5. ConsumerPhaseInv'
      BY <1>0, <1>3, <2>2, <2>3 DEF TakeMessage, ConsumerPhaseInv
    <2> QED
      BY <2>4, <2>5 DEF StopInv
  <1>4. ASSUME NEW c \in Consumers, TakePoison(c)
        PROVE  StopInv'
    <2>1. /\ Len(queue) \in Nat \ {0}
          /\ Len(queue') = Len(queue) - 1
          /\ queue[1] = Poison
          /\ \A k \in 1 .. Len(queue') : queue'[k] = queue[k + 1]
      BY <1>0, <1>4, QueueOps, Zenon DEF TakePoison
    <2>2. main \in AfterProducers
      BY <1>0, <2>1 DEF PoisonInv, InQueue
    <2>3. \A k \in 1 .. Len(queue') : queue'[k] = Poison
      BY <1>0, <2>1 DEF PoisonInv, NothingBehindPoison
    <2>4. PoisonInv'
      BY <1>4, <2>2, <2>3 DEF TakePoison, PoisonInv, NothingBehindPoison, InQueue
    <2>5. cpc'[c] = "done" /\ \A d \in Consumers \ {c} : cpc'[d] = cpc[d]
      BY <1>0, <1>4 DEF TakePoison, TypeOK
    <2>6. ConsumerPhaseInv'
      BY <1>0, <1>4, <2>2, <2>5 DEF TakePoison, ConsumerPhaseInv, AfterProducers, Over
    <2> QED
      BY <2>4, <2>6 DEF StopInv
  <1>5. ASSUME NEW c \in Consumers, RecordMessage(c)
        PROVE  StopInv'
    <2>1. cpc[c] = "record" /\ cpc'[c] = "take" /\ \A d \in Consumers \ {c} : cpc'[d] = cpc[d]
      BY <1>0, <1>5 DEF RecordMessage, TypeOK
    <2>2. PoisonInv'
      BY <1>0, <1>5, <2>1 DEF RecordMessage, PoisonInv, NothingBehindPoison, InQueue
    <2>3. ConsumerPhaseInv'
      BY <1>0, <1>5, <2>1 DEF RecordMessage, ConsumerPhaseInv
    <2> QED
      BY <2>2, <2>3 DEF StopInv
  <1>6. CASE StartConsumer
    <2>1. /\ main = "consumers" /\ n \in Nat /\ n' = n + 1
          /\ \A d \in Consumers : cpc'[d] = "done" => cpc[d] = "done"
          /\ \A d \in Consumers : d # n => cpc'[d] = cpc[d]
      BY <1>0, <1>6 DEF StartConsumer, Turn, TypeOK, HarnessTypeOK
    <2>2. PoisonInv'
      BY <1>0, <1>6, <2>1 DEF StartConsumer, Turn, PoisonInv, NothingBehindPoison, InQueue
    <2>3. ConsumerPhaseInv'
      BY <1>0, <1>6, <2>1 DEF StartConsumer, Turn, ConsumerPhaseInv, Consumers, Over
    <2> QED
      BY <2>2, <2>3 DEF StopInv
  <1>7. CASE (StartProducer \/ JoinProducer) /\ UNCHANGED <<queue, consumerVars>>
    <2>1. PoisonInv'
      BY <1>0, <1>7, PoisonKept DEF StartProducer, JoinProducer, Turn
    <2>2. ConsumerPhaseInv'
      BY <1>0, <1>7 DEF StartProducer, JoinProducer, Turn, ConsumerPhaseInv, Over
    <2> QED
      BY <2>1, <2>2 DEF StopInv
  <1>8. CASE GenReport /\ UNCHANGED <<queue, consumerVars>>
    <2>1. PoisonInv'
      BY <1>0, <1>8, PoisonKept DEF GenReport, AfterProducers, Over
    <2>2. ConsumerPhaseInv'
      BY <1>0, <1>8 DEF GenReport, ConsumerPhaseInv, Over
    <2> QED
      BY <2>1, <2>2 DEF StopInv
  <1>9. CASE PutPoison
    <2>1. main = "completed" /\ main' = "completed" /\ main \in AfterProducers
      BY <1>9 DEF PutPoison, Turn, AfterProducers
    <2>2. /\ Len(queue) \in Nat
          /\ Len(queue') = Len(queue) + 1
          /\ queue'[Len(queue) + 1] = Poison
          /\ \A k \in 1 .. Len(queue) : queue'[k] = queue[k]
      <3>1. Len(queue) \in Nat
        BY <1>0 DEF TypeOK
      <3> QED
        BY <1>0, <1>9, <3>1, QueueOps DEF PutPoison
    <2>3. NothingBehindPoison'
      BY <1>0, <2>2 DEF PoisonInv, NothingBehindPoison
    <2>4. \A c \in Consumers : cpc[c] = "done" => \A k \in 1 .. Len(queue') : queue'[k] = Poison
      BY <1>0, <2>2 DEF PoisonInv
    <2>5. PoisonInv'
      BY <1>9, <2>1, <2>3, <2>4 DEF PutPoison, PoisonInv
    <2>6. ConsumerPhaseInv'
      BY <1>9, <2>1 DEF PutPoison, ConsumerPhaseInv, Over
    <2> QED
      BY <2>5, <2>6 DEF StopInv
  <1>10. CASE JoinConsumer
    <2>1. PoisonInv'
      BY <1>0, <1>10, PoisonKept DEF JoinConsumer, Turn
    <2>2. ConsumerPhaseInv'
      BY <1>0, <1>10 DEF JoinConsumer, Turn, ConsumerPhaseInv, Over, Consumers, TypeOK, HarnessTypeOK
    <2> QED
      BY <2>1, <2>2 DEF StopInv
  <1>11. CASE NextPhase
    <2>1. PoisonInv'
      BY <1>0, <1>11, PoisonKept DEF NextPhase, Leave, AfterProducers, Over
    <2>2. ConsumerPhaseInv'
      BY <1>0, <1>11 DEF NextPhase, Leave, ConsumerPhaseInv, Over, Consumers
    <2> QED
      BY <2>1, <2>2 DEF StopInv
  <1>12. CASE UNCHANGED vars
    BY <1>12, StopFrame DEF vars
  <1> QED
    BY <1>1, <1>2, <1>3, <1>4, <1>5, <1>6, <1>7, <1>8, <1>9, <1>10, <1>11, <1>12
    DEF Next, Main, Producer, Consumer, Exited

--------------------------------------------------------------------------------
(* The third layer: every message is in one place, and somewhere exactly when  *)
(* it has been sent.                                                           *)

PlaceInv == OnePlace /\ SentInv

LEMMA PlaceInit == Init => PlaceInv
  <1> SUFFICES ASSUME Init PROVE PlaceInv
    OBVIOUS
  <1>1. \A p \in Producers : Sent(p) = 0
    BY DEF Init, HarnessInit, Sent, Finished
  <1>2. \A id \in Ids : ~InQueue(id) /\ ~Held(id) /\ ~IsRead(id)
    BY DEF Init, HarnessInit, InQueue, Held, HeldBy, IsRead, Recorded, Actions
  <1>3. OnePlace
    BY <1>2 DEF Init, OnePlace, HeldBy
  <1>4. SentInv
    BY <1>1, <1>2, IdOfType DEF SentInv, Taken
  <1> QED
    BY <1>3, <1>4 DEF PlaceInv

\* Steps that move no message and send none.
LEMMA PlaceFrame ==
  ASSUME PlaceInv, UNCHANGED <<queue, cpc, held>>, records'["read"] = records["read"],
         \A p \in Producers : Sent(p)' = Sent(p)
  PROVE  PlaceInv'
  <1>1. \A id : InQueue(id)' = InQueue(id) /\ Held(id)' = Held(id) /\ IsRead(id)' = IsRead(id)
    BY DEF InQueue, Held, HeldBy, IsRead, Recorded
  <1>2. OnePlace'
    BY <1>1 DEF PlaceInv, OnePlace, HeldBy, Taken
  <1>3. SentInv'
    <2> SUFFICES ASSUME NEW p \in Producers, NEW k \in (0 .. Count - 1)'
                 PROVE  (k < Sent(p) <=> InQueue(IdOf(p, k)) \/ Taken(IdOf(p, k)))'
      BY DEF SentInv
    <2>1. IdOf(p, k)' = IdOf(p, k)
      BY DEF IdOf, Count
    <2> QED
      BY <1>1, <2>1 DEF PlaceInv, SentInv, Taken, Count
  <1> QED
    BY <1>2, <1>3 DEF PlaceInv

\* Steps that move messages and send none.
LEMMA SentKept ==
  ASSUME SentInv, \A p \in Producers : Sent(p)' = Sent(p),
         \A id \in Ids : InQueue(id)' \/ Taken(id)' <=> InQueue(id) \/ Taken(id)
  PROVE  SentInv'
  <1> SUFFICES ASSUME NEW p \in Producers, NEW k \in 0 .. Count - 1
               PROVE  k < Sent(p)' <=> InQueue(IdOf(p, k))' \/ Taken(IdOf(p, k))'
    BY DEF SentInv, IdOf, Count, Taken, Held, HeldBy, IsRead, Recorded, InQueue
  <1> QED
    BY IdOfType DEF SentInv

LEMMA PlaceStep == BaseInv /\ StopInv /\ PlaceInv /\ [Next]_vars => PlaceInv'
  <1> SUFFICES ASSUME BaseInv, StopInv, PlaceInv, [Next]_vars
               PROVE  PlaceInv'
    OBVIOUS
  <1> USE DEF loopVars, producerVars, recordVars, harnessVars, consumerVars
  <1>0. TypeOK /\ LoopInv /\ HeldInv /\ OnePlace /\ SentInv
    BY DEF BaseInv, PlaceInv
  <1>id. \A id \in Ids : id # Poison
    BY CountType DEF Ids, Poison
  <1>1. ASSUME NEW p \in Producers, BeginWrite(p)
        PROVE  PlaceInv'
    <2>1. \A q \in Producers : Sent(q)' = Sent(q)
      BY <1>0, <1>1 DEF BeginWrite, StampBegin, Sent, Finished, TypeOK, HarnessTypeOK
    <2> QED
      BY <1>1, <2>1, PlaceFrame DEF BeginWrite, StampBegin
  <1>2. ASSUME NEW p \in Producers, FinishWrite(p)
        PROVE  PlaceInv'
    <2>1. ppc[p] = "end" /\ NextMsg(p)
      BY <1>2 DEF FinishWrite, EndWrite
    <2>2. \A q \in Producers : Sent(q)' = Sent(q)
      BY <1>0, <2>1, NextMsgStep DEF Sent, Finished
    <2>3. records'["read"] = records["read"]
      BY <1>0, <1>2 DEF FinishWrite, EndWrite, TypeOK, HarnessTypeOK, Actions
    <2> QED
      BY <1>2, <2>2, <2>3, PlaceFrame DEF FinishWrite, EndWrite
  <1>3. ASSUME NEW p \in Producers, Write(p)
        PROVE  PlaceInv'
    <2> DEFINE msg == MsgId(p)
    <2>1. ppc[p] = "write" /\ Finished(p) \in 0 .. Count - 1 /\ msg = IdOf(p, Finished(p)) /\ msg \in Ids
      BY <1>0, <1>3, MsgIdInSlice DEF Write, Sending
    <2>2. ~InQueue(msg) /\ ~Taken(msg)
      BY <1>0, <2>1 DEF SentInv, Sent
    <2>3. /\ Len(queue) \in Nat
          /\ Len(queue') = Len(queue) + 1
          /\ queue'[Len(queue) + 1] = msg
          /\ \A k \in 1 .. Len(queue) : queue'[k] = queue[k]
      <3>1. Len(queue) \in Nat
        BY <1>0 DEF TypeOK
      <3> QED
        BY <1>0, <1>3, <2>1, <3>1, QueueOps DEF Write
    <2>4. \A id : InQueue(id)' <=> InQueue(id) \/ id = msg
      <3> HIDE DEF msg
      <3> QED
        BY <2>3 DEF InQueue
    <2>5. \A id : Held(id)' = Held(id) /\ IsRead(id)' = IsRead(id)
      BY <1>3 DEF Write, Held, HeldBy, IsRead, Recorded
    <2>6. OnePlace'
      <3>1. \A k, l \in 1 .. Len(queue') : queue'[k] = queue'[l] /\ queue'[k] # Poison => k = l
        <4> HIDE DEF msg
        <4> QED
          BY <1>0, <2>2, <2>3 DEF OnePlace, InQueue
      <3>2. \A id \in Ids : InQueue(id)' => ~Taken(id)'
        BY <1>0, <2>2, <2>4, <2>5 DEF OnePlace, Taken
      <3>3. UNCHANGED <<cpc, held>>
        BY <1>3 DEF Write
      <3> QED
        BY <1>0, <2>5, <3>1, <3>2, <3>3 DEF OnePlace, HeldBy
    <2>7. SentInv'
      <3> SUFFICES ASSUME NEW q \in Producers, NEW k \in 0 .. Count - 1
                   PROVE  k < Sent(q)' <=> InQueue(IdOf(q, k))' \/ Taken(IdOf(q, k))'
        BY DEF SentInv, IdOf, Count, Taken, Held, HeldBy, IsRead, Recorded, InQueue
      <3>1. Sent(p) = Finished(p) /\ Sent(p)' = Finished(p) + 1
        BY <1>0, <1>3, <2>1 DEF Write, Sent, Finished, TypeOK, HarnessTypeOK
      <3>2. q # p => Sent(q)' = Sent(q)
        BY <1>0, <1>3 DEF Write, Sent, Finished, TypeOK, HarnessTypeOK
      <3>3. k < Sent(q) <=> InQueue(IdOf(q, k)) \/ Taken(IdOf(q, k))
        BY <1>0 DEF SentInv
      <3>4. IdOf(q, k) = msg <=> q = p /\ k = Finished(p)
        BY <2>1, IdOfUnique
      <3>5. k < Sent(q)' <=> k < Sent(q) \/ (q = p /\ k = Finished(p))
        BY <2>1, <3>1, <3>2
      <3> QED
        BY <2>4, <2>5, <3>3, <3>4, <3>5 DEF Taken
    <2> QED
      BY <2>6, <2>7 DEF PlaceInv
  <1>4. ASSUME NEW c \in Consumers, TakeMessage(c)
        PROVE  PlaceInv'
    <2> DEFINE msg == Head(queue)
    <2>1. /\ Len(queue) \in Nat \ {0}
          /\ Len(queue') = Len(queue) - 1
          /\ queue[1] = msg
          /\ msg \in Ids
          /\ \A k \in 1 .. Len(queue') : queue'[k] = queue[k + 1]
      BY <1>0, <1>4, QueueOps, Zenon DEF TakeMessage
    <2> HIDE DEF msg
    <2>2. InQueue(msg) /\ ~Taken(msg)
      BY <1>0, <2>1 DEF OnePlace, InQueue
    <2>3. \A id \in Ids : InQueue(id)' <=> InQueue(id) /\ id # msg
      <3> SUFFICES ASSUME NEW id \in Ids
                   PROVE  InQueue(id)' <=> InQueue(id) /\ id # msg
        OBVIOUS
      <3>1. ASSUME InQueue(id)'
            PROVE  InQueue(id) /\ id # msg
        <4>1. PICK k \in 1 .. Len(queue') : queue'[k] = id
          BY <3>1 DEF InQueue
        <4>2. queue[k + 1] = id /\ k + 1 \in 1 .. Len(queue) /\ k + 1 # 1 /\ 1 \in 1 .. Len(queue)
          BY <2>1, <4>1
        <4>3. id # msg
          BY <1>0, <1>id, <2>1, <4>2 DEF OnePlace
        <4> QED
          BY <4>2, <4>3 DEF InQueue
      <3>2. ASSUME InQueue(id), id # msg
            PROVE  InQueue(id)'
        <4>1. PICK k \in 1 .. Len(queue) : queue[k] = id
          BY <3>2 DEF InQueue
        <4>2. k - 1 \in 1 .. Len(queue') /\ queue'[k - 1] = id
          BY <2>1, <3>2, <4>1
        <4> QED
          BY <4>2 DEF InQueue
      <3> QED
        BY <3>1, <3>2
    <2>4. /\ \A id : ~HeldBy(c, id)
          /\ \A id : HeldBy(c, id)' <=> id = msg
          /\ \A d \in Consumers \ {c}, id \in Ids : HeldBy(d, id)' = HeldBy(d, id)
      BY <1>0, <1>4 DEF TakeMessage, HeldBy, TypeOK, msg
    <2>5. \A id \in Ids : Held(id)' <=> Held(id) \/ id = msg
      BY <2>4 DEF Held
    <2>6. \A id : IsRead(id)' = IsRead(id)
      BY <1>4 DEF TakeMessage, IsRead, Recorded
    <2>7. OnePlace'
      <3>1. \A k, l \in 1 .. Len(queue') : queue'[k] = queue'[l] /\ queue'[k] # Poison => k = l
        <4> SUFFICES ASSUME NEW k \in 1 .. Len(queue'), NEW l \in 1 .. Len(queue'),
                            queue'[k] = queue'[l], queue'[k] # Poison
                     PROVE  k = l
          OBVIOUS
        <4>1. /\ k + 1 \in 1 .. Len(queue) /\ l + 1 \in 1 .. Len(queue)
              /\ queue'[k] = queue[k + 1] /\ queue'[l] = queue[l + 1]
          BY <2>1
        <4>2. k + 1 = l + 1
          BY <1>0, <4>1 DEF OnePlace
        <4> QED
          BY <4>2
      <3>2. \A d, e \in Consumers, id \in Ids : HeldBy(d, id)' /\ HeldBy(e, id)' => d = e
        <4>1. \A d \in Consumers \ {c} : ~HeldBy(d, msg)
          BY <2>2 DEF Taken, Held
        <4> QED
          BY <1>0, <2>4, <4>1 DEF OnePlace
      <3>3. \A id \in Ids : InQueue(id)' => ~Taken(id)'
        BY <1>0, <2>3, <2>5, <2>6 DEF OnePlace, Taken
      <3>4. \A id \in Ids : Held(id)' => ~IsRead(id)'
        BY <1>0, <2>2, <2>5, <2>6 DEF OnePlace, Taken
      <3> QED
        BY <1>4, <3>1, <3>2, <3>3, <3>4 DEF OnePlace, TakeMessage, Ids, RecordCount, Count, Consumers
    <2>8. SentInv'
      <3>1. \A p \in Producers : Sent(p)' = Sent(p)
        BY <1>4 DEF TakeMessage, Sent, Finished
      <3>2. \A id \in Ids : InQueue(id)' \/ Taken(id)' <=> InQueue(id) \/ Taken(id)
        BY <2>2, <2>3, <2>5, <2>6 DEF Taken
      <3> QED
        BY <1>0, <3>1, <3>2, SentKept
    <2> QED
      BY <2>7, <2>8 DEF PlaceInv
  <1>5. ASSUME NEW c \in Consumers, TakePoison(c)
        PROVE  PlaceInv'
    <2>1. /\ Len(queue) \in Nat \ {0}
          /\ Len(queue') = Len(queue) - 1
          /\ queue[1] = Poison
          /\ \A k \in 1 .. Len(queue') : queue'[k] = queue[k + 1]
      BY <1>0, <1>5, QueueOps, Zenon DEF TakePoison
    <2>2. \A id \in Ids : InQueue(id)' <=> InQueue(id)
      <3> SUFFICES ASSUME NEW id \in Ids
                   PROVE  InQueue(id)' <=> InQueue(id)
        OBVIOUS
      <3>1. ASSUME InQueue(id)
            PROVE  InQueue(id)'
        <4>1. PICK k \in 1 .. Len(queue) : queue[k] = id
          BY <3>1 DEF InQueue
        <4>2. k # 1
          BY <1>id, <2>1, <4>1
        <4>3. k - 1 \in 1 .. Len(queue') /\ queue'[k - 1] = id
          BY <2>1, <4>1, <4>2
        <4> QED
          BY <4>3 DEF InQueue
      <3>2. ASSUME InQueue(id)'
            PROVE  InQueue(id)
        BY <2>1, <3>2 DEF InQueue
      <3> QED
        BY <3>1, <3>2
    <2>3. /\ \A d \in Consumers : \A id : HeldBy(d, id)' = HeldBy(d, id)
          /\ \A id : IsRead(id)' = IsRead(id)
      BY <1>0, <1>5 DEF TakePoison, HeldBy, IsRead, Recorded, TypeOK
    <2>4. \A id : Taken(id)' = Taken(id)
      BY <2>3 DEF Taken, Held
    <2>5. OnePlace'
      <3>1. \A k, l \in 1 .. Len(queue') : queue'[k] = queue'[l] /\ queue'[k] # Poison => k = l
        <4> SUFFICES ASSUME NEW k \in 1 .. Len(queue'), NEW l \in 1 .. Len(queue'),
                            queue'[k] = queue'[l], queue'[k] # Poison
                     PROVE  k = l
          OBVIOUS
        <4>1. /\ k + 1 \in 1 .. Len(queue) /\ l + 1 \in 1 .. Len(queue)
              /\ queue'[k] = queue[k + 1] /\ queue'[l] = queue[l + 1]
          BY <2>1
        <4>2. k + 1 = l + 1
          BY <1>0, <4>1 DEF OnePlace
        <4> QED
          BY <4>2
      <3> QED
        BY <1>0, <2>2, <2>3, <2>4, <3>1 DEF OnePlace, Held
    <2>6. SentInv'
      <3>1. \A p \in Producers : Sent(p)' = Sent(p)
        BY <1>5 DEF TakePoison, Sent, Finished
      <3> QED
        BY <1>0, <2>2, <2>4, <3>1, SentKept
    <2> QED
      BY <2>5, <2>6 DEF PlaceInv
  <1>6. ASSUME NEW c \in Consumers, RecordMessage(c)
        PROVE  PlaceInv'
    <2> DEFINE msg == held[c]
    <2>1. msg \in Ids /\ HeldBy(c, msg)
      BY <1>0, <1>6 DEF RecordMessage, HeldInv, HeldBy
    <2>2. stamps[msg] # NoRecord
      BY <1>0, <2>1 DEF TypeOK, HarnessTypeOK
    <2>3. \A id \in Ids : IsRead(id)' <=> IsRead(id) \/ id = msg
      BY <1>0, <1>6, <2>1, <2>2 DEF RecordMessage, RecordRead, IsRead, Recorded, TypeOK, HarnessTypeOK, Actions
    <2>4. /\ \A id : ~HeldBy(c, id)'
          /\ \A id : HeldBy(c, id) <=> id = msg
          /\ \A d \in Consumers \ {c} : \A id : HeldBy(d, id)' = HeldBy(d, id)
      BY <1>0, <1>6 DEF RecordMessage, HeldBy, TypeOK
    <2> HIDE DEF msg
    <2>5. \A d \in Consumers \ {c} : ~HeldBy(d, msg)
      BY <1>0, <2>1 DEF OnePlace
    <2>6. \A id \in Ids : Held(id)' <=> Held(id) /\ id # msg
      BY <2>4, <2>5 DEF Held
    <2>7. \A id : InQueue(id)' = InQueue(id)
      BY <1>6 DEF RecordMessage, InQueue
    <2>8. Held(msg)
      BY <2>1 DEF Held
    <2>9. OnePlace'
      <3>1. \A id \in Ids : InQueue(id)' => ~Taken(id)'
        BY <1>0, <2>3, <2>6, <2>7, <2>8 DEF OnePlace, Taken
      <3>2. \A id \in Ids : Held(id)' => ~IsRead(id)'
        BY <1>0, <2>3, <2>6 DEF OnePlace
      <3>3. \A d, e \in Consumers, id \in Ids : HeldBy(d, id)' /\ HeldBy(e, id)' => d = e
        BY <1>0, <2>4 DEF OnePlace
      <3>4. queue' = queue
        BY <1>6 DEF RecordMessage
      <3> QED
        BY <1>0, <3>1, <3>2, <3>3, <3>4 DEF OnePlace
    <2>10. SentInv'
      <3>1. \A p \in Producers : Sent(p)' = Sent(p)
        BY <1>6 DEF RecordMessage, Sent, Finished
      <3>2. \A id \in Ids : InQueue(id)' \/ Taken(id)' <=> InQueue(id) \/ Taken(id)
        BY <2>3, <2>6, <2>7, <2>8 DEF Taken
      <3> QED
        BY <1>0, <3>1, <3>2, SentKept
    <2> QED
      BY <2>9, <2>10 DEF PlaceInv
  <1>7. CASE PutPoison
    <2>1. /\ Len(queue) \in Nat
          /\ Len(queue') = Len(queue) + 1
          /\ queue'[Len(queue) + 1] = Poison
          /\ \A k \in 1 .. Len(queue) : queue'[k] = queue[k]
      <3>1. Len(queue) \in Nat
        BY <1>0 DEF TypeOK
      <3> QED
        BY <1>0, <1>7, <3>1, QueueOps DEF PutPoison
    <2>2. \A id \in Ids : InQueue(id)' <=> InQueue(id)
      BY <1>id, <2>1 DEF InQueue
    <2>3. \A id : Held(id)' = Held(id) /\ IsRead(id)' = IsRead(id) /\ Taken(id)' = Taken(id)
      BY <1>7 DEF PutPoison, Held, HeldBy, IsRead, Recorded, Taken
    <2>4. OnePlace'
      <3>1. \A k, l \in 1 .. Len(queue') : queue'[k] = queue'[l] /\ queue'[k] # Poison => k = l
        BY <1>0, <2>1 DEF OnePlace
      <3>2. UNCHANGED <<cpc, held>>
        BY <1>7 DEF PutPoison
      <3> QED
        BY <1>0, <2>2, <2>3, <3>1, <3>2 DEF OnePlace, HeldBy
    <2>5. SentInv'
      <3>1. \A p \in Producers : Sent(p)' = Sent(p)
        BY <1>7 DEF PutPoison, Sent, Finished
      <3> QED
        BY <1>0, <2>2, <2>3, <3>1, SentKept
    <2> QED
      BY <2>4, <2>5 DEF PlaceInv
  <1>8. CASE StartConsumer
    <2>1. n \in Consumers /\ cpc[n] = "unborn"
      BY <1>0, <1>8 DEF StopInv, StartConsumer, Turn, ConsumerPhaseInv, TypeOK, HarnessTypeOK, Consumers
    <2>2. \A d \in Consumers : \A id : HeldBy(d, id)' = HeldBy(d, id)
      BY <1>0, <1>8, <2>1 DEF StartConsumer, HeldBy, TypeOK
    <2>3. /\ queue' = queue
          /\ \A id : InQueue(id)' = InQueue(id) /\ IsRead(id)' = IsRead(id)
      BY <1>8 DEF StartConsumer, InQueue, IsRead, Recorded
    <2>4. \A id : Held(id)' = Held(id) /\ Taken(id)' = Taken(id)
      BY <2>2, <2>3 DEF Held, Taken
    <2>5. OnePlace'
      BY <1>0, <2>2, <2>3, <2>4 DEF OnePlace
    <2>6. SentInv'
      <3>1. \A p \in Producers : Sent(p)' = Sent(p)
        BY <1>8 DEF StartConsumer, Sent, Finished
      <3> QED
        BY <1>0, <2>3, <2>4, <3>1, SentKept
    <2> QED
      BY <2>5, <2>6 DEF PlaceInv
  <1>9. CASE StartProducer /\ UNCHANGED <<queue, consumerVars>>
    <2>1. n \in Producers /\ ppc[n] = "unborn"
      BY <1>9 DEF BaseInv, StartProducer, Turn, ProducerPhaseInv, BeforeProducers, TypeOK, HarnessTypeOK, Producers
    <2>2. \A p \in Producers : Sent(p)' = Sent(p)
      BY <1>0, <1>9, <2>1 DEF StartProducer, Sent, Finished, TypeOK, HarnessTypeOK
    <2> QED
      BY <1>9, <2>2, PlaceFrame DEF StartProducer
  <1>10. CASE (JoinProducer \/ GenReport) /\ UNCHANGED <<queue, consumerVars>>
    BY <1>10, PlaceFrame DEF JoinProducer, GenReport, Sent, Finished
  <1>11. CASE JoinConsumer \/ NextPhase
    BY <1>11, PlaceFrame DEF JoinConsumer, NextPhase, Sent, Finished
  <1>12. CASE UNCHANGED vars
    BY <1>12, PlaceFrame DEF vars, Sent, Finished
  <1> QED
    BY <1>1, <1>2, <1>3, <1>4, <1>5, <1>6, <1>7, <1>8, <1>9, <1>10, <1>11, <1>12
    DEF Next, Main, Producer, Consumer, Exited

--------------------------------------------------------------------------------
(* The fourth layer: which records exist, and the order of their stamps.       *)

TimeInv == RecordInv /\ StampInv /\ LatencyPositive

LEMMA TimeInit == Init => TimeInv
  <1> SUFFICES ASSUME Init PROVE TimeInv
    OBVIOUS
  <1>1. \A a \in Actions, id \in Ids : ~Recorded(a, id)
    BY DEF Init, HarnessInit, Recorded, Actions
  <1>2. RecordInv
    BY <1>1, IdOfType DEF Init, HarnessInit, RecordInv, Finished, Actions
  <1>3. StampInv /\ LatencyPositive
    BY <1>1 DEF Init, HarnessInit, StampInv, LatencyPositive, Actions
  <1> QED
    BY <1>2, <1>3 DEF TimeInv

\* Steps that stamp and record nothing, and send no message.
LEMMA TimeFrame ==
  ASSUME TimeInv, UNCHANGED <<round, i, beg, stamps, records>>,
         \A p \in Producers : ppc'[p] \in {"write", "end"} => ppc'[p] = ppc[p]
  PROVE  TimeInv'
  <1>1. RecordInv'
    BY DEF TimeInv, RecordInv, Finished, Recorded, IdOf, Count
  <1>2. StampInv'
    BY DEF TimeInv, StampInv, Recorded, IsRead, MsgId
  <1>3. LatencyPositive'
    BY DEF TimeInv, LatencyPositive, Recorded
  <1> QED
    BY <1>1, <1>2, <1>3 DEF TimeInv

\* Two producers never work on the same message.
LEMMA MsgIdUnique ==
  ASSUME TypeOK, LoopInv, NEW p \in Producers, NEW q \in Producers,
         Sending(p), Sending(q), MsgId(p) = MsgId(q)
  PROVE  p = q
  BY MsgIdInSlice, IdOfUnique

LEMMA TimeStep == BaseInv /\ PlaceInv /\ TimeInv /\ [Next]_vars => TimeInv'
  <1> SUFFICES ASSUME BaseInv, PlaceInv, TimeInv, [Next]_vars
               PROVE  TimeInv'
    OBVIOUS
  <1> USE DEF loopVars, producerVars, recordVars, harnessVars, consumerVars
  <1>0. TypeOK /\ LoopInv /\ HeldInv /\ OnePlace /\ SentInv /\ RecordInv /\ StampInv /\ LatencyPositive
    BY DEF BaseInv, PlaceInv, TimeInv
  <1>t. /\ stamps \in [Ids -> Nat]
        /\ beg \in [Producers -> Nat]
        /\ \A a \in Actions, id \in Ids : Recorded(a, id) => records[a][id] \in Nat
    BY <1>0 DEF TypeOK, HarnessTypeOK, Recorded
  <1>1. ASSUME NEW p \in Producers, BeginWrite(p)
        PROVE  TimeInv'
    <2> DEFINE msg == MsgId(p)
    <2>1. ppc[p] = "begin" /\ msg \in Ids
      BY <1>0, <1>1, MsgIdInSlice DEF BeginWrite, StampBegin, Sending
    <2>2. /\ beg'[p] = stamps[msg] /\ stamps'[msg] = stamps[msg] + 1
          /\ \A q \in Producers \ {p} : beg'[q] = beg[q] /\ ppc'[q] = ppc[q]
          /\ ppc'[p] = "write"
          /\ \A id \in Ids : stamps'[id] \in Nat /\ stamps'[id] >= stamps[id]
          /\ \A id \in Ids \ {msg} : stamps'[id] = stamps[id]
          /\ records' = records
      BY <1>0, <1>1, <2>1 DEF BeginWrite, StampBegin, TypeOK, HarnessTypeOK
    <2>3. \A q \in Producers : MsgId(q)' = MsgId(q)
      BY <1>1 DEF BeginWrite, StampBegin, MsgId
    <2>4. RecordInv'
      BY <1>0, <1>1, <2>2 DEF BeginWrite, StampBegin, RecordInv, Finished, Recorded, IdOf, Count
    <2>5. LatencyPositive'
      BY <1>0, <2>2 DEF LatencyPositive, Recorded
    <2>6. StampInv'
      <3>1. ASSUME NEW id \in Ids, Recorded("write_begin", id)'
            PROVE  records'["write_begin"][id] < stamps'[id]
        <4>1. records["write_begin"][id] < stamps[id] /\ records["write_begin"][id] \in Nat
          BY <1>0, <1>t, <2>2, <3>1 DEF StampInv, Recorded, Actions
        <4> QED
          BY <1>t, <2>2, <4>1
      <3>2. ASSUME NEW q \in Producers, ppc'[q] \in {"write", "end"}
            PROVE  beg'[q] < stamps'[MsgId(q)]
        <4>1. CASE q = p
          BY <1>t, <2>1, <2>2, <4>1
        <4>2. CASE q # p
          <5>1. MsgId(q) # msg /\ MsgId(q) \in Ids
            BY <1>0, <2>1, <2>2, <3>2, <4>2, MsgIdUnique, MsgIdInSlice DEF Sending
          <5> QED
            BY <1>0, <2>2, <3>2, <4>2, <5>1 DEF StampInv
        <4> QED
          BY <4>1, <4>2
      <3>3. ASSUME NEW q \in Producers, ppc'[q] = "end", IsRead(MsgId(q))'
            PROVE  beg'[q] < records'["read"][MsgId(q)]
        BY <1>0, <2>2, <2>3, <3>3 DEF StampInv, IsRead, Recorded
      <3> QED
        BY <2>3, <3>1, <3>2, <3>3 DEF StampInv, Ids, RecordCount, Count, Producers
    <2> QED
      BY <2>4, <2>5, <2>6 DEF TimeInv
  <1>2. ASSUME NEW p \in Producers, Write(p)
        PROVE  TimeInv'
    <2>1. ppc[p] = "write" /\ Finished(p) \in 0 .. Count - 1 /\ MsgId(p) = IdOf(p, Finished(p))
      BY <1>0, <1>2, MsgIdInSlice DEF Write, Sending
    <2>2. ~IsRead(MsgId(p))
      BY <1>0, <2>1 DEF SentInv, Sent, Taken
    <2>3. /\ UNCHANGED <<round, i, beg, stamps, records>>
          /\ \A q \in Producers \ {p} : ppc'[q] = ppc[q]
          /\ \A q \in Producers : MsgId(q)' = MsgId(q)
      BY <1>0, <1>2 DEF Write, MsgId, TypeOK, HarnessTypeOK
    <2>4. RecordInv' /\ LatencyPositive'
      BY <1>0, <2>3 DEF RecordInv, LatencyPositive, Finished, Recorded, IdOf, Count
    <2>5. StampInv'
      BY <1>0, <2>1, <2>2, <2>3 DEF StampInv, Recorded, IsRead
    <2> QED
      BY <2>4, <2>5 DEF TimeInv
  <1>3. ASSUME NEW p \in Producers, FinishWrite(p)
        PROVE  TimeInv'
    <2> DEFINE msg == MsgId(p)
    <2>1. /\ ppc[p] = "end" /\ NextMsg(p)
          /\ Finished(p) \in 0 .. Count - 1 /\ msg = IdOf(p, Finished(p)) /\ msg \in Ids
      BY <1>0, <1>3, MsgIdInSlice DEF FinishWrite, EndWrite, Sending
    <2>2. /\ records'["read"] = records["read"]
          /\ records'["write_begin"][msg] = beg[p]
          /\ records'["write_end"][msg] = stamps[msg]
          /\ \A a \in Actions, id \in Ids \ {msg} : records'[a][id] = records[a][id]
      BY <1>0, <1>3, <2>1 DEF FinishWrite, EndWrite, TypeOK, HarnessTypeOK, Actions
    <2>3. /\ stamps'[msg] = stamps[msg] + 1
          /\ \A id \in Ids \ {msg} : stamps'[id] = stamps[id]
          /\ beg' = beg
      BY <1>0, <1>3, <2>1 DEF FinishWrite, EndWrite, TypeOK, HarnessTypeOK
    <2>4. beg[p] < stamps[msg] /\ (IsRead(msg) => beg[p] < records["read"][msg])
      BY <1>0, <2>1 DEF StampInv
    <2>5. beg[p] \in Nat /\ stamps[msg] \in Nat /\ beg[p] # NoRecord /\ stamps[msg] # NoRecord
      BY <1>t, <2>1
    <2>6. /\ Finished(p)' = Finished(p) + 1 /\ ppc'[p] \in {"begin", "done"}
          /\ \A q \in Producers \ {p} : /\ Finished(q)' = Finished(q) /\ ppc'[q] = ppc[q]
                                        /\ MsgId(q)' = MsgId(q)
      BY <1>0, <2>1, NextMsgStep DEF Finished, MsgId
    <2>7. RecordInv'
      <3> SUFFICES ASSUME NEW q \in Producers, NEW k \in 0 .. Count - 1, NEW a \in {"write_begin", "write_end"}
                   PROVE  k < Finished(q)' <=> Recorded(a, IdOf(q, k))'
        BY DEF RecordInv, IdOf, Count, Recorded
      <3>1. k < Finished(q) <=> Recorded(a, IdOf(q, k))
        BY <1>0 DEF RecordInv
      <3>2. IdOf(q, k) = msg <=> q = p /\ k = Finished(p)
        BY <2>1, IdOfUnique
      <3>3. Recorded(a, IdOf(q, k))' <=> Recorded(a, IdOf(q, k)) \/ IdOf(q, k) = msg
        <4> HIDE DEF msg
        <4>1. IdOf(q, k) \in Ids
          BY IdOfType
        <4> QED
          BY <2>2, <2>5, <4>1 DEF Recorded, Actions
      <3>4. k < Finished(q)' <=> k < Finished(q) \/ (q = p /\ k = Finished(p))
        BY <2>1, <2>6
      <3> QED
        BY <3>1, <3>2, <3>3, <3>4
    <2>8. LatencyPositive'
      <3> SUFFICES ASSUME NEW id \in Ids, NEW a \in {"write_end", "read"},
                          Recorded(a, id)', Recorded("write_begin", id)'
                   PROVE  records'["write_begin"][id] < records'[a][id]
        BY DEF LatencyPositive, Ids, RecordCount, Count
      <3> HIDE DEF msg
      <3>1. CASE id = msg
        BY <2>2, <2>4, <3>1 DEF IsRead, Recorded
      <3>2. CASE id # msg
        BY <1>0, <2>2, <3>2 DEF LatencyPositive, Recorded, Actions
      <3> QED
        BY <3>1, <3>2
    <2>9. StampInv'
      <3>1. ASSUME NEW id \in Ids, Recorded("write_begin", id)'
            PROVE  records'["write_begin"][id] < stamps'[id]
        <4> HIDE DEF msg
        <4>1. CASE id = msg
          BY <2>2, <2>3, <2>4, <2>5, <4>1
        <4>2. CASE id # msg
          BY <1>0, <2>2, <2>3, <3>1, <4>2 DEF StampInv, Recorded, Actions
        <4> QED
          BY <4>1, <4>2
      <3>2. ASSUME NEW q \in Producers, ppc'[q] \in {"write", "end"}
            PROVE  /\ beg'[q] < stamps'[MsgId(q)']
                   /\ ppc'[q] = "end" /\ IsRead(MsgId(q))' => beg'[q] < records'["read"][MsgId(q)']
        <4>1. q # p /\ ppc'[q] = ppc[q] /\ MsgId(q)' = MsgId(q)
          BY <2>6, <3>2
        <4>2. MsgId(q) # msg /\ MsgId(q) \in Ids
          BY <1>0, <2>1, <3>2, <4>1, MsgIdUnique, MsgIdInSlice DEF Sending
        <4> QED
          BY <1>0, <2>2, <2>3, <3>2, <4>1, <4>2 DEF StampInv, IsRead, Recorded
      <3> QED
        BY <3>1, <3>2 DEF StampInv, Ids, RecordCount, Count, Producers
    <2> QED
      BY <2>7, <2>8, <2>9 DEF TimeInv
  <1>4. ASSUME NEW c \in Consumers, RecordMessage(c)
        PROVE  TimeInv'
    <2> DEFINE msg == held[c]
    <2>1. msg \in Ids
      BY <1>0, <1>4 DEF RecordMessage, HeldInv
    <2>2. /\ records'["write_begin"] = records["write_begin"]
          /\ records'["write_end"] = records["write_end"]
          /\ records'["read"][msg] = stamps[msg]
          /\ \A id \in Ids \ {msg} : records'["read"][id] = records["read"][id]
      BY <1>0, <1>4, <2>1 DEF RecordMessage, RecordRead, TypeOK, HarnessTypeOK, Actions
    <2>3. /\ stamps'[msg] = stamps[msg] + 1
          /\ \A id \in Ids \ {msg} : stamps'[id] = stamps[id]
          /\ UNCHANGED <<ppc, round, i, beg>>
      BY <1>0, <1>4, <2>1 DEF RecordMessage, RecordRead, TypeOK, HarnessTypeOK
    <2>4. stamps[msg] \in Nat
      BY <1>t, <2>1
    <2>5. \A q \in Producers : MsgId(q)' = MsgId(q)
      BY <2>3 DEF MsgId
    <2> HIDE DEF msg
    <2>6. RecordInv'
      BY <1>0, <2>2, <2>3 DEF RecordInv, Finished, Recorded, IdOf, Count
    <2>7. LatencyPositive'
      <3> SUFFICES ASSUME NEW id \in Ids, NEW a \in {"write_end", "read"},
                          Recorded(a, id)', Recorded("write_begin", id)'
                   PROVE  records'["write_begin"][id] < records'[a][id]
        BY DEF LatencyPositive, Ids, RecordCount, Count
      <3>1. CASE id = msg /\ a = "read"
        BY <1>0, <2>1, <2>2, <3>1 DEF StampInv, Recorded
      <3>2. CASE ~(id = msg /\ a = "read")
        BY <1>0, <2>2, <3>2 DEF LatencyPositive, Recorded
      <3> QED
        BY <3>1, <3>2
    <2>8. StampInv'
      <3>1. ASSUME NEW id \in Ids, Recorded("write_begin", id)'
            PROVE  records'["write_begin"][id] < stamps'[id]
        <4>1. records["write_begin"][id] < stamps[id] /\ records["write_begin"][id] \in Nat
          BY <1>0, <1>t, <2>2, <3>1 DEF StampInv, Recorded, Actions
        <4> QED
          BY <2>2, <2>3, <2>4, <4>1
      <3>2. ASSUME NEW q \in Producers, ppc[q] \in {"write", "end"}
            PROVE  /\ beg[q] < stamps'[MsgId(q)]
                   /\ ppc[q] = "end" /\ IsRead(MsgId(q))' => beg[q] < records'["read"][MsgId(q)]
        <4>1. MsgId(q) \in Ids /\ beg[q] \in Nat /\ beg[q] < stamps[MsgId(q)]
          BY <1>0, <1>t, <3>2, MsgIdInSlice DEF Sending, StampInv
        <4>2. CASE MsgId(q) = msg
          BY <2>2, <2>3, <2>4, <4>1, <4>2
        <4>3. CASE MsgId(q) # msg
          BY <1>0, <2>2, <2>3, <2>5, <3>2, <4>1, <4>3 DEF StampInv, IsRead, Recorded
        <4> QED
          BY <4>2, <4>3
      <3> QED
        BY <2>3, <2>5, <3>1, <3>2 DEF StampInv, Ids, RecordCount, Count, Producers
    <2> QED
      BY <2>6, <2>7, <2>8 DEF TimeInv
  <1>5. ASSUME NEW c \in Consumers, TakeMessage(c) \/ TakePoison(c)
        PROVE  TimeInv'
    BY <1>5, TimeFrame DEF TakeMessage, TakePoison
  <1>6. CASE StartConsumer \/ PutPoison \/ JoinConsumer \/ NextPhase
    BY <1>6, TimeFrame DEF StartConsumer, PutPoison, JoinConsumer, NextPhase
  <1>7. CASE StartProducer /\ UNCHANGED <<queue, consumerVars>>
    <2>1. \A p \in Producers : ppc'[p] \in {"write", "end"} => ppc'[p] = ppc[p]
      BY <1>0, <1>7 DEF StartProducer, TypeOK, HarnessTypeOK
    <2> QED
      BY <1>7, <2>1, TimeFrame DEF StartProducer
  <1>8. CASE (JoinProducer \/ GenReport) /\ UNCHANGED <<queue, consumerVars>>
    BY <1>8, TimeFrame DEF JoinProducer, GenReport
  <1>9. CASE UNCHANGED vars
    BY <1>9, TimeFrame DEF vars
  <1> QED
    BY <1>1, <1>2, <1>3, <1>4, <1>5, <1>6, <1>7, <1>8, <1>9
    DEF Next, Main, Producer, Consumer, Exited

--------------------------------------------------------------------------------
(* The theorems.                                                               *)

\* The conjunction of the layers is an invariant.
THEOREM Invariant == Spec => []IndInv
  <1> DEFINE Inv == BaseInv /\ StopInv /\ PlaceInv /\ TimeInv
  <1>1. Init => Inv
    BY BaseInit, StopInit, PlaceInit, TimeInit
  <1>2. Inv /\ [Next]_vars => Inv'
    BY BaseStep, StopStep, PlaceStep, TimeStep
  <1>3. Inv => IndInv
    BY DEF BaseInv, StopInv, PlaceInv, TimeInv, IndInv
  <1> QED
    BY <1>1, <1>2, <1>3, PTL DEF Spec

\* Every variable keeps its type; the queue never exceeds its capacity.
THEOREM TypeCorrect == Spec => []TypeOK
  <1>1. IndInv => TypeOK
    BY DEF IndInv
  <1> QED
    BY <1>1, Invariant, PTL

\* Every message is in at most one place: nothing is sent or read twice.
THEOREM ExactlyOnePlace == Spec => []OnePlace
  <1>1. IndInv => OnePlace
    BY DEF IndInv
  <1> QED
    BY <1>1, Invariant, PTL

\* No message is ever queued behind one with id -1.
THEOREM PoisonIsLast == Spec => []NothingBehindPoison
  <1>1. IndInv => NothingBehindPoison
    BY DEF IndInv, PoisonInv
  <1> QED
    BY <1>1, Invariant, PTL

\* No latency in the report is negative or zero.
THEOREM LatenciesPositive == Spec => []LatencyPositive
  <1>1. IndInv => LatencyPositive
    BY DEF IndInv
  <1> QED
    BY <1>1, Invariant, PTL

\* When every consumer has been joined every message has been read: a consumer
\* has stopped, so no message is queued, and no consumer holds one.
LEMMA AllRecorded == IndInv /\ main \in Over /\ NumConsumer > 0
                       => \A a \in Actions, id \in Ids : Recorded(a, id)
  <1> SUFFICES ASSUME IndInv, main \in Over, NumConsumer > 0, NEW id \in Ids
               PROVE  \A a \in Actions : Recorded(a, id)
    OBVIOUS
  <1>1. PICK p \in Producers, k \in 0 .. Count - 1 : id = IdOf(p, k)
    BY IdOfCovers
  <1>2. ppc[p] = "done" /\ Finished(p) = Count /\ Sent(p) = Count
    BY DEF IndInv, ProducerPhaseInv, ProducersDone, AfterProducers, LoopInv, Sent
  <1>3. Recorded("write_begin", id) /\ Recorded("write_end", id)
    BY <1>1, <1>2, CountType DEF IndInv, RecordInv
  <1>4. InQueue(id) \/ Taken(id)
    BY <1>1, <1>2, CountType DEF IndInv, SentInv
  <1>5. \A c \in Consumers : cpc[c] = "done"
    BY DEF IndInv, ConsumerPhaseInv
  <1>6. 0 \in Consumers
    BY DEF Consumers
  <1>7. ~InQueue(id)
    BY <1>5, <1>6, CountType DEF IndInv, PoisonInv, InQueue, Ids, Poison
  <1>8. ~Held(id)
    BY <1>5 DEF Held, HeldBy
  <1> QED
    BY <1>3, <1>4, <1>7, <1>8 DEF Taken, IsRead, Actions

LEMMA AllRecordedNext == (IndInv /\ main \in Over /\ NumConsumer > 0
                            => \A a \in Actions, id \in Ids : Recorded(a, id))'
  BY AllRecorded, PTL

\* The report is generated from complete record arrays.
THEOREM ReportsComplete == Spec => []ReportComplete
  <1>1. IndInv => ReportComplete
    BY AllRecorded DEF ReportComplete, Over
  <1> QED
    BY <1>1, Invariant, PTL

\* The report fails only for a grid point with no producer or no consumer.
THEOREM FailureOnlyWhenEmpty == Spec => []FailsOnlyWhenEmpty
  <1>1. Init => FailsOnlyWhenEmpty
    BY DEF Init, HarnessInit, FailsOnlyWhenEmpty
  <1>2. IndInv /\ FailsOnlyWhenEmpty /\ [Next]_vars => FailsOnlyWhenEmpty'
    <2> SUFFICES ASSUME IndInv, FailsOnlyWhenEmpty, [Next]_vars, main' = "failed", NumConsumer # 0
                 PROVE  RecordCount = 0
      BY DEF FailsOnlyWhenEmpty, RecordCount, Count
    <2>1. CASE main = "failed"
      BY <2>1 DEF FailsOnlyWhenEmpty
    <2>2. CASE main # "failed"
      <3>1. GenReport
        BY <2>2 DEF Next, vars, Main, Producer, Consumer, Exited, StartConsumer, StartProducer,
                    JoinProducer, PutPoison, JoinConsumer, NextPhase, Turn, Leave, BeginWrite,
                    StampBegin, Write, FinishWrite, EndWrite, TakeMessage, TakePoison,
                    RecordMessage, harnessVars, loopVars
      <3>2. main \in Over
        BY <3>1 DEF GenReport, Over
      <3>3. \A a \in Actions, id \in Ids : Recorded(a, id)
        BY <3>2, AllRecorded
      <3> QED
        BY <3>1, <3>3 DEF GenReport, Recorded
    <2> QED
      BY <2>1, <2>2
  <1> QED
    BY <1>1, <1>2, Invariant, PTL DEF Spec

--------------------------------------------------------------------------------
(* The order of the queue: InOrder is inductive on top of IndInv.              *)

\* The producer of a message, computed from its id.
LEMMA ProducerOfId ==
  ASSUME NEW p \in Producers, NEW k \in 0 .. Count - 1
  PROVE  ProducerOf(IdOf(p, k)) = p
  <1>1. PICK id \in Nat : id = p * Count + k
    BY CountType DEF Producers
  <1>2. PICK width \in Nat \ {0} : width = Count
    BY CountType
  <1>3. /\ id \div width \in Nat
        /\ id % width \in Nat /\ id % width < width
        /\ id = (id \div width) * width + (id % width)
    OBVIOUS
  <1>4. p \in Nat /\ k \in Nat /\ k < width /\ id = p * width + k
    BY <1>1, <1>2 DEF Producers
  <1>5. id \div width = p
    BY ONLY <1>2, <1>3, <1>4, CellUnique, width \in Nat
  <1> QED
    BY <1>1, <1>2, <1>5 DEF ProducerOf, IdOf

\* Of two messages of one producer the later has the larger index.
LEMMA LaterIndex ==
  ASSUME NEW p \in Producers, NEW k \in 0 .. Count - 1, NEW later \in Ids,
         IdOf(p, k) < later, ProducerOf(IdOf(p, k)) = ProducerOf(later)
  PROVE  \E l \in 0 .. Count - 1 : later = IdOf(p, l) /\ k < l
  <1>1. PICK q \in Producers, l \in 0 .. Count - 1 : later = IdOf(q, l)
    BY IdOfCovers
  <1>2. q = p
    BY <1>1, ProducerOfId
  <1>3. p * Count \in Nat
    BY CountType DEF Producers
  <1>4. k < l
    BY <1>1, <1>2, <1>3 DEF IdOf
  <1> QED
    BY <1>1, <1>2, <1>4

\* Steps that leave the queue alone and take nothing.
LEMMA OrderFrame ==
  ASSUME InOrder, queue' = queue, \A id \in Ids : Taken(id)' => Taken(id)
  PROVE  InOrder'
  BY DEF InOrder, ProducerOf, Ids, RecordCount, Count

\* Putting an element behind the others keeps the order, if it is the next of its
\* producer or not a message.
LEMMA OrderPut ==
  ASSUME TypeOK, InOrder, NEW id \in Ids \cup {Poison}, Enqueue(id),
         \A m \in Ids : Taken(m)' => Taken(m),
         \A later \in Ids : id # Poison /\ id < later /\ ProducerOf(id) = ProducerOf(later)
           => ~InQueue(later) /\ ~Taken(later)
  PROVE  InOrder'
  <1>1. /\ Len(queue) \in Nat /\ Len(queue') = Len(queue) + 1
        /\ queue'[Len(queue) + 1] = id
        /\ \A k \in 1 .. Len(queue) : queue'[k] = queue[k]
    BY QueueOps DEF TypeOK
  <1> SUFFICES ASSUME NEW k \in 1 .. Len(queue'), NEW later \in Ids,
                      queue'[k] # Poison, queue'[k] < later,
                      ProducerOf(queue'[k]) = ProducerOf(later)
               PROVE  ~Taken(later)' /\ \A l \in 1 .. k : queue'[l] # later
    BY DEF InOrder, ProducerOf, Ids, RecordCount, Count
  <1>2. CASE k <= Len(queue)
    <2>1. k \in 1 .. Len(queue) /\ queue'[k] = queue[k]
      BY <1>1, <1>2
    <2>2. ~Taken(later) /\ \A l \in 1 .. k : queue[l] # later
      BY <2>1 DEF InOrder
    <2>3. \A l \in 1 .. k : queue'[l] = queue[l]
      BY <1>1, <2>1
    <2> QED
      BY <2>2, <2>3
  <1>3. CASE k = Len(queue) + 1
    <2>1. queue'[k] = id
      BY <1>1, <1>3
    <2>2. ~InQueue(later) /\ ~Taken(later)
      BY <2>1
    <2>3. \A l \in 1 .. Len(queue) : queue[l] # later
      BY <2>2 DEF InQueue
    <2>4. id # later
      <3>1. id < later
        BY <2>1
      <3>2. id \in Int
        BY CountType DEF Ids, Poison
      <3> QED
        BY <3>1, <3>2
    <2>5. ASSUME NEW l \in 1 .. k
          PROVE  queue'[l] # later
      <3>1. l = k \/ l \in 1 .. Len(queue)
        BY <1>1, <1>3
      <3> QED
        BY <1>1, <2>1, <2>3, <2>4, <3>1
    <2> QED
      BY <2>2, <2>5
  <1> QED
    BY <1>1, <1>2, <1>3

\* Taking the head keeps the order: nothing behind it is an earlier message of its
\* producer.
LEMMA OrderTake ==
  ASSUME TypeOK, InOrder, queue # <<>>, queue' = Tail(queue),
         \A m \in Ids : Taken(m)' => Taken(m) \/ m = Head(queue)
  PROVE  InOrder'
  <1>1. /\ Len(queue) \in Nat \ {0} /\ Len(queue') = Len(queue) - 1
        /\ Head(queue) = queue[1]
        /\ \A k \in 1 .. Len(queue') : queue'[k] = queue[k + 1]
    BY QueueOps
  <1> SUFFICES ASSUME NEW k \in 1 .. Len(queue'), NEW later \in Ids,
                      queue'[k] # Poison, queue'[k] < later,
                      ProducerOf(queue'[k]) = ProducerOf(later)
               PROVE  ~Taken(later)' /\ \A l \in 1 .. k : queue'[l] # later
    BY DEF InOrder, ProducerOf, Ids, RecordCount, Count
  <1>2. k + 1 \in 1 .. Len(queue) /\ queue'[k] = queue[k + 1] /\ 1 \in 1 .. k + 1
    BY <1>1
  <1>3. ~Taken(later) /\ \A l \in 1 .. k + 1 : queue[l] # later
    BY <1>2 DEF InOrder
  <1>4. \A l \in 1 .. k : queue'[l] = queue[l + 1] /\ l + 1 \in 1 .. k + 1
    BY <1>1
  <1> QED
    BY <1>1, <1>2, <1>3, <1>4

\* Every step keeps the order.
LEMMA OrderStep == IndInv /\ InOrder /\ [Next]_vars => InOrder'
  <1> SUFFICES ASSUME IndInv, InOrder, [Next]_vars
               PROVE  InOrder'
    OBVIOUS
  <1> USE DEF loopVars, producerVars, recordVars, harnessVars, consumerVars
  <1>0. TypeOK /\ LoopInv /\ HeldInv /\ SentInv
    BY DEF IndInv
  <1>1. ASSUME UNCHANGED <<cpc, held, records>>
        PROVE  \A id \in Ids : Taken(id)' => Taken(id)
    BY <1>1 DEF Taken, Held, HeldBy, IsRead, Recorded
  <1>2. ASSUME NEW p \in Producers, Write(p)
        PROVE  InOrder'
    <2>1. ppc[p] = "write" /\ Finished(p) \in 0 .. Count - 1 /\ MsgId(p) = IdOf(p, Finished(p))
          /\ MsgId(p) \in Ids /\ Sent(p) = Finished(p)
      BY <1>0, <1>2, MsgIdInSlice DEF Write, Sending, Sent
    <2>2. ASSUME NEW later \in Ids, MsgId(p) < later, ProducerOf(MsgId(p)) = ProducerOf(later)
          PROVE  ~InQueue(later) /\ ~Taken(later)
      <3>1. PICK l \in 0 .. Count - 1 : later = IdOf(p, l) /\ Finished(p) < l
        BY <2>1, <2>2, LaterIndex
      <3>2. ~(l < Sent(p))
        BY <2>1, <3>1
      <3> QED
        BY <1>0, <3>1, <3>2 DEF SentInv
    <2> QED
      BY <1>0, <1>1, <1>2, <2>1, <2>2, OrderPut DEF Write
  <1>3. CASE PutPoison
    BY <1>0, <1>1, <1>3, OrderPut DEF PutPoison
  <1>4. ASSUME NEW c \in Consumers, TakeMessage(c) \/ TakePoison(c)
        PROVE  InOrder'
    <2>1. ASSUME NEW m \in Ids, Taken(m)'
          PROVE  Taken(m) \/ m = Head(queue)
      <3>1. IsRead(m)' <=> IsRead(m)
        BY <1>4 DEF TakeMessage, TakePoison, IsRead, Recorded
      <3>2. \A d \in Consumers : HeldBy(d, m)' => HeldBy(d, m) \/ m = Head(queue)
        BY <1>0, <1>4 DEF TakeMessage, TakePoison, HeldBy, TypeOK
      <3> QED
        BY <2>1, <3>1, <3>2 DEF Taken, Held
    <2> QED
      BY <1>0, <1>4, <2>1, OrderTake DEF TakeMessage, TakePoison
  <1>5. ASSUME NEW c \in Consumers, RecordMessage(c)
        PROVE  InOrder'
    <2>1. ASSUME NEW m \in Ids, Taken(m)'
          PROVE  Taken(m)
      <3>1. held[c] \in Ids /\ HeldBy(c, held[c])
        BY <1>0, <1>5 DEF RecordMessage, HeldInv, HeldBy
      <3>2. IsRead(m)' => IsRead(m) \/ m = held[c]
        BY <1>0, <1>5 DEF RecordMessage, RecordRead, IsRead, Recorded, TypeOK, HarnessTypeOK, Actions
      <3>3. \A d \in Consumers : HeldBy(d, m)' => HeldBy(d, m)
        BY <1>0, <1>5 DEF RecordMessage, HeldBy, TypeOK
      <3> QED
        BY <2>1, <3>1, <3>2, <3>3 DEF Taken, Held
    <2> QED
      BY <1>5, <2>1, OrderFrame DEF RecordMessage
  <1>6. ASSUME NEW p \in Producers, FinishWrite(p)
        PROVE  InOrder'
    <2>1. records'["read"] = records["read"]
      BY <1>0, <1>6 DEF FinishWrite, EndWrite, TypeOK, HarnessTypeOK, Actions
    <2>2. \A id \in Ids : Taken(id)' => Taken(id)
      BY <1>6, <2>1 DEF FinishWrite, Taken, Held, HeldBy, IsRead, Recorded
    <2> QED
      BY <1>6, <2>2, OrderFrame DEF FinishWrite
  <1>7. ASSUME NEW p \in Producers, BeginWrite(p)
        PROVE  InOrder'
    BY <1>1, <1>7, OrderFrame DEF BeginWrite, StampBegin
  <1>8. CASE StartConsumer
    <2>1. \A d \in Consumers, id \in Ids : HeldBy(d, id)' => HeldBy(d, id)
      BY <1>0, <1>8 DEF StartConsumer, HeldBy, TypeOK
    <2>2. \A id \in Ids : Taken(id)' => Taken(id)
      BY <1>8, <2>1 DEF StartConsumer, Taken, Held, IsRead, Recorded
    <2> QED
      BY <1>8, <2>2, OrderFrame DEF StartConsumer
  <1>9. CASE (StartProducer \/ JoinProducer \/ GenReport) /\ UNCHANGED <<queue, consumerVars>>
    BY <1>1, <1>9, OrderFrame DEF StartProducer, JoinProducer, GenReport
  <1>10. CASE JoinConsumer \/ NextPhase \/ UNCHANGED vars
    BY <1>1, <1>10, OrderFrame DEF JoinConsumer, NextPhase, vars
  <1> QED
    BY <1>2, <1>3, <1>4, <1>5, <1>6, <1>7, <1>8, <1>9, <1>10
    DEF Next, Main, Producer, Consumer, Exited

\* While a message of a producer is queued, no later message of the same producer is
\* ahead of it, held or read.
THEOREM MessagesInOrder == Spec => []InOrder
  <1>1. Init => InOrder
    BY DEF Init, InOrder
  <1> QED
    BY <1>1, OrderStep, Invariant, PTL DEF Spec

--------------------------------------------------------------------------------
(* The records are written once, and the queue implements the transfer.        *)

\* A record is stored for a message that has none of its kind.
LEMMA WrittenOnce ==
  IndInv /\ [Next]_vars =>
    \A a \in Actions, id \in Ids : Recorded(a, id) => records'[a][id] = records[a][id]
  <1> SUFFICES ASSUME IndInv, [Next]_vars, NEW a \in Actions, NEW id \in Ids, Recorded(a, id)
               PROVE  records'[a][id] = records[a][id]
    OBVIOUS
  <1>0. TypeOK /\ LoopInv /\ HeldInv /\ OnePlace /\ RecordInv
    BY DEF IndInv
  <1>1. ASSUME NEW p \in Producers, FinishWrite(p)
        PROVE  records'[a][id] = records[a][id]
    <2>1. /\ Finished(p) \in 0 .. Count - 1 /\ MsgId(p) = IdOf(p, Finished(p)) /\ MsgId(p) \in Ids
      BY <1>0, <1>1, MsgIdInSlice DEF FinishWrite, EndWrite, Sending
    <2>2. ~Recorded("write_begin", MsgId(p)) /\ ~Recorded("write_end", MsgId(p))
      BY <1>0, <2>1 DEF RecordInv
    <2> QED
      BY <1>0, <1>1, <2>1, <2>2 DEF FinishWrite, EndWrite, TypeOK, HarnessTypeOK, Actions
  <1>2. ASSUME NEW c \in Consumers, RecordMessage(c)
        PROVE  records'[a][id] = records[a][id]
    <2>1. held[c] \in Ids /\ ~IsRead(held[c])
      BY <1>0, <1>2 DEF RecordMessage, HeldInv, OnePlace, Held, HeldBy
    <2> QED
      BY <1>0, <1>2, <2>1 DEF RecordMessage, RecordRead, IsRead, TypeOK, HarnessTypeOK, Actions
  <1>3. ~(\E p \in Producers : FinishWrite(p)) /\ ~(\E c \in Consumers : RecordMessage(c))
          => UNCHANGED records
    BY DEF Next, vars, Main, Producer, Consumer, Exited, StartConsumer, StartProducer,
           JoinProducer, GenReport, PutPoison, JoinConsumer, NextPhase, BeginWrite, StampBegin,
           Write, TakeMessage, TakePoison, harnessVars, recordVars
  <1> QED
    BY <1>1, <1>2, <1>3

\* No record of a message is ever overwritten.
THEOREM RecordsKept == Spec => RecordsWrittenOnce
  <1>1. IndInv /\ [Next]_vars =>
          [\A a \in Actions, id \in Ids : Recorded(a, id) => records'[a][id] = records[a][id]]_vars
    BY WrittenOnce
  <1> QED
    BY <1>1, Invariant, PTL DEF Spec, RecordsWrittenOnce

\* How far a message has got follows from what its producer has sent and from
\* its read record alone.
LEMMA ProgressKnown ==
  ASSUME IndInv, NEW p \in Producers, NEW k \in 0 .. Count - 1
  PROVE  Progress(IdOf(p, k)) = IF IsRead(IdOf(p, k)) THEN "read"
                                ELSE IF k < Sent(p) THEN "inflight" ELSE "unsent"
  BY DEF IndInv, SentInv, Progress, Taken

LEMMA PrimedProgress ==
  ASSUME IndInv', NEW p \in Producers, NEW k \in 0 .. Count - 1, NEW msg, msg = IdOf(p, k)
  PROVE  Progress(msg)' = IF IsRead(msg)' THEN "read"
                          ELSE IF k < Sent(p)' THEN "inflight" ELSE "unsent"
  <1>1. IdOf(p, k)' = msg
    BY DEF IdOf, Count
  <1> QED
    BY <1>1 DEF IndInv, SentInv, Progress, Taken, Count

\* Steps that send no message and read none.
LEMMA ProgressKept ==
  ASSUME IndInv, IndInv', \A p \in Producers : Sent(p)' = Sent(p),
         \A id \in Ids : IsRead(id)' = IsRead(id)
  PROVE  \A id \in Ids : Progress(id)' = Progress(id)
  <1> SUFFICES ASSUME NEW p \in Producers, NEW k \in 0 .. Count - 1
               PROVE  Progress(IdOf(p, k))' = Progress(IdOf(p, k))
    BY IdOfCovers
  <1>1. IdOf(p, k)' = IdOf(p, k) /\ IdOf(p, k) \in Ids
    BY IdOfType DEF IdOf, Count
  <1>2. IndInv' => Progress(IdOf(p, k))' = IF IsRead(IdOf(p, k))' THEN "read"
                                ELSE IF k < Sent(p)' THEN "inflight" ELSE "unsent"
    BY DEF IndInv, SentInv, Progress, Taken, Count
  <1> QED
    BY <1>1, <1>2, ProgressKnown

\* Steps that leave the abstract state alone.
LEMMA StutterStep ==
  ASSUME IndInv, IndInv', \A p \in Producers : Sent(p)' = Sent(p),
         UNCHANGED records, main' \in Over <=> main \in Over
  PROVE  UNCHANGED T!vars
  <1>1. \A id \in Ids : IsRead(id)' = IsRead(id)
    BY DEF IsRead, Recorded
  <1>2. \A id \in Ids : Progress(id)' = Progress(id)
    BY <1>1, ProgressKept
  <1> QED
    BY <1>2 DEF T!vars, Over, Ids, RecordCount, Count

\* One message moves, all others stay.
LEMMA MoveStep ==
  ASSUME IndInv, IndInv', main \notin Over, main' = main,
         NEW p \in Producers, NEW k \in 0 .. Count - 1, NEW msg, msg = IdOf(p, k),
         \A q \in Producers, l \in 0 .. Count - 1 : IdOf(q, l) # msg =>
            /\ l < Sent(q)' <=> l < Sent(q)
            /\ IsRead(IdOf(q, l))' = IsRead(IdOf(q, l)),
         NEW from, NEW to, Progress(msg) = from, Progress(msg)' = to
  PROVE  T!Move(msg, from, to)
  <1>1. ASSUME NEW id \in Ids, id # msg
        PROVE  Progress(id)' = Progress(id)
    <2>1. PICK q \in Producers, l \in 0 .. Count - 1 : id = IdOf(q, l)
      BY IdOfCovers
    <2>2. Progress(IdOf(q, l))' = IF IsRead(IdOf(q, l))' THEN "read"
                                ELSE IF l < Sent(q)' THEN "inflight" ELSE "unsent"
      BY DEF IndInv, SentInv, Progress, Taken, Count
    <2>3. IdOf(q, l)' = IdOf(q, l)
      BY DEF IdOf, Count
    <2> QED
      BY <1>1, <2>1, <2>2, <2>3, ProgressKnown
  <1>2. msg \in Ids
    BY IdOfType
  <1>3. [id \in Ids |-> Progress(id)]' = [[id \in Ids |-> Progress(id)] EXCEPT ![msg] = to]
    BY <1>1, <1>2 DEF Ids, RecordCount, Count
  <1> QED
    BY <1>2, <1>3 DEF T!Move, Over

LEMMA TransferInit == IndInv /\ Init => T!Init
  <1> SUFFICES ASSUME IndInv, Init PROVE T!Init
    OBVIOUS
  <1>1. \A id \in Ids : Progress(id) = "unsent"
    BY DEF Init, HarnessInit, Progress, InQueue, Held, HeldBy, IsRead, Recorded, Actions
  <1> QED
    BY <1>1 DEF Init, HarnessInit, T!Init

LEMMA TransferStep ==
  NumConsumer > 0 /\ IndInv /\ IndInv' /\ [Next]_vars => [T!Next]_(T!vars)
  <1> SUFFICES ASSUME NumConsumer > 0, IndInv, IndInv', [Next]_vars
               PROVE  [T!Next]_(T!vars)
    OBVIOUS
  <1> USE DEF loopVars, producerVars, recordVars, harnessVars, consumerVars
  <1>0. TypeOK /\ LoopInv /\ HeldInv /\ OnePlace /\ SentInv /\ ProducerPhaseInv /\ ConsumerPhaseInv
    BY DEF IndInv
  <1>1. ASSUME NEW p \in Producers, Write(p)
        PROVE  \E id \in Ids : T!Send(id)
    <2>1. ppc[p] = "write" /\ Finished(p) \in 0 .. Count - 1 /\ MsgId(p) = IdOf(p, Finished(p))
      BY <1>0, <1>1, MsgIdInSlice DEF Write, Sending
    <2>2. PICK k \in 0 .. Count - 1 : k = Finished(p)
      BY <2>1
    <2>3. PICK msg \in Ids : msg = IdOf(p, k)
      BY IdOfType
    <2>4. main \notin Over /\ main' = main
      BY <1>0, <1>1, <2>1 DEF Write, ProducerPhaseInv, ProducersDone, AfterProducers
    <2>5. Sent(p) = k /\ Sent(p)' = k + 1 /\ \A q \in Producers \ {p} : Sent(q)' = Sent(q)
      BY <1>0, <1>1, <2>1, <2>2 DEF Write, Sent, Finished, TypeOK, HarnessTypeOK
    <2>6. \A id : IsRead(id)' = IsRead(id)
      BY <1>1 DEF Write, IsRead, Recorded
    <2>7. ~IsRead(msg) /\ Progress(msg) = "unsent"
      BY <1>0, <2>3, <2>5, ProgressKnown DEF SentInv, Taken
    <2>8. Progress(msg)' = "inflight"
      BY <2>3, <2>5, <2>6, <2>7, PrimedProgress
    <2>9. \A q \in Producers, l \in 0 .. Count - 1 : IdOf(q, l) # msg =>
            /\ l < Sent(q)' <=> l < Sent(q)
            /\ IsRead(IdOf(q, l))' = IsRead(IdOf(q, l))
      <3> SUFFICES ASSUME NEW q \in Producers, NEW l \in 0 .. Count - 1, IdOf(q, l) # msg
                   PROVE  /\ l < Sent(q)' <=> l < Sent(q)
                          /\ IsRead(IdOf(q, l))' = IsRead(IdOf(q, l))
        OBVIOUS
      <3>1. q # p \/ l # k
        BY <2>3
      <3>2. l < Sent(q)' <=> l < Sent(q)
        BY <2>5, <3>1
      <3>3. IsRead(IdOf(q, l))' = IsRead(IdOf(q, l))
        BY <1>1 DEF Write, IsRead, Recorded, IdOf, Count
      <3> QED
        BY <3>2, <3>3
    <2>10. T!Move(msg, "unsent", "inflight")
      BY <2>3, <2>4, <2>7, <2>8, <2>9, MoveStep
    <2> QED
      BY <2>10 DEF T!Send
  <1>2. ASSUME NEW c \in Consumers, RecordMessage(c)
        PROVE  \E id \in Ids : T!Read(id)
    <2>1. PICK msg \in Ids : msg = held[c]
      BY <1>0, <1>2 DEF RecordMessage, HeldInv
    <2>2. PICK p \in Producers, k \in 0 .. Count - 1 : msg = IdOf(p, k)
      BY IdOfCovers
    <2>3. main \notin Over /\ main' = main
      BY <1>0, <1>2 DEF RecordMessage, ConsumerPhaseInv
    <2>4. \A q \in Producers : Sent(q)' = Sent(q)
      BY <1>2 DEF RecordMessage, Sent, Finished
    <2>5. /\ IsRead(msg)'
          /\ \A id \in Ids : id # msg => IsRead(id)' = IsRead(id)
      <3>1. stamps[msg] # NoRecord
        BY <1>0 DEF TypeOK, HarnessTypeOK
      <3> QED
        BY <1>0, <1>2, <2>1, <3>1 DEF RecordMessage, RecordRead, IsRead, Recorded, TypeOK,
                                     HarnessTypeOK, Actions
    <2>6. Held(msg) /\ ~IsRead(msg)
      BY <1>0, <1>2, <2>1 DEF RecordMessage, OnePlace, Held, HeldBy
    <2>7. Progress(msg) = "inflight"
      BY <2>6 DEF Progress
    <2>8. Progress(msg)' = "read"
      BY <2>5 DEF Progress
    <2>9. \A q \in Producers, l \in 0 .. Count - 1 : IdOf(q, l) # msg =>
            /\ l < Sent(q)' <=> l < Sent(q)
            /\ IsRead(IdOf(q, l))' = IsRead(IdOf(q, l))
      <3> SUFFICES ASSUME NEW q \in Producers, NEW l \in 0 .. Count - 1, IdOf(q, l) # msg
                   PROVE  IsRead(IdOf(q, l))' = IsRead(IdOf(q, l))
        BY <2>4
      <3>1. PICK other \in Ids : other = IdOf(q, l)
        BY IdOfType
      <3>2. IsRead(IdOf(q, l))' = IsRead(other)'
        BY <3>1 DEF IdOf, Count
      <3> QED
        BY <2>5, <3>1, <3>2
    <2>10. T!Move(msg, "inflight", "read")
      BY <2>2, <2>3, <2>7, <2>8, <2>9, MoveStep
    <2> QED
      BY <2>10 DEF T!Read
  <1>3. ASSUME NextPhase, main' \in Over, main \notin Over
        PROVE  T!Close
    <2>1. \A id \in Ids : IsRead(id)' /\ IsRead(id)' = IsRead(id)
      <3>1. (\A a \in Actions, id \in Ids : Recorded(a, id))'
        BY <1>3, AllRecordedNext
      <3> QED
        BY <1>3, <3>1 DEF NextPhase, IsRead, Recorded, Actions, Ids, RecordCount, Count
    <2>2. \A id \in Ids : Progress(id) = "read" /\ Progress(id)' = "read"
      BY <2>1 DEF Progress
    <2> QED
      BY <1>3, <2>2 DEF T!Close, Over, Ids, RecordCount, Count
  <1>4. ASSUME NextPhase, ~(main' \in Over /\ main \notin Over)
        PROVE  UNCHANGED T!vars
    <2>1. main \notin Over
      BY <1>4 DEF NextPhase, Leave, Over
    <2> QED
      BY <1>4, <2>1, StutterStep DEF NextPhase, Sent, Finished
  <1>5. ASSUME NEW p \in Producers, BeginWrite(p)
        PROVE  UNCHANGED T!vars
    <2>1. \A q \in Producers : Sent(q)' = Sent(q)
      BY <1>0, <1>5 DEF BeginWrite, StampBegin, Sent, Finished, TypeOK, HarnessTypeOK
    <2> QED
      BY <1>5, <2>1, StutterStep DEF BeginWrite, StampBegin
  <1>6. ASSUME NEW p \in Producers, FinishWrite(p)
        PROVE  UNCHANGED T!vars
    <2>1. ppc[p] = "end" /\ NextMsg(p) /\ main' = main
      BY <1>6 DEF FinishWrite, EndWrite
    <2>2. \A q \in Producers : Sent(q)' = Sent(q)
      BY <1>0, <2>1, NextMsgStep DEF Sent, Finished
    <2>3. records'["read"] = records["read"]
      BY <1>0, <1>6 DEF FinishWrite, EndWrite, TypeOK, HarnessTypeOK, Actions
    <2>4. \A id \in Ids : Progress(id)' = Progress(id)
      BY <2>2, <2>3, ProgressKept DEF IsRead, Recorded
    <2> QED
      BY <2>1, <2>4 DEF T!vars, Over, Ids, RecordCount, Count
  <1>7. ASSUME NEW c \in Consumers, TakeMessage(c) \/ TakePoison(c)
        PROVE  UNCHANGED T!vars
    BY <1>7, StutterStep DEF TakeMessage, TakePoison, Sent, Finished
  <1>8. CASE StartConsumer \/ PutPoison \/ JoinConsumer
    BY <1>8, StutterStep DEF StartConsumer, PutPoison, JoinConsumer, Turn, Sent, Finished
  <1>9. CASE StartProducer /\ UNCHANGED <<queue, consumerVars>>
    <2>1. n \in Producers /\ ppc[n] = "unborn"
      BY <1>0, <1>9 DEF StartProducer, Turn, ProducerPhaseInv, BeforeProducers, TypeOK,
                        HarnessTypeOK, Producers
    <2>2. \A p \in Producers : Sent(p)' = Sent(p)
      BY <1>0, <1>9, <2>1 DEF StartProducer, Sent, Finished, TypeOK, HarnessTypeOK
    <2> QED
      BY <1>9, <2>2, StutterStep DEF StartProducer, Turn
  <1>10. CASE (JoinProducer \/ GenReport) /\ UNCHANGED <<queue, consumerVars>>
    BY <1>10, StutterStep DEF JoinProducer, GenReport, Turn, Over, Sent, Finished
  <1>11. CASE UNCHANGED vars
    BY <1>11, StutterStep DEF vars, Sent, Finished
  <1> QED
    BY <1>1, <1>2, <1>3, <1>4, <1>5, <1>6, <1>7, <1>8, <1>9, <1>10, <1>11
    DEF Next, Main, Producer, Consumer, Exited, T!Next

\* With at least one consumer, one benchmark over the queue implements Transfer:
\* each message is sent once, then read once, and the report comes after all.
THEOREM ImplementsTransfer ==
  ASSUME NumConsumer > 0
  PROVE  Spec => TransferSpec
  <1>1. Spec => T!Init
    BY Invariant, TransferInit, PTL DEF Spec
  <1>2. Spec => [][T!Next]_(T!vars)
    BY Invariant, TransferStep, PTL DEF Spec
  <1> QED
    BY <1>1, <1>2, PTL DEF TransferSpec, T!Spec

================================================================================
