------------------------------ MODULE ThreadTrans ------------------------------
(*******************************************************************************)
(* The parts of the Java thread-transfer benchmark that do not depend on what  *)
(* carries the messages: the producer threads, the record arrays of the        *)
(* benchmark handle, and the main thread's loops over its threads.  A          *)
(* transport module EXTENDS this one and supplies the write callback, the      *)
(* readers and the order of the main thread's phases.                          *)
(*                                                                             *)
(* Time.  A report only ever subtracts two timestamps of one message, so       *)
(* System.nanoTime() is modelled per message: a call made for message id       *)
(* returns stamps[id], the number of calls made for id before it.              *)
(*******************************************************************************)
EXTENDS Integers

CONSTANTS
  NumProducer,      \* config.producer
  TotalRounds,      \* config.totalRounds
  RecordPerRound,   \* config.recordPerRound
  NoRecord          \* the null that fills a fresh record array

ASSUME ConfigAssumption ==
  /\ NumProducer \in Nat
  /\ TotalRounds \in Nat
  /\ RecordPerRound \in Nat
  /\ NoRecord \notin Int

Count == TotalRounds * RecordPerRound

RecordCount == Count * NumProducer

Producers == 0 .. NumProducer - 1
Ids       == 0 .. RecordCount - 1
Actions   == {"write_begin", "write_end", "read"}

VARIABLES
  main,      \* the phase the main thread is in
  n,         \* index of the main thread's current for loop
  ppc,       \* what each producer does next
  round, i,  \* the loop variables of each producer
  beg,       \* nanoTimeWriteBeg of each producer
  stamps,    \* nanoTime() calls made so far for each message
  records    \* the record arrays of the handle, by action and message id

loopVars     == <<main, n>>
producerVars == <<ppc, round, i, beg>>
recordVars   == <<stamps, records>>
harnessVars  == <<main, n, ppc, round, i, beg, stamps, records>>

HarnessTypeOK ==
  /\ n \in Nat
  /\ ppc \in [Producers -> {"unborn", "begin", "write", "end", "done"}]
  /\ round \in [Producers -> 0 .. TotalRounds]
  /\ i \in [Producers -> 0 .. RecordPerRound]
  /\ beg \in [Producers -> Nat]
  /\ stamps \in [Ids -> Nat]
  /\ records \in [Actions -> [Ids -> Nat \cup {NoRecord}]]

HarnessInit(firstPhase) ==
  /\ main = firstPhase
  /\ n = 0
  /\ ppc = [p \in Producers |-> "unborn"]
  /\ round = [p \in Producers |-> 0]
  /\ i = [p \in Producers |-> 0]
  /\ beg = [p \in Producers |-> 0]
  /\ stamps = [id \in Ids |-> 0]
  /\ records = [a \in Actions |-> [id \in Ids |-> NoRecord]]

--------------------------------------------------------------------------------
(* The loops of the main thread: one turn of "for n in 0 .. limit-1", and the  *)
(* step that leaves the loop.                                                  *)

Turn(phase, limit) ==
  /\ main = phase
  /\ n < limit
  /\ n' = n + 1
  /\ UNCHANGED main

Leave(phase, limit, next) ==
  /\ main = phase
  /\ n = limit
  /\ n' = 0
  /\ main' = next

\* A producer has nothing to do when one of its loops has no turn.
StartProducer ==
  /\ Turn("producers", NumProducer)
  /\ ppc' = [ppc EXCEPT ![n] = IF Count > 0 THEN "begin" ELSE "done"]
  /\ UNCHANGED <<round, i, beg, recordVars>>

\* Fault: the join returns at once.
BlindJoinProducer ==
  /\ Turn("joinProducers", NumProducer)
  /\ UNCHANGED <<producerVars, recordVars>>

JoinProducer ==
  /\ Turn("joinProducers", NumProducer)
  /\ ppc[n] = "done"
  /\ UNCHANGED <<producerVars, recordVars>>

\* genReport dereferences every record and divides by the number of records:
\* a null record or an empty array ends the program with an exception.
GenReport ==
  /\ main = "report"
  /\ main' = IF RecordCount = 0 \/ \E a \in Actions, id \in Ids : records[a][id] = NoRecord
             THEN "failed"
             ELSE "finished"
  /\ UNCHANGED <<n, producerVars, recordVars>>

--------------------------------------------------------------------------------
(* A producer p writes the messages offset .. offset + Count - 1.              *)

MsgId(p) == p * Count + round[p] * RecordPerRound + i[p]

StampBegin(p) ==
  /\ ppc[p] = "begin"
  /\ ppc' = [ppc EXCEPT ![p] = "write"]
  /\ beg' = [beg EXCEPT ![p] = stamps[MsgId(p)]]
  /\ stamps' = [stamps EXCEPT ![MsgId(p)] = @ + 1]
  /\ UNCHANGED <<loopVars, round, i, records>>

\* The step of the two nested loops over round and i.
NextMsg(p) ==
  LET lastOfRound == i[p] + 1 = RecordPerRound
      lastOfAll   == lastOfRound /\ round[p] + 1 = TotalRounds
  IN  /\ i' = [i EXCEPT ![p] = IF lastOfRound THEN 0 ELSE @ + 1]
      /\ round' = [round EXCEPT ![p] = IF lastOfRound THEN @ + 1 ELSE @]
      /\ ppc' = [ppc EXCEPT ![p] = IF lastOfAll THEN "done" ELSE "begin"]

\* Fault: the begin record takes the stamp of the end.
EndWriteOneStamp(p) ==
  /\ ppc[p] = "end"
  /\ LET id == MsgId(p)
     IN  /\ records' = [records EXCEPT !["write_begin"][id] = stamps[id],
                                       !["write_end"][id]   = stamps[id]]
         /\ stamps' = [stamps EXCEPT ![id] = @ + 1]
  /\ NextMsg(p)
  /\ UNCHANGED <<loopVars, beg>>

\* The end stamp, the two records of the message, and the step of the loops.
\* The sleep between rounds takes time only.
EndWrite(p) ==
  /\ ppc[p] = "end"
  /\ LET id == MsgId(p)
     IN  /\ records' = [records EXCEPT !["write_begin"][id] = beg[p],
                                       !["write_end"][id]   = stamps[id]]
         /\ stamps' = [stamps EXCEPT ![id] = @ + 1]
  /\ NextMsg(p)
  /\ UNCHANGED <<loopVars, beg>>

\* A reader stamps message id and stores the record of the read.
RecordRead(id) ==
  /\ records' = [records EXCEPT !["read"][id] = stamps[id]]
  /\ stamps' = [stamps EXCEPT ![id] = @ + 1]

--------------------------------------------------------------------------------

Recorded(a, id) == records[a][id] # NoRecord

ProducersDone == \A p \in Producers : ppc[p] = "done"

ReportOver == main \in {"finished", "failed"}

--------------------------------------------------------------------------------
(* What the inductive invariants of the transports say of the producers.       *)

\* The k-th message that producer p writes, and how many of them are finished.
IdOf(p, k) == p * Count + k
Finished(p) == round[p] * RecordPerRound + i[p]

Sending(p) == ppc[p] \in {"begin", "write", "end"}

LoopInv ==
  \A p \in Producers :
    /\ ppc[p] = "unborn" => round[p] = 0 /\ i[p] = 0
    /\ Sending(p) => round[p] < TotalRounds /\ i[p] < RecordPerRound
    /\ ppc[p] = "done" => Finished(p) = Count

=================================================================================
