--------------------------- MODULE BlockingQueueTrans ---------------------------
(*******************************************************************************)
(* One benchmark of LatencyBenchmarkArrayBlockingQueue: the producers put      *)
(* their messages into one java.util.concurrent.ArrayBlockingQueue, the        *)
(* consumers take them, and after joining the producers the main thread puts   *)
(* one message with id -1 per consumer, which ends it.                         *)
(*******************************************************************************)
EXTENDS ThreadTrans, Sequences

CONSTANTS
  NumConsumer,   \* config.consumer
  Capacity       \* config.capacity

\* The constructor of ArrayBlockingQueue throws for a capacity below one.
ASSUME QueueAssumption ==
  /\ NumConsumer \in Nat
  /\ Capacity \in Nat \ {0}

Consumers == 0 .. NumConsumer - 1

Poison == -1

VARIABLES
  queue,      \* the ids of the messages in the ArrayBlockingQueue
  cpc,        \* what each consumer does next
  held,       \* the message each consumer took last
  totalRead   \* consumerArgs.totalRead

consumerVars == <<cpc, held, totalRead>>
vars == <<main, n, ppc, round, i, beg, stamps, records, queue, cpc, held, totalRead>>

Phases == {"consumers", "producers", "joinProducers", "completed",
           "joinConsumers", "report", "finished", "failed"}

TypeOK ==
  /\ HarnessTypeOK
  /\ main \in Phases
  /\ queue \in Seq(Ids \cup {Poison})
  /\ Len(queue) <= Capacity
  /\ cpc \in [Consumers -> {"unborn", "take", "record", "done"}]
  /\ held \in [Consumers -> Ids \cup {Poison}]
  /\ totalRead \in [Consumers -> Nat]

Init ==
  /\ HarnessInit("consumers")
  /\ queue = <<>>
  /\ cpc = [c \in Consumers |-> "unborn"]
  /\ held = [c \in Consumers |-> Poison]
  /\ totalRead = [c \in Consumers |-> 0]

--------------------------------------------------------------------------------
(* The queue: put waits while it is full, take while it is empty.              *)

HasRoom == Len(queue) < Capacity

\* Fault: put overtakes what the queue holds.
EnqueueFront(id) ==
  /\ HasRoom
  /\ queue' = <<id>> \o queue

Enqueue(id) ==
  /\ HasRoom
  /\ queue' = Append(queue, id)

--------------------------------------------------------------------------------
(* Producer p and consumer c.                                                  *)

BeginWrite(p) == StampBegin(p) /\ UNCHANGED <<queue, consumerVars>>

Write(p) ==
  /\ ppc[p] = "write"
  /\ Enqueue(MsgId(p))
  /\ ppc' = [ppc EXCEPT ![p] = "end"]
  /\ UNCHANGED <<loopVars, round, i, beg, recordVars, consumerVars>>

FinishWrite(p) == EndWrite(p) /\ UNCHANGED <<queue, consumerVars>>

TakeMessage(c) ==
  /\ cpc[c] = "take"
  /\ queue # <<>>
  /\ Head(queue) # Poison
  /\ queue' = Tail(queue)
  /\ held' = [held EXCEPT ![c] = Head(queue)]
  /\ cpc' = [cpc EXCEPT ![c] = "record"]
  /\ UNCHANGED <<harnessVars, totalRead>>

TakePoison(c) ==
  /\ cpc[c] = "take"
  /\ queue # <<>>
  /\ Head(queue) = Poison
  /\ queue' = Tail(queue)
  /\ held' = [held EXCEPT ![c] = Poison]
  /\ cpc' = [cpc EXCEPT ![c] = "done"]
  /\ UNCHANGED <<harnessVars, totalRead>>

RecordMessage(c) ==
  /\ cpc[c] = "record"
  /\ RecordRead(held[c])
  /\ totalRead' = [totalRead EXCEPT ![c] = @ + 1]
  /\ cpc' = [cpc EXCEPT ![c] = "take"]
  /\ UNCHANGED <<loopVars, producerVars, queue, held>>

--------------------------------------------------------------------------------
(* The main thread.                                                            *)

StartConsumer ==
  /\ Turn("consumers", NumConsumer)
  /\ cpc' = [cpc EXCEPT ![n] = "take"]
  /\ UNCHANGED <<producerVars, recordVars, queue, held, totalRead>>

\* Fault: one message with id -1 for all consumers.
OnePoison == 1

\* completed() puts this many messages with id -1.
PoisonCount == NumConsumer

PutPoison ==
  /\ Turn("completed", PoisonCount)
  /\ Enqueue(Poison)
  /\ UNCHANGED <<producerVars, recordVars, consumerVars>>

\* Fault: the join returns at once.
BlindJoinConsumer ==
  /\ Turn("joinConsumers", NumConsumer)
  /\ UNCHANGED <<producerVars, recordVars, queue, consumerVars>>

JoinConsumer ==
  /\ Turn("joinConsumers", NumConsumer)
  /\ cpc[n] = "done"
  /\ UNCHANGED <<producerVars, recordVars, queue, consumerVars>>

NextPhase ==
  /\ \/ Leave("consumers", NumConsumer, "producers")
     \/ Leave("producers", NumProducer, "joinProducers")
     \/ Leave("joinProducers", NumProducer, "completed")
     \/ Leave("completed", PoisonCount, "joinConsumers")
     \/ Leave("joinConsumers", NumConsumer, "report")
  /\ UNCHANGED <<producerVars, recordVars, queue, consumerVars>>

Main ==
  \/ StartConsumer
  \/ (StartProducer \/ JoinProducer \/ GenReport) /\ UNCHANGED <<queue, consumerVars>>
  \/ PutPoison
  \/ JoinConsumer
  \/ NextPhase

Producer(p) == BeginWrite(p) \/ Write(p) \/ FinishWrite(p)

Consumer(c) == TakeMessage(c) \/ TakePoison(c) \/ RecordMessage(c)

\* The program has ended.
Exited == ReportOver /\ UNCHANGED vars

Next ==
  \/ Main
  \/ \E p \in Producers : Producer(p)
  \/ \E c \in Consumers : Consumer(c)
  \/ Exited

Spec == Init /\ [][Next]_vars

\* Every thread is scheduled again and again.
Fairness ==
  /\ WF_vars(Main)
  /\ \A p \in Producers : WF_vars(Producer(p))
  /\ \A c \in Consumers : WF_vars(Consumer(c))

FairSpec == Spec /\ Fairness

--------------------------------------------------------------------------------
(* Properties.                                                                 *)

InQueue(id) == \E k \in 1 .. Len(queue) : queue[k] = id
HeldBy(c, id) == cpc[c] = "record" /\ held[c] = id
Held(id) == \E c \in Consumers : HeldBy(c, id)
IsRead(id) == Recorded("read", id)
Taken(id) == Held(id) \/ IsRead(id)

\* The producer whose slice of the ids holds id.
ProducerOf(id) == id \div Count

\* Every message is in one place: at one position of the queue, held by one
\* consumer, or read.  A message put twice, an id that two producers compute,
\* or a take that leaves its message behind breaks it, and the report then
\* counts one message twice and waits for another that never comes.
OnePlace ==
  /\ \A k, l \in 1 .. Len(queue) : queue[k] = queue[l] /\ queue[k] # Poison => k = l
  /\ \A c, d \in Consumers, id \in Ids : HeldBy(c, id) /\ HeldBy(d, id) => c = d
  /\ \A id \in Ids : InQueue(id) => ~Taken(id)
  /\ \A id \in Ids : Held(id) => ~IsRead(id)

\* A consumer stops at the first message with id -1, so nothing that has still
\* to be read may stand behind one: the main thread sends them only after it
\* has joined every producer (lines 150-157 of LatencyBenchmarkThreadTrans).
NothingBehindPoison ==
  \A k, l \in 1 .. Len(queue) : k < l /\ queue[k] = Poison => queue[l] = Poison

\* The queue does not reorder: while a message of a producer is queued, no
\* later message of the same producer is ahead of it, held or read.
InOrder ==
  \A k \in 1 .. Len(queue), later \in Ids :
    /\ queue[k] # Poison
    /\ queue[k] < later
    /\ ProducerOf(queue[k]) = ProducerOf(later)
    => /\ ~Taken(later)
       /\ \A l \in 1 .. k : queue[l] # later

\* genReport runs after run() has returned; by then every message has its
\* three records, or genTimestampRecordsReport would meet a null one.  With no
\* consumer at all nothing is read.
ReportComplete ==
  main \in {"report", "finished", "failed"} /\ NumConsumer > 0
    => \A a \in Actions, id \in Ids : Recorded(a, id)

\* No latency of the report is negative: a message is stamped at the beginning
\* of its write before it is stamped at the end of it and before it is read.
\* (The end of a write and the read are not ordered.)
LatencyPositive ==
  \A id \in Ids, a \in {"write_end", "read"} :
    Recorded(a, id) /\ Recorded("write_begin", id)
      => records["write_begin"][id] < records[a][id]

\* The report fails only where a producer or consumer count is zero: no record
\* to average, or messages that nobody read.
FailsOnlyWhenEmpty == main = "failed" => RecordCount = 0 \/ NumConsumer = 0

\* No record is ever overwritten.
RecordsWrittenOnce ==
  [][\A a \in Actions, id \in Ids :
       Recorded(a, id) => records'[a][id] = records[a][id]]_vars

\* Every benchmark comes to its report, although put and take block, the main
\* thread blocks on them too, and each consumer may take only one of the ids -1.
Terminates == <>ReportOver

\* The queue implements the transfer that every transport promises.
Progress(id) ==
  IF IsRead(id) THEN "read"
  ELSE IF InQueue(id) \/ Held(id) THEN "inflight" ELSE "unsent"

T == INSTANCE Transfer WITH
       Msgs   <- Ids,
       status <- [id \in Ids |-> Progress(id)],
       closed <- main \in {"report", "finished", "failed"}

TransferSpec == T!Spec

--------------------------------------------------------------------------------
(* The inductive invariant behind the safety properties.  It says which        *)
(* messages each producer has written, in which phase each thread may be, and  *)
(* how the stamps of a message grow.                                           *)

\* How many of its messages producer p has sent.
Sent(p) == IF ppc[p] = "end" THEN Finished(p) + 1 ELSE Finished(p)

\* What the main thread knows from the loops it has left.
BeforeProducers == {"consumers", "producers"}
Over == {"report", "finished", "failed"}
AfterProducers == {"completed", "joinConsumers"} \cup Over

ProducerPhaseInv ==
  /\ main \in BeforeProducers =>
       \A p \in Producers : main = "consumers" \/ p >= n => ppc[p] = "unborn"
  /\ main = "joinProducers" => \A p \in Producers : p < n => ppc[p] = "done"
  /\ main \in AfterProducers => ProducersDone

ConsumerPhaseInv ==
  /\ main = "consumers" => \A c \in Consumers : c >= n => cpc[c] = "unborn"
  /\ main = "joinConsumers" => \A c \in Consumers : c < n => cpc[c] = "done"
  /\ main \in Over => \A c \in Consumers : cpc[c] = "done"

\* A message with id -1 is sent when no other is to come, and a consumer that
\* has taken one leaves only such messages.
PoisonInv ==
  /\ NothingBehindPoison
  /\ InQueue(Poison) => main \in AfterProducers
  /\ \A c \in Consumers : cpc[c] = "done" =>
       /\ main \in AfterProducers
       /\ \A k \in 1 .. Len(queue) : queue[k] = Poison

\* A message is somewhere exactly when its producer has sent it.
SentInv ==
  \A p \in Producers, k \in 0 .. Count - 1 :
    k < Sent(p) <=> InQueue(IdOf(p, k)) \/ Taken(IdOf(p, k))

HeldInv == \A c \in Consumers : cpc[c] = "record" => held[c] \in Ids

RecordInv ==
  \A p \in Producers, k \in 0 .. Count - 1, a \in {"write_begin", "write_end"} :
    k < Finished(p) <=> Recorded(a, IdOf(p, k))

\* The stamps of a message only grow, and the begin stamp is its first.
StampInv ==
  /\ \A id \in Ids : Recorded("write_begin", id) => records["write_begin"][id] < stamps[id]
  /\ \A p \in Producers :
       /\ ppc[p] \in {"write", "end"} => beg[p] < stamps[MsgId(p)]
       /\ ppc[p] = "end" /\ IsRead(MsgId(p)) => beg[p] < records["read"][MsgId(p)]

IndInv ==
  /\ TypeOK
  /\ LoopInv
  /\ ProducerPhaseInv
  /\ ConsumerPhaseInv
  /\ PoisonInv
  /\ HeldInv
  /\ OnePlace
  /\ SentInv
  /\ RecordInv
  /\ StampInv
  /\ LatencyPositive

================================================================================
