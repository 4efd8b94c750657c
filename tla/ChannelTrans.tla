------------------------------ MODULE ChannelTrans ------------------------------
(*******************************************************************************)
(* One benchmark of golang/thread_trans/thread_trans_channel: benchmark_wr     *)
(* runs producers and consumers as goroutines.  The messages go through the    *)
(* unbuffered channel c; the unbuffered channel c_signal tells the main        *)
(* goroutine everything else: a consumer announces itself with its number      *)
(* 1 .. cnt_consumer, a producer that is complete sends 1, and a consumer that *)
(* is complete sends 2.                                                        *)
(*                                                                             *)
(* A send on an unbuffered channel is one step of its sender and its receiver. *)
(*******************************************************************************)
EXTENDS Integers, FiniteSets

CONSTANTS
  NumProducer,   \* cnt_producer
  NumConsumer,   \* cnt_consumer
  Loop,          \* config.Loop
  CntPerLoop     \* config.CntPerLoop

ASSUME ConfigAssumption ==
  /\ NumProducer \in Nat \ {0}
  /\ NumConsumer \in Nat \ {0}
  /\ Loop \in Nat
  /\ CntPerLoop \in Nat

Cnt       == Loop * CntPerLoop
Blocks    == 0 .. Cnt - 1
Producers == 0 .. NumProducer - 1
Consumers == 1 .. NumConsumer

ProducerComplete == 1
ConsumerComplete == 2

VARIABLES
  main,            \* what the main goroutine does
  nils,            \* nil pointers it has sent
  prodComplete,    \* cnt_producer_complete
  consComplete,    \* cnt_consumer_complete
  ready,           \* consumer_ready
  cpc,             \* what each consumer does next
  number,          \* the value of consumer_ready each consumer has got
  block,           \* the block each consumer has received last
  readNum,         \* the counter idx of each consumer
  ppc,             \* what each producer does next
  i, j,            \* the loop variables of each producer
  ts,              \* the slots of Ts that are set, for each block
  late             \* history: the consumers the main goroutine did not wait for

mainVars     == <<main, nils, prodComplete, consComplete, late>>
consumerVars == <<ready, cpc, number, block, readNum>>
producerVars == <<ppc, i, j>>
vars == <<main, nils, prodComplete, consComplete, ready, cpc, number, block, readNum,
          ppc, i, j, ts, late>>

--------------------------------------------------------------------------------
(* The slice start_idx .. end_idx - 1 of every loop that producer p sends.     *)

Share == CntPerLoop \div NumProducer

StartIdx(p) == p * Share

\* Fault: the last producer gets no more than the others.
EndIdxNoRest(p) == (p + 1) * Share

\* Fault: neighbours share a block.
EndIdxOverlap(p) == IF p = NumProducer - 1 THEN CntPerLoop ELSE (p + 1) * Share + 1

EndIdx(p) == IF p = NumProducer - 1 THEN CntPerLoop ELSE (p + 1) * Share

Slice(p) == StartIdx(p) .. EndIdx(p) - 1

BlockOf(p) == i[p] * CntPerLoop + j[p]

--------------------------------------------------------------------------------

Sending(p) == ppc[p] \in {"stamp0", "send", "stamp1"}

TypeOK ==
  /\ main \in {"ready", "spawn", "join", "nils", "report", "finished", "failed"}
  /\ nils \in 0 .. NumConsumer
  /\ prodComplete \in Nat
  /\ consComplete \in 0 .. NumConsumer
  /\ ready \in 0 .. NumConsumer
  /\ cpc \in [Consumers -> {"start", "announce", "receive", "stamp2", "signal", "exit"}]
  /\ number \in [Consumers -> 0 .. NumConsumer]
  /\ block \in [Consumers -> Blocks \cup {0}]
  /\ readNum \in [Consumers -> Nat]
  /\ ppc \in [Producers -> {"unborn", "stamp0", "send", "stamp1", "signal", "exit"}]
  /\ i \in [Producers -> 0 .. Loop]
  /\ j \in [Producers -> 0 .. CntPerLoop]
  /\ ts \in [Blocks -> SUBSET {0, 1, 2}]
  /\ late \subseteq Consumers

Init ==
  /\ main = "ready"
  /\ nils = 0
  /\ prodComplete = 0
  /\ consComplete = 0
  /\ ready = 0
  /\ cpc = [c \in Consumers |-> "start"]
  /\ number = [c \in Consumers |-> 0]
  /\ block = [c \in Consumers |-> 0]
  /\ readNum = [c \in Consumers |-> 0]
  /\ ppc = [p \in Producers |-> "unborn"]
  /\ i = [p \in Producers |-> 0]
  /\ j = [p \in Producers |-> StartIdx(p)]
  /\ ts = [b \in Blocks |-> {}]
  /\ late = {}

--------------------------------------------------------------------------------
(* The main goroutine receives value v from c_signal.                          *)

NotAnnounced == {c \in Consumers : cpc'[c] \in {"start", "announce"}}

\* The loop that waits for the consumers ends at the largest number, whoever
\* has not been heard of yet.
SignalReady(v) ==
  /\ main = "ready"
  /\ IF v = NumConsumer
     THEN main' = "spawn" /\ late' = NotAnnounced
     ELSE UNCHANGED <<main, late>>
  /\ UNCHANGED <<nils, prodComplete, consComplete>>

\* Fault: the main goroutine waits for one producer too many.
SignalProducerOneMore(v) ==
  /\ main = "join"
  /\ v = ProducerComplete
  /\ prodComplete' = prodComplete + 1
  /\ main' = IF prodComplete' = NumProducer + 1 THEN "nils" ELSE "join"
  /\ UNCHANGED <<nils, consComplete, late>>

\* Fault: the number of a consumer that is complete counts as a producer's.
SignalProducerAny(v) ==
  /\ main = "join"
  /\ v \in {ProducerComplete, ConsumerComplete}
  /\ prodComplete' = prodComplete + 1
  /\ main' = IF prodComplete' = NumProducer THEN "nils" ELSE "join"
  /\ UNCHANGED <<nils, consComplete, late>>

SignalProducer(v) ==
  /\ main = "join"
  /\ v = ProducerComplete
  /\ prodComplete' = prodComplete + 1
  /\ main' = IF prodComplete' = NumProducer THEN "nils" ELSE "join"
  /\ UNCHANGED <<nils, consComplete, late>>

\* Fault: the join ends with the first consumer.
SignalFirstConsumer(v) ==
  /\ main = "join"
  /\ v = ConsumerComplete
  /\ consComplete' = consComplete + 1
  /\ main' = "report"
  /\ UNCHANGED <<nils, prodComplete, late>>

SignalConsumer(v) ==
  /\ main = "join"
  /\ v = ConsumerComplete
  /\ consComplete' = consComplete + 1
  /\ main' = IF consComplete' = NumConsumer THEN "report" ELSE "join"
  /\ UNCHANGED <<nils, prodComplete, late>>

\* Any other number is dropped.
SignalOther(v) ==
  /\ main = "join"
  /\ v \notin {ProducerComplete, ConsumerComplete}
  /\ UNCHANGED mainVars

Signal(v) ==
  SignalReady(v) \/ SignalProducer(v) \/ SignalConsumer(v) \/ SignalOther(v)

--------------------------------------------------------------------------------
(* Consumer c.                                                                 *)

\* atomic.AddInt32
TakeNumber(c) ==
  /\ cpc[c] = "start"
  /\ ready' = ready + 1
  /\ number' = [number EXCEPT ![c] = ready + 1]
  /\ cpc' = [cpc EXCEPT ![c] = "announce"]
  /\ UNCHANGED <<mainVars, block, readNum, producerVars, ts>>

Announce(c) ==
  /\ cpc[c] = "announce"
  /\ cpc' = [cpc EXCEPT ![c] = "receive"]
  /\ Signal(number[c])
  /\ UNCHANGED <<ready, number, block, readNum, producerVars, ts>>

StampRead(c) ==
  /\ cpc[c] = "stamp2"
  /\ ts' = [ts EXCEPT ![block[c]] = @ \cup {2}]
  /\ readNum' = [readNum EXCEPT ![c] = @ + 1]
  /\ cpc' = [cpc EXCEPT ![c] = "receive"]
  /\ UNCHANGED <<mainVars, ready, number, block, producerVars>>

SignalComplete(c) ==
  /\ cpc[c] = "signal"
  /\ cpc' = [cpc EXCEPT ![c] = "exit"]
  /\ Signal(ConsumerComplete)
  /\ UNCHANGED <<ready, number, block, readNum, producerVars, ts>>

--------------------------------------------------------------------------------
(* Producer p.  The sleep between the loops takes time only.                   *)

StampSend(p) ==
  /\ ppc[p] = "stamp0"
  /\ ts' = [ts EXCEPT ![BlockOf(p)] = @ \cup {0}]
  /\ ppc' = [ppc EXCEPT ![p] = "send"]
  /\ UNCHANGED <<mainVars, consumerVars, i, j>>

Send(p, c) ==
  /\ ppc[p] = "send"
  /\ cpc[c] = "receive"
  /\ block' = [block EXCEPT ![c] = BlockOf(p)]
  /\ cpc' = [cpc EXCEPT ![c] = "stamp2"]
  /\ ppc' = [ppc EXCEPT ![p] = "stamp1"]
  /\ UNCHANGED <<mainVars, ready, number, readNum, i, j, ts>>

NextBlock(p) ==
  \/ /\ j[p] + 1 < EndIdx(p)
     /\ j' = [j EXCEPT ![p] = @ + 1]
     /\ ppc' = [ppc EXCEPT ![p] = "stamp0"]
     /\ UNCHANGED i
  \/ /\ j[p] + 1 >= EndIdx(p)
     /\ i' = [i EXCEPT ![p] = @ + 1]
     /\ j' = [j EXCEPT ![p] = StartIdx(p)]
     /\ ppc' = [ppc EXCEPT ![p] = IF i[p] + 1 < Loop THEN "stamp0" ELSE "signal"]

StampSent(p) ==
  /\ ppc[p] = "stamp1"
  /\ ts' = [ts EXCEPT ![BlockOf(p)] = @ \cup {1}]
  /\ NextBlock(p)
  /\ UNCHANGED <<mainVars, consumerVars>>

SignalDone(p) ==
  /\ ppc[p] = "signal"
  /\ ppc' = [ppc EXCEPT ![p] = "exit"]
  /\ Signal(ProducerComplete)
  /\ UNCHANGED <<consumerVars, i, j, ts>>

--------------------------------------------------------------------------------
(* The main goroutine's own steps.                                             *)

\* No producer can be heard of before the join loop, so starting them is one step.
StartProducers ==
  /\ main = "spawn"
  /\ main' = "join"
  /\ ppc' = [p \in Producers |-> IF Loop > 0 /\ Slice(p) # {} THEN "stamp0" ELSE "signal"]
  /\ UNCHANGED <<nils, prodComplete, consComplete, late, consumerVars, i, j, ts>>

\* c <- nil: the consumer leaves its loop and stores its counter.
SendNil(c) ==
  /\ main = "nils"
  /\ cpc[c] = "receive"
  /\ cpc' = [cpc EXCEPT ![c] = "signal"]
  /\ nils' = nils + 1
  /\ main' = IF nils' = NumConsumer THEN "join" ELSE "nils"
  /\ UNCHANGED <<prodComplete, consComplete, late, ready, number, block, readNum, producerVars, ts>>

\* The report reads the last of Cnt elapsed times: it panics when there is none.
Report ==
  /\ main = "report"
  /\ main' = IF Cnt = 0 THEN "failed" ELSE "finished"
  /\ UNCHANGED <<nils, prodComplete, consComplete, late, consumerVars, producerVars, ts>>

--------------------------------------------------------------------------------

Over == main \in {"report", "finished", "failed"}

Main == StartProducers \/ Report \/ \E c \in Consumers : SendNil(c)

Consumer(c) == TakeNumber(c) \/ Announce(c) \/ StampRead(c) \/ SignalComplete(c)

Producer(p) == StampSend(p) \/ (\E c \in Consumers : Send(p, c)) \/ StampSent(p) \/ SignalDone(p)

Exited ==
  /\ main \in {"finished", "failed"}
  /\ UNCHANGED vars

Next ==
  \/ Main
  \/ \E c \in Consumers : Consumer(c)
  \/ \E p \in Producers : Producer(p)
  \/ Exited

Spec == Init /\ [][Next]_vars

\* The Go scheduler runs every goroutine that can go on; a goroutine that waits
\* on a channel is served when its partner comes.
Fairness ==
  /\ WF_vars(Main)
  /\ \A c \in Consumers : WF_vars(Consumer(c))
  /\ \A p \in Producers : WF_vars(Producer(p))

FairSpec == Spec /\ Fairness

--------------------------------------------------------------------------------
(* Properties.                                                                 *)

AllStamped == \A b \in Blocks : ts[b] = {0, 1, 2}

Joined == (\A p \in Producers : ppc[p] = "exit") /\ (\A c \in Consumers : cpc[c] = "exit")

\* When the report is generated every goroutine of the benchmark has been
\* joined ("// join go routine") and every block carries its three times.
JoinedAll == Over => Joined /\ AllStamped

\* As JoinedAll, for a main goroutine that has heard of every consumer before it
\* starts the producers: then no number of a consumer is mistaken for 1 or 2.
JoinedAllUnlessLate == late = {} => JoinedAll

Holds(c, b) == cpc[c] = "stamp2" /\ block[c] = b

\* A block is received by one consumer, and not again once it is stamped.
ReceivedOnce ==
  \A c \in Consumers, b \in Blocks : Holds(c, b) =>
    /\ 2 \notin ts[b]
    /\ \A d \in Consumers \ {c} : ~Holds(d, b)

\* What the main goroutine has counted is what has happened, unless a late
\* number was counted.
CountersExact ==
  late = {} =>
    /\ prodComplete = Cardinality({p \in Producers : ppc[p] = "exit"})
    /\ consComplete = Cardinality({c \in Consumers : cpc[c] = "exit"})

\* The main goroutine waits for a receiver of nil forever only when every
\* consumer that is left waits to be heard of: it never does when none was late.
NilsServed ==
  main = "nils" /\ late = {} =>
    \E c \in Consumers : cpc[c] \in {"receive", "stamp2"}

\* Turn l of the outer loop and block m of the slice: whether producer p is past
\* them, or at them.
Past(p, l, m) ==
  \/ ppc[p] \in {"signal", "exit"}
  \/ l < i[p]
  \/ l = i[p] /\ m < j[p]

At(p, l, m) == Sending(p) /\ l = i[p] /\ m = j[p]

Received(b) == 2 \in ts[b] \/ \E c \in Consumers : Holds(c, b)

\* The times of a block follow its producer: none is stamped early, twice or by
\* another producer, and what a producer has passed was received.
StampsFollow ==
  \A p \in Producers, l \in 0 .. Loop - 1 : \A m \in Slice(p) :
    LET b == l * CntPerLoop + m
    IN  /\ 0 \in ts[b] <=> Past(p, l, m) \/ (At(p, l, m) /\ ppc[p] # "stamp0")
        /\ Received(b) <=> Past(p, l, m) \/ (At(p, l, m) /\ ppc[p] = "stamp1")
        /\ 1 \in ts[b] <=> Past(p, l, m)

\* The loop variables of a producer stay in its slice.
LoopInv ==
  \A p \in Producers :
    /\ Sending(p) => i[p] < Loop /\ j[p] \in Slice(p)
    /\ ppc[p] = "unborn" => i[p] = 0 /\ j[p] = StartIdx(p)

\* What the main goroutine has done in each of its phases.  It sends nil once, when
\* it has counted the producers, also when it has miscounted them.
PhaseInv ==
  /\ main = "ready" => late = {}
  /\ main \in {"ready", "spawn"} =>
       /\ prodComplete = 0 /\ consComplete = 0 /\ nils = 0
       /\ \A p \in Producers : ppc[p] = "unborn"
  /\ main \in {"join", "nils"} => consComplete < NumConsumer
  /\ prodComplete < NumProducer => nils = 0
  /\ main = "nils" => prodComplete >= NumProducer /\ nils < NumConsumer
  /\ main = "join" /\ prodComplete >= NumProducer => nils = NumConsumer
  /\ Over => consComplete = NumConsumer

\* Every consumer has one number, and nil ends one consumer.
NumbersInv ==
  /\ ready = Cardinality({c \in Consumers : cpc[c] # "start"})
  /\ nils = Cardinality({c \in Consumers : cpc[c] \in {"signal", "exit"}})
  /\ main # "ready" /\ late = {} =>
       \A c \in Consumers : cpc[c] \notin {"start", "announce"}

\* What the two channels carry is what the goroutines have done.
ChannelInv ==
  /\ TypeOK
  /\ LoopInv
  /\ PhaseInv
  /\ NumbersInv
  /\ CountersExact
  /\ NilsServed
  /\ ReceivedOnce
  /\ StampsFollow

\* Every benchmark comes to its report, unless the main goroutine did not wait for
\* some consumer: it may then send nil while everyone else waits for it.
TerminatesUnlessLate == <>(main \in {"finished", "failed"} \/ late # {})

\* A benchmark that has waited for its consumers implements the transfer that
\* every transport promises; any other one transfers its messages, and generates
\* its report at its own risk.
Progress(b) ==
  IF 2 \in ts[b] THEN "read"
  ELSE IF \E c \in Consumers : Holds(c, b) THEN "inflight" ELSE "unsent"

T == INSTANCE Transfer WITH
       Msgs   <- Blocks,
       status <- [b \in Blocks |-> Progress(b)],
       closed <- Over /\ late = {}

TransferSpec == T!Spec

================================================================================
