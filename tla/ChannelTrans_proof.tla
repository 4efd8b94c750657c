--------------------------- MODULE ChannelTrans_proof ---------------------------
(*******************************************************************************)
(* Proofs about ChannelTrans for every number of producers, consumers, loops   *)
(* and blocks.  The invariant is proved in three parts: the loops and times of *)
(* the goroutines, the phases of the main goroutine and its counters, and what *)
(* they mean together for a benchmark that has heard of all its consumers.     *)
(*******************************************************************************)
EXTENDS ChannelTrans, Cells, FiniteSetTheorems

USE ConfigAssumption

--------------------------------------------------------------------------------
(* The division of a loop's blocks among the producers.                        *)

\* The number of blocks is a number.
LEMMA CntType == Cnt \in Nat
  BY DEF Cnt

\* Where a producer's slice begins and ends.
LEMMA SliceBounds ==
  ASSUME NEW p \in Producers
  PROVE  /\ StartIdx(p) = SliceStart(NumProducer, CntPerLoop, p)
         /\ EndIdx(p) = SliceEnd(NumProducer, CntPerLoop, p)
         /\ StartIdx(p) \in Nat /\ StartIdx(p) <= CntPerLoop
         /\ EndIdx(p) \in Nat /\ EndIdx(p) <= CntPerLoop
         /\ StartIdx(p) <= EndIdx(p)
  <1>1. /\ StartIdx(p) = SliceStart(NumProducer, CntPerLoop, p)
        /\ EndIdx(p) = SliceEnd(NumProducer, CntPerLoop, p)
    BY DEF StartIdx, EndIdx, Share, SliceStart, SliceEnd
  <1>2. /\ SliceStart(NumProducer, CntPerLoop, p) \in Nat
        /\ SliceEnd(NumProducer, CntPerLoop, p) \in Nat
        /\ SliceStart(NumProducer, CntPerLoop, p) <= SliceEnd(NumProducer, CntPerLoop, p)
        /\ SliceEnd(NumProducer, CntPerLoop, p) <= CntPerLoop
    BY SliceBound DEF Producers
  <1> QED
    BY <1>1, <1>2

\* A block of a slice is a block of the loop.
LEMMA SliceType ==
  ASSUME NEW p \in Producers, NEW m \in Slice(p)
  PROVE  m \in Nat /\ m < CntPerLoop
  BY SliceBounds DEF Slice

\* A block is in one producer's slice.
LEMMA SliceUnique ==
  ASSUME NEW p \in Producers, NEW q \in Producers, NEW m \in Slice(p), m \in Slice(q)
  PROVE  p = q
  BY SliceBounds, CellOfOneSlice DEF Slice, Producers

\* Every block of a loop is in some slice.
LEMMA SliceCovers ==
  ASSUME NEW m \in Nat, m < CntPerLoop
  PROVE  \E p \in Producers : m \in Slice(p)
  BY SliceBounds, CellOfSomeSlice DEF Slice, Producers

\* A turn of the loops is a block.
LEMMA BlockType ==
  ASSUME NEW p \in Producers, NEW l \in 0 .. Loop - 1, NEW m \in Slice(p)
  PROVE  l * CntPerLoop + m \in Blocks
  <1>1. m \in Nat /\ m < CntPerLoop
    BY SliceType
  <1>2. l * CntPerLoop + m < Loop * CntPerLoop
    BY <1>1, CellBound
  <1>3. l * CntPerLoop \in Nat
    OBVIOUS
  <1> QED
    BY <1>1, <1>2, <1>3 DEF Blocks, Cnt

\* No other turn, of any producer, is the same block.
LEMMA BlockUnique ==
  ASSUME NEW p \in Producers, NEW l \in 0 .. Loop - 1, NEW m \in Slice(p),
         NEW q \in Producers, NEW o \in 0 .. Loop - 1, NEW u \in Slice(q),
         l * CntPerLoop + m = o * CntPerLoop + u
  PROVE  p = q /\ l = o /\ m = u
  <1>1. m \in Nat /\ m < CntPerLoop /\ u \in Nat /\ u < CntPerLoop
    BY SliceType
  <1>2. l = o /\ m = u
    BY <1>1, CellUnique
  <1> QED
    BY <1>2, SliceUnique

\* Every block is a turn of some producer.
LEMMA BlockCovers ==
  ASSUME NEW b \in Blocks
  PROVE  \E p \in Producers, l \in 0 .. Loop - 1 : \E m \in Slice(p) : b = l * CntPerLoop + m
  <1>1. b \in Nat /\ b < Loop * CntPerLoop
    BY CntType DEF Blocks, Cnt
  <1>2. \E l \in 0 .. Loop - 1, m \in 0 .. CntPerLoop - 1 : b = l * CntPerLoop + m
    BY ONLY <1>1, CellExists, Loop \in Nat, CntPerLoop \in Nat, Zenon
  <1>3. PICK l \in 0 .. Loop - 1, m \in 0 .. CntPerLoop - 1 : b = l * CntPerLoop + m
    BY <1>2
  <1>4. PICK p \in Producers : m \in Slice(p)
    BY <1>3, SliceCovers
  <1> QED
    BY <1>3, <1>4

\* The block that a producer works on.
LEMMA CurrentBlock ==
  ASSUME TypeOK, LoopInv, NEW p \in Producers, Sending(p)
  PROVE  /\ i[p] \in 0 .. Loop - 1 /\ j[p] \in Slice(p) /\ j[p] \in Nat
         /\ BlockOf(p) = i[p] * CntPerLoop + j[p]
         /\ BlockOf(p) \in Blocks
  <1>1. i[p] \in 0 .. Loop - 1 /\ j[p] \in Slice(p) /\ j[p] \in Nat
    BY DEF TypeOK, LoopInv
  <1> QED
    BY <1>1, BlockType DEF BlockOf

--------------------------------------------------------------------------------
(* The goroutines in numbers.                                                  *)

\* There are finitely many of both kinds.
LEMMA GoroutineSets ==
  /\ IsFiniteSet(Consumers) /\ Cardinality(Consumers) = NumConsumer
  /\ IsFiniteSet(Producers) /\ Cardinality(Producers) = NumProducer
  /\ \A S \in SUBSET Consumers : IsFiniteSet(S) /\ Cardinality(S) \in 0 .. NumConsumer
  /\ \A S \in SUBSET Producers : IsFiniteSet(S) /\ Cardinality(S) \in 0 .. NumProducer
  <1>1. IsFiniteSet(Consumers) /\ Cardinality(Consumers) = NumConsumer
    <2>1. 1 \in Int /\ NumConsumer \in Int
      OBVIOUS
    <2> QED
      BY <2>1, FS_Interval DEF Consumers
  <1>2. IsFiniteSet(Producers) /\ Cardinality(Producers) = NumProducer
    <2>1. 0 \in Int /\ NumProducer - 1 \in Int
      OBVIOUS
    <2> QED
      BY <2>1, FS_Interval DEF Producers
  <1>3. ASSUME NEW S \in SUBSET Consumers
        PROVE  IsFiniteSet(S) /\ Cardinality(S) \in 0 .. NumConsumer
    <2>1. IsFiniteSet(S) /\ Cardinality(S) <= NumConsumer
      BY <1>1, FS_Subset
    <2>2. Cardinality(S) \in Nat
      BY <2>1, FS_CardinalityType
    <2> QED
      BY <2>1, <2>2
  <1>4. ASSUME NEW S \in SUBSET Producers
        PROVE  IsFiniteSet(S) /\ Cardinality(S) \in 0 .. NumProducer
    <2>1. IsFiniteSet(S) /\ Cardinality(S) <= NumProducer
      BY <1>2, FS_Subset
    <2>2. Cardinality(S) \in Nat
      BY <2>1, FS_CardinalityType
    <2> QED
      BY <2>1, <2>2
  <1> QED
    BY <1>1, <1>2, <1>3, <1>4

\* When one more consumer is in a state, one more is counted there.
LEMMA OneConsumerMore ==
  ASSUME NEW S \in SUBSET Consumers, NEW c \in Consumers, c \notin S
  PROVE  /\ Cardinality(S \cup {c}) = Cardinality(S) + 1
         /\ Cardinality(S) < NumConsumer
  <1>1. IsFiniteSet(S) /\ Cardinality(S \cup {c}) = Cardinality(S) + 1
    BY GoroutineSets, FS_AddElement
  <1>2. S \cup {c} \in SUBSET Consumers
    OBVIOUS
  <1>3. Cardinality(S \cup {c}) \in 0 .. NumConsumer /\ Cardinality(S) \in 0 .. NumConsumer
    BY <1>2, GoroutineSets
  <1> QED
    BY <1>1, <1>3

\* The same for producers.
LEMMA OneProducerMore ==
  ASSUME NEW S \in SUBSET Producers, NEW p \in Producers, p \notin S
  PROVE  Cardinality(S \cup {p}) = Cardinality(S) + 1
  BY GoroutineSets, FS_AddElement

\* A goroutine of each kind exists, and a full count is a count of all of them.
LEMMA AllCounted ==
  /\ \A S \in SUBSET Consumers : Cardinality(S) = NumConsumer => S = Consumers
  /\ \A S \in SUBSET Producers : Cardinality(S) >= NumProducer => S = Producers
  <1>1. ASSUME NEW S \in SUBSET Consumers, Cardinality(S) = NumConsumer
        PROVE  S = Consumers
    BY <1>1, GoroutineSets, FS_Subset
  <1>2. ASSUME NEW S \in SUBSET Producers, Cardinality(S) >= NumProducer
        PROVE  S = Producers
    <2>1. Cardinality(S) = NumProducer
      BY <1>2, GoroutineSets
    <2> QED
      BY <2>1, GoroutineSets, FS_Subset
  <1> QED
    BY <1>1, <1>2

--------------------------------------------------------------------------------
(* The main goroutine.                                                         *)

\* A number that the main goroutine receives, whatever it means, keeps its phases
\* in order.
LEMMA SignalPhase ==
  ASSUME TypeOK, PhaseInv, NEW v, Signal(v),
         main = "ready" => ppc' = ppc
  PROVE  /\ PhaseInv'
         /\ main' \in {"ready", "spawn", "join", "nils", "report", "finished", "failed"}
         /\ nils' = nils /\ prodComplete' \in Nat /\ consComplete' \in 0 .. NumConsumer
         /\ late' \subseteq Consumers
         /\ late' # late => main = "ready" /\ main' = "spawn"
         /\ main = "ready" => prodComplete' = prodComplete /\ consComplete' = consComplete
         /\ main # "ready" => main = "join" /\ main' # "ready"
         /\ main = "ready" /\ main' # "ready" => late' = NotAnnounced
  <1> USE DEF TypeOK, PhaseInv, Over
  <1>1. CASE SignalReady(v)
    BY <1>1 DEF SignalReady, NotAnnounced
  <1>2. CASE SignalProducer(v)
    BY <1>2 DEF SignalProducer
  <1>3. CASE SignalConsumer(v)
    BY <1>3 DEF SignalConsumer
  <1>4. CASE SignalOther(v)
    BY <1>4 DEF SignalOther, mainVars
  <1> QED
    BY <1>1, <1>2, <1>3, <1>4 DEF Signal

\* Once a producer has finished, the main goroutine takes a 1 for a producer's.
LEMMA SignalOne ==
  ASSUME main # "ready", Signal(ProducerComplete)
  PROVE  prodComplete' = prodComplete + 1 /\ UNCHANGED <<consComplete, late>>
  BY DEF Signal, SignalReady, SignalProducer, SignalConsumer, SignalOther,
         ProducerComplete, ConsumerComplete

\* It takes a 2 for a consumer's.
LEMMA SignalTwo ==
  ASSUME main # "ready", Signal(ConsumerComplete)
  PROVE  /\ consComplete' = consComplete + 1 /\ UNCHANGED <<prodComplete, late>>
         /\ main' = IF consComplete' = NumConsumer THEN "report" ELSE "join"
  BY DEF Signal, SignalReady, SignalProducer, SignalConsumer, SignalOther,
         ProducerComplete, ConsumerComplete

\* No consumer has ended before the main goroutine has sent nil.
LEMMA EndedAfterNil ==
  ASSUME TypeOK, NumbersInv, NEW c \in Consumers, cpc[c] \in {"signal", "exit"}
  PROVE  nils > 0
  <1> DEFINE S == {d \in Consumers : cpc[d] \in {"signal", "exit"}}
  <1>1. S \in SUBSET Consumers /\ S # {} /\ nils = Cardinality(S)
    BY DEF NumbersInv
  <1> HIDE DEF S
  <1>2. IsFiniteSet(S) /\ Cardinality(S) \in Nat
    BY <1>1, GoroutineSets
  <1>3. Cardinality(S) # 0
    BY <1>1, <1>2, FS_EmptySet
  <1> QED
    BY <1>1, <1>2, <1>3

--------------------------------------------------------------------------------
(* The inductive invariant: ChannelInv without NilsServed, which follows.      *)

Inductive ==
  /\ TypeOK
  /\ LoopInv
  /\ PhaseInv
  /\ NumbersInv
  /\ CountersExact
  /\ ReceivedOnce
  /\ StampsFollow

\* While the main goroutine has not sent every nil some consumer is left for one.
LEMMA NilsAreServed ==
  ASSUME TypeOK, PhaseInv, NumbersInv
  PROVE  NilsServed
  <1> SUFFICES ASSUME main = "nils", late = {}, \A c \in Consumers : cpc[c] \notin {"receive", "stamp2"}
               PROVE  FALSE
    BY DEF NilsServed
  <1>1. {c \in Consumers : cpc[c] \in {"signal", "exit"}} = Consumers
    BY DEF NumbersInv, TypeOK
  <1>2. nils = NumConsumer
    BY <1>1, GoroutineSets DEF NumbersInv
  <1> QED
    BY <1>2 DEF PhaseInv

\* Steps that stamp no block and move no producer in its loops.
LEMMA StampsFrame ==
  ASSUME ReceivedOnce, StampsFollow, UNCHANGED <<ts, block, i, j>>,
         \A c \in Consumers : cpc'[c] = "stamp2" <=> cpc[c] = "stamp2",
         \A p \in Producers : ppc'[p] = ppc[p] \/ (ppc[p] = "signal" /\ ppc'[p] = "exit")
  PROVE  (ReceivedOnce /\ StampsFollow)'
  <1>1. \A c \in Consumers, b \in Blocks : Holds(c, b)' <=> Holds(c, b)
    BY DEF Holds
  <1>2. ReceivedOnce'
    BY <1>1 DEF ReceivedOnce
  <1>3. \A b \in Blocks : Received(b)' <=> Received(b)
    BY <1>1 DEF Received
  <1>4. \A p \in Producers, l \in 0 .. Loop - 1 : \A m \in Slice(p) :
          /\ Past(p, l, m)' <=> Past(p, l, m)
          /\ At(p, l, m)' <=> At(p, l, m)
          /\ At(p, l, m) => ppc'[p] = ppc[p]
    BY DEF Past, At, Sending
  <1>5. ASSUME NEW p \in Producers, NEW l \in 0 .. Loop - 1, NEW m \in Slice(p),
               NEW b, b = l * CntPerLoop + m
        PROVE  /\ 0 \in ts'[b] <=> Past(p, l, m)' \/ (At(p, l, m)' /\ ppc'[p] # "stamp0")
               /\ Received(b)' <=> Past(p, l, m)' \/ (At(p, l, m)' /\ ppc'[p] = "stamp1")
               /\ 1 \in ts'[b] <=> Past(p, l, m)'
    <2>1. b \in Blocks
      BY <1>5, BlockType
    <2>2. /\ 0 \in ts[b] <=> Past(p, l, m) \/ (At(p, l, m) /\ ppc[p] # "stamp0")
          /\ Received(b) <=> Past(p, l, m) \/ (At(p, l, m) /\ ppc[p] = "stamp1")
          /\ 1 \in ts[b] <=> Past(p, l, m)
      BY <1>5 DEF StampsFollow
    <2> QED
      BY <1>3, <1>4, <2>1, <2>2
  <1>6. StampsFollow'
    BY <1>5 DEF StampsFollow, Slice, StartIdx, EndIdx, Share
  <1> QED
    BY <1>2, <1>6

\* Steps that leave the main goroutine alone, and which consumers have ended.
LEMMA CountsFrame ==
  ASSUME PhaseInv, NumbersInv, CountersExact, UNCHANGED mainVars,
         \A c \in Consumers : cpc'[c] \in {"signal", "exit"} <=> cpc[c] \in {"signal", "exit"},
         \A c \in Consumers : cpc'[c] = "exit" <=> cpc[c] = "exit",
         \A p \in Producers : ppc'[p] = "exit" <=> ppc[p] = "exit",
         main \in {"ready", "spawn"} => ppc' = ppc
  PROVE  /\ (PhaseInv /\ CountersExact)'
         /\ nils' = Cardinality({c \in Consumers : cpc'[c] \in {"signal", "exit"}})
  <1> USE DEF mainVars
  <1>1. PhaseInv'
    BY DEF PhaseInv, Over
  <1>2. /\ {c \in Consumers : cpc'[c] \in {"signal", "exit"}} = {c \in Consumers : cpc[c] \in {"signal", "exit"}}
        /\ {c \in Consumers : cpc'[c] = "exit"} = {c \in Consumers : cpc[c] = "exit"}
        /\ {p \in Producers : ppc'[p] = "exit"} = {p \in Producers : ppc[p] = "exit"}
    OBVIOUS
  <1>3. CountersExact'
    BY <1>2 DEF CountersExact
  <1> QED
    BY <1>1, <1>2, <1>3 DEF NumbersInv

\* The same when no consumer takes a number either.
LEMMA NumbersFrame ==
  ASSUME NumbersInv, ready' = ready, UNCHANGED mainVars,
         \A c \in Consumers : cpc'[c] \in {"signal", "exit"} <=> cpc[c] \in {"signal", "exit"},
         \A c \in Consumers : cpc'[c] = "start" <=> cpc[c] = "start",
         \A c \in Consumers : cpc'[c] = "announce" <=> cpc[c] = "announce"
  PROVE  NumbersInv'
  <1>1. /\ {c \in Consumers : cpc'[c] \in {"signal", "exit"}} = {c \in Consumers : cpc[c] \in {"signal", "exit"}}
        /\ {c \in Consumers : cpc'[c] # "start"} = {c \in Consumers : cpc[c] # "start"}
    OBVIOUS
  <1> QED
    BY <1>1 DEF NumbersInv, mainVars

--------------------------------------------------------------------------------
(* The initial states.                                                         *)

\* The invariant holds at the start.
LEMMA ChannelInit == Init => Inductive
  <1> SUFFICES ASSUME Init PROVE Inductive
    OBVIOUS
  <1> USE DEF Init
  <1>1. TypeOK
    <2>1. \A p \in Producers : StartIdx(p) \in 0 .. CntPerLoop
      BY SliceBounds
    <2>2. j \in [Producers -> 0 .. CntPerLoop]
      BY <2>1
    <2> QED
      BY <2>2 DEF TypeOK
  <1>2. LoopInv
    BY DEF LoopInv, Sending
  <1>3. PhaseInv
    BY DEF PhaseInv, Over
  <1>4. /\ {c \in Consumers : cpc[c] # "start"} = {}
        /\ {c \in Consumers : cpc[c] \in {"signal", "exit"}} = {}
        /\ {c \in Consumers : cpc[c] = "exit"} = {}
        /\ {p \in Producers : ppc[p] = "exit"} = {}
    OBVIOUS
  <1>5. NumbersInv /\ CountersExact
    BY <1>4, FS_EmptySet DEF NumbersInv, CountersExact
  <1>6. ReceivedOnce
    BY DEF ReceivedOnce, Holds
  <1>7. StampsFollow
    <2> SUFFICES ASSUME NEW p \in Producers, NEW l \in 0 .. Loop - 1, NEW m \in Slice(p),
                        NEW b, b = l * CntPerLoop + m
                 PROVE  ts[b] = {} /\ ~Received(b) /\ ~Past(p, l, m) /\ ~At(p, l, m)
      BY DEF StampsFollow
    <2>1. b \in Blocks
      BY BlockType
    <2>2. m >= StartIdx(p)
      BY SliceBounds DEF Slice
    <2>3. ~Past(p, l, m) /\ ~At(p, l, m)
      BY <2>2, SliceBounds, SliceType DEF Past, At, Sending
    <2> QED
      BY <2>1, <2>3 DEF Received, Holds
  <1> QED
    BY <1>1, <1>2, <1>3, <1>5, <1>6, <1>7 DEF Inductive

--------------------------------------------------------------------------------
(* The steps of a consumer.                                                    *)

\* A consumer that starts gets a number that there is.
LEMMA TakeNumberStep ==
  ASSUME Inductive, NEW c \in Consumers, TakeNumber(c)
  PROVE  Inductive'
  <1> USE DEF Inductive
  <1>1. /\ cpc[c] = "start"
        /\ ready' = ready + 1
        /\ number' = [number EXCEPT ![c] = ready + 1]
        /\ cpc' = [cpc EXCEPT ![c] = "announce"]
        /\ UNCHANGED <<mainVars, block, readNum, producerVars, ts>>
    BY DEF TakeNumber
  <1>2. cpc'[c] = "announce" /\ \A d \in Consumers \ {c} : cpc'[d] = cpc[d]
    BY <1>1 DEF TypeOK
  <1> DEFINE S == {d \in Consumers : cpc[d] # "start"}
  <1>3. /\ {d \in Consumers : cpc'[d] # "start"} = S \cup {c}
        /\ S \in SUBSET Consumers /\ c \notin S
    BY <1>1, <1>2
  <1>4. Cardinality(S) = ready
    BY DEF NumbersInv
  <1> HIDE DEF S
  <1>5. ready < NumConsumer /\ ready' = Cardinality({d \in Consumers : cpc'[d] # "start"})
    BY <1>1, <1>3, <1>4, OneConsumerMore
  <1>6. TypeOK'
    BY <1>1, <1>5 DEF TypeOK, mainVars, producerVars
  <1>7. LoopInv'
    BY <1>1 DEF LoopInv, Sending, producerVars, Slice, StartIdx, EndIdx, Share
  <1>8. /\ (PhaseInv /\ CountersExact)'
        /\ nils' = Cardinality({d \in Consumers : cpc'[d] \in {"signal", "exit"}})
    BY <1>1, <1>2, CountsFrame DEF producerVars
  <1>9. NumbersInv'
    BY <1>1, <1>5, <1>8 DEF NumbersInv, mainVars
  <1>10. (ReceivedOnce /\ StampsFollow)'
    BY <1>1, <1>2, StampsFrame DEF producerVars
  <1> QED
    BY <1>6, <1>7, <1>8, <1>9, <1>10

\* A consumer that announces itself late is one that was not waited for.
LEMMA AnnounceStep ==
  ASSUME Inductive, NEW c \in Consumers, Announce(c)
  PROVE  Inductive'
  <1> USE DEF Inductive
  <1>1. /\ cpc[c] = "announce"
        /\ cpc' = [cpc EXCEPT ![c] = "receive"]
        /\ Signal(number[c])
        /\ UNCHANGED <<ready, number, block, readNum, producerVars, ts>>
    BY DEF Announce
  <1>2. cpc'[c] = "receive" /\ \A d \in Consumers \ {c} : cpc'[d] = cpc[d]
    BY <1>1 DEF TypeOK
  <1>3. /\ PhaseInv'
        /\ main' \in {"ready", "spawn", "join", "nils", "report", "finished", "failed"}
        /\ nils' = nils /\ prodComplete' \in Nat /\ consComplete' \in 0 .. NumConsumer
        /\ late' \subseteq Consumers
        /\ late' # late => main = "ready" /\ main' = "spawn"
        /\ main = "ready" => prodComplete' = prodComplete /\ consComplete' = consComplete
        /\ main = "ready" /\ main' # "ready" => late' = NotAnnounced
    <2>1. ppc' = ppc
      BY <1>1 DEF producerVars
    <2> QED
      BY <1>1, <2>1, SignalPhase
  <1>4. TypeOK'
    BY <1>1, <1>3 DEF TypeOK, producerVars
  <1>5. LoopInv'
    BY <1>1 DEF LoopInv, Sending, producerVars, Slice, StartIdx, EndIdx, Share
  <1>6. main # "ready" => late' # {}
    BY <1>1, <1>3 DEF NumbersInv
  <1>7. NumbersInv'
    <2>1. /\ {d \in Consumers : cpc'[d] # "start"} = {d \in Consumers : cpc[d] # "start"}
          /\ {d \in Consumers : cpc'[d] \in {"signal", "exit"}}
               = {d \in Consumers : cpc[d] \in {"signal", "exit"}}
      BY <1>1, <1>2
    <2>2. ASSUME main' # "ready", late' = {}
          PROVE  \A d \in Consumers : cpc'[d] \notin {"start", "announce"}
      BY <1>3, <1>6, <2>2 DEF NotAnnounced
    <2> QED
      BY <1>1, <1>3, <2>1, <2>2 DEF NumbersInv
  <1>8. CountersExact'
    <2> SUFFICES ASSUME late' = {}
                 PROVE  CountersExact'
      BY DEF CountersExact
    <2>1. main = "ready" /\ late = {}
      BY <1>6 DEF PhaseInv
    <2>2. {d \in Consumers : cpc'[d] = "exit"} = {d \in Consumers : cpc[d] = "exit"}
      BY <1>1, <1>2
    <2> QED
      BY <1>1, <1>3, <2>1, <2>2 DEF CountersExact, producerVars
  <1>9. (ReceivedOnce /\ StampsFollow)'
    BY <1>1, <1>2, StampsFrame DEF producerVars
  <1> QED
    BY <1>3, <1>4, <1>5, <1>7, <1>8, <1>9

\* The stamp of the read is the third of its block, and no other consumer's.
LEMMA StampReadStep ==
  ASSUME Inductive, NEW c \in Consumers, StampRead(c)
  PROVE  Inductive'
  <1> USE DEF Inductive
  <1> DEFINE own == block[c]
  <1>1. /\ cpc[c] = "stamp2"
        /\ ts' = [ts EXCEPT ![own] = @ \cup {2}]
        /\ readNum' = [readNum EXCEPT ![c] = @ + 1]
        /\ cpc' = [cpc EXCEPT ![c] = "receive"]
        /\ UNCHANGED <<mainVars, ready, number, block, producerVars>>
    BY DEF StampRead
  <1>2. cpc'[c] = "receive" /\ \A d \in Consumers \ {c} : cpc'[d] = cpc[d]
    BY <1>1 DEF TypeOK
  <1>3. \A b \in Blocks : /\ ts'[b] = IF b = own THEN ts[b] \cup {2} ELSE ts[b]
    BY <1>1 DEF TypeOK
  <1>4. TypeOK'
    <2>1. ts' \in [Blocks -> SUBSET {0, 1, 2}]
      BY <1>1, <1>3 DEF TypeOK
    <2>2. readNum' \in [Consumers -> Nat]
      BY <1>1 DEF TypeOK
    <2> QED
      BY <1>1, <2>1, <2>2 DEF TypeOK, mainVars, producerVars
  <1>5. LoopInv'
    BY <1>1 DEF LoopInv, Sending, producerVars, Slice, StartIdx, EndIdx, Share
  <1>6. (PhaseInv /\ CountersExact)'
    BY <1>1, <1>2, CountsFrame DEF producerVars
  <1>7. NumbersInv'
    BY <1>1, <1>2, NumbersFrame
  <1>8. \A d \in Consumers, b \in Blocks : Holds(d, b)' <=> d # c /\ Holds(d, b)
    BY <1>1, <1>2 DEF Holds
  <1>9. ReceivedOnce'
    <2> SUFFICES ASSUME NEW d \in Consumers, NEW b \in Blocks, Holds(d, b)'
                 PROVE  2 \notin ts'[b] /\ \A e \in Consumers \ {d} : ~Holds(e, b)'
      BY DEF ReceivedOnce
    <2>1. d # c /\ Holds(d, b) /\ 2 \notin ts[b] /\ \A e \in Consumers \ {d} : ~Holds(e, b)
      BY <1>8 DEF ReceivedOnce
    <2>2. b # own
      BY <1>1, <2>1 DEF Holds
    <2> QED
      BY <1>3, <1>8, <2>1, <2>2
  <1>10. \A b \in Blocks : (Received(b)' <=> Received(b))
                         /\ (0 \in ts'[b] <=> 0 \in ts[b]) /\ (1 \in ts'[b] <=> 1 \in ts[b])
    <2> SUFFICES ASSUME NEW b \in Blocks
                 PROVE  (Received(b)' <=> Received(b))
                        /\ (0 \in ts'[b] <=> 0 \in ts[b]) /\ (1 \in ts'[b] <=> 1 \in ts[b])
      OBVIOUS
    <2>1. (0 \in ts'[b] <=> 0 \in ts[b]) /\ (1 \in ts'[b] <=> 1 \in ts[b])
      <3>1. \A S : (0 \in S \cup {2} <=> 0 \in S) /\ (1 \in S \cup {2} <=> 1 \in S)
        OBVIOUS
      <3>2. ts'[b] = ts[b] \/ ts'[b] = ts[b] \cup {2}
        BY <1>3
      <3> QED
        BY ONLY <3>1, <3>2, Zenon
    <2>2. CASE b = own
      BY <1>1, <1>3, <2>1, <2>2 DEF Received, Holds
    <2>3. CASE b # own
      <3>1. ~Holds(c, b)
        BY <2>3 DEF Holds
      <3> QED
        BY <1>3, <1>8, <2>1, <2>3, <3>1 DEF Received
    <2> QED
      BY <2>2, <2>3
  <1>11. StampsFollow'
    <2> SUFFICES ASSUME NEW p \in Producers, NEW l \in 0 .. Loop - 1, NEW m \in Slice(p),
                        NEW b, b = l * CntPerLoop + m
                 PROVE  /\ 0 \in ts'[b] <=> Past(p, l, m) \/ (At(p, l, m) /\ ppc[p] # "stamp0")
                        /\ Received(b)' <=> Past(p, l, m) \/ (At(p, l, m) /\ ppc[p] = "stamp1")
                        /\ 1 \in ts'[b] <=> Past(p, l, m)
      BY <1>1 DEF StampsFollow, Slice, StartIdx, EndIdx, Share, Past, At, Sending, producerVars
    <2>1. b \in Blocks
      BY BlockType
    <2>2. /\ 0 \in ts[b] <=> Past(p, l, m) \/ (At(p, l, m) /\ ppc[p] # "stamp0")
          /\ Received(b) <=> Past(p, l, m) \/ (At(p, l, m) /\ ppc[p] = "stamp1")
          /\ 1 \in ts[b] <=> Past(p, l, m)
      BY DEF StampsFollow
    <2> QED
      BY <1>10, <2>1, <2>2
  <1> QED
    BY <1>4, <1>5, <1>6, <1>7, <1>9, <1>11

\* A consumer that is complete is counted, and everyone has been heard of.
LEMMA SignalCompleteStep ==
  ASSUME Inductive, NEW c \in Consumers, SignalComplete(c)
  PROVE  Inductive'
  <1> USE DEF Inductive
  <1>1. /\ cpc[c] = "signal"
        /\ cpc' = [cpc EXCEPT ![c] = "exit"]
        /\ Signal(ConsumerComplete)
        /\ UNCHANGED <<ready, number, block, readNum, producerVars, ts>>
    BY DEF SignalComplete
  <1>2. cpc'[c] = "exit" /\ \A d \in Consumers \ {c} : cpc'[d] = cpc[d]
    BY <1>1 DEF TypeOK
  <1>3. main # "ready"
    BY <1>1, EndedAfterNil DEF PhaseInv
  <1>4. /\ PhaseInv'
        /\ main' \in {"ready", "spawn", "join", "nils", "report", "finished", "failed"}
        /\ nils' = nils /\ prodComplete' \in Nat /\ consComplete' \in 0 .. NumConsumer
        /\ late' \subseteq Consumers
        /\ main' # "ready"
    BY <1>1, <1>3, SignalPhase
  <1>5. consComplete' = consComplete + 1 /\ UNCHANGED <<prodComplete, late>>
    BY <1>1, <1>3, SignalTwo
  <1>6. TypeOK'
    BY <1>1, <1>4 DEF TypeOK, producerVars
  <1>7. LoopInv'
    BY <1>1 DEF LoopInv, Sending, producerVars, Slice, StartIdx, EndIdx, Share
  <1>8. NumbersInv'
    <2>1. /\ {d \in Consumers : cpc'[d] # "start"} = {d \in Consumers : cpc[d] # "start"}
          /\ {d \in Consumers : cpc'[d] \in {"signal", "exit"}}
               = {d \in Consumers : cpc[d] \in {"signal", "exit"}}
      BY <1>1, <1>2
    <2>2. ASSUME late = {}
          PROVE  \A d \in Consumers : cpc'[d] \notin {"start", "announce"}
      BY <1>1, <1>2, <1>3, <2>2 DEF NumbersInv
    <2> QED
      BY <1>1, <1>4, <1>5, <2>1, <2>2 DEF NumbersInv
  <1>9. CountersExact'
    <2> DEFINE S == {d \in Consumers : cpc[d] = "exit"}
    <2>1. /\ {d \in Consumers : cpc'[d] = "exit"} = S \cup {c}
          /\ S \in SUBSET Consumers /\ c \notin S
      BY <1>1, <1>2
    <2>2. late = {} => consComplete = Cardinality(S)
      BY DEF CountersExact
    <2> HIDE DEF S
    <2>3. late = {} => consComplete' = Cardinality({d \in Consumers : cpc'[d] = "exit"})
      BY <1>5, <2>1, <2>2, OneConsumerMore
    <2> QED
      BY <1>1, <1>5, <2>3 DEF CountersExact, producerVars
  <1>10. (ReceivedOnce /\ StampsFollow)'
    BY <1>1, <1>2, StampsFrame DEF producerVars
  <1> QED
    BY <1>4, <1>6, <1>7, <1>8, <1>9, <1>10


--------------------------------------------------------------------------------
(* The steps of a producer.                                                    *)

\* The block a producer works on is no other turn's.
LEMMA OwnTurn ==
  ASSUME TypeOK, LoopInv, NEW p \in Producers, Sending(p),
         NEW q \in Producers, NEW l \in 0 .. Loop - 1, NEW m \in Slice(q),
         NEW b, b = l * CntPerLoop + m
  PROVE  b = BlockOf(p) <=> q = p /\ l = i[p] /\ m = j[p]
  <1>1. /\ i[p] \in 0 .. Loop - 1 /\ j[p] \in Slice(p)
        /\ BlockOf(p) = i[p] * CntPerLoop + j[p]
    BY CurrentBlock
  <1>2. ASSUME b = BlockOf(p)
        PROVE  q = p /\ l = i[p] /\ m = j[p]
    BY <1>1, <1>2, BlockUnique
  <1> QED
    BY <1>1, <1>2

\* StampsFollow for one turn.
LEMMA TurnStamps ==
  ASSUME StampsFollow, NEW p \in Producers, NEW l \in 0 .. Loop - 1, NEW m \in Slice(p),
         NEW b, b = l * CntPerLoop + m
  PROVE  /\ 0 \in ts[b] <=> Past(p, l, m) \/ (At(p, l, m) /\ ppc[p] # "stamp0")
         /\ Received(b) <=> Past(p, l, m) \/ (At(p, l, m) /\ ppc[p] = "stamp1")
         /\ 1 \in ts[b] <=> Past(p, l, m)
  BY DEF StampsFollow

\* What a producer has not passed is the block it works on.
LEMMA NotPast ==
  ASSUME TypeOK, LoopInv, NEW p \in Producers, Sending(p)
  PROVE  At(p, i[p], j[p]) /\ ~Past(p, i[p], j[p])
  BY CurrentBlock DEF At, Past, Sending

\* The first time of a block comes before it is sent.
LEMMA StampSendStep ==
  ASSUME Inductive, NEW p \in Producers, StampSend(p)
  PROVE  Inductive'
  <1> USE DEF Inductive
  <1>0. PICK own : own = BlockOf(p)
    OBVIOUS
  <1>1. /\ ppc[p] = "stamp0"
        /\ ts' = [ts EXCEPT ![own] = @ \cup {0}]
        /\ ppc' = [ppc EXCEPT ![p] = "send"]
        /\ UNCHANGED <<mainVars, consumerVars, i, j>>
    BY <1>0 DEF StampSend
  <1>2. ppc'[p] = "send" /\ \A q \in Producers \ {p} : ppc'[q] = ppc[q]
    BY <1>1 DEF TypeOK
  <1>3. Sending(p) /\ own \in Blocks
    BY <1>0, <1>1, CurrentBlock DEF Sending
  <1>4. \A b \in Blocks : ts'[b] = IF b = own THEN ts[b] \cup {0} ELSE ts[b]
    BY <1>1 DEF TypeOK
  <1>5. TypeOK'
    <2>1. ts' \in [Blocks -> SUBSET {0, 1, 2}]
      BY <1>1, <1>3, <1>4 DEF TypeOK
    <2> QED
      BY <1>1, <2>1 DEF TypeOK, mainVars, consumerVars
  <1>6. LoopInv'
    BY <1>1, <1>2 DEF LoopInv, Sending, Slice, StartIdx, EndIdx, Share
  <1>7. main \notin {"ready", "spawn"}
    BY <1>1 DEF PhaseInv
  <1>8. (PhaseInv /\ CountersExact)'
    BY <1>1, <1>2, <1>7, CountsFrame DEF consumerVars
  <1>9. NumbersInv'
    BY <1>1, NumbersFrame DEF consumerVars
  <1>10. \A b \in Blocks : /\ (0 \in ts'[b]) <=> (b = own \/ 0 \in ts[b])
                           /\ (1 \in ts'[b]) <=> (1 \in ts[b])
                           /\ (2 \in ts'[b]) <=> (2 \in ts[b])
    <2> SUFFICES ASSUME NEW b \in Blocks
                 PROVE  /\ (0 \in ts'[b]) <=> (b = own \/ 0 \in ts[b])
                        /\ (1 \in ts'[b]) <=> (1 \in ts[b])
                        /\ (2 \in ts'[b]) <=> (2 \in ts[b])
      OBVIOUS
    <2>1. \A S : 0 \in S \cup {0} /\ (1 \in S \cup {0} <=> 1 \in S) /\ (2 \in S \cup {0} <=> 2 \in S)
      OBVIOUS
    <2>2. (b = own /\ ts'[b] = ts[b] \cup {0}) \/ (b # own /\ ts'[b] = ts[b])
      BY <1>4
    <2> QED
      BY ONLY <2>1, <2>2, Zenon
  <1>11. \A c \in Consumers, b \in Blocks : Holds(c, b)' <=> Holds(c, b)
    BY <1>1 DEF Holds, consumerVars
  <1>12. ReceivedOnce'
    <2> SUFFICES ASSUME NEW c \in Consumers, NEW b \in Blocks, Holds(c, b)'
                 PROVE  2 \notin ts'[b] /\ \A d \in Consumers \ {c} : ~Holds(d, b)'
      BY DEF ReceivedOnce
    <2>1. 2 \notin ts[b] /\ \A d \in Consumers \ {c} : ~Holds(d, b)
      BY <1>11 DEF ReceivedOnce
    <2>2. (2 \in ts'[b]) <=> (2 \in ts[b])
      BY <1>10
    <2> QED
      BY <1>11, <2>1, <2>2
  <1>13. ASSUME NEW b \in Blocks
         PROVE  Received(b)' <=> Received(b)
    <2>1. (2 \in ts'[b]) <=> (2 \in ts[b])
      BY <1>10
    <2> QED
      BY <1>11, <2>1 DEF Received
  <1>14. StampsFollow'
    <2> SUFFICES ASSUME NEW q \in Producers, NEW l \in 0 .. Loop - 1, NEW m \in Slice(q),
                        NEW b, b = l * CntPerLoop + m
                 PROVE  /\ 0 \in ts'[b] <=> Past(q, l, m)' \/ (At(q, l, m)' /\ ppc'[q] # "stamp0")
                        /\ Received(b)' <=> Past(q, l, m)' \/ (At(q, l, m)' /\ ppc'[q] = "stamp1")
                        /\ 1 \in ts'[b] <=> Past(q, l, m)'
      BY DEF StampsFollow, Slice, StartIdx, EndIdx, Share
    <2>1. b \in Blocks
      BY BlockType
    <2>2. /\ 0 \in ts[b] <=> Past(q, l, m) \/ (At(q, l, m) /\ ppc[q] # "stamp0")
          /\ Received(b) <=> Past(q, l, m) \/ (At(q, l, m) /\ ppc[q] = "stamp1")
          /\ 1 \in ts[b] <=> Past(q, l, m)
      BY TurnStamps
    <2>3. (Past(q, l, m)' <=> Past(q, l, m)) /\ (At(q, l, m)' <=> At(q, l, m))
      BY <1>1, <1>2 DEF Past, At, Sending
    <2>4. b = own <=> q = p /\ l = i[p] /\ m = j[p]
      BY <1>0, <1>3, OwnTurn
    <2>7. /\ (0 \in ts'[b]) <=> (b = own \/ 0 \in ts[b])
          /\ (1 \in ts'[b]) <=> (1 \in ts[b])
          /\ Received(b)' <=> Received(b)
      BY <1>10, <1>13, <2>1
    <2>5. CASE b = own
      <3>1. At(q, l, m) /\ ~Past(q, l, m) /\ ppc[q] = "stamp0" /\ ppc'[q] = "send"
        BY <1>1, <1>2, <1>3, <2>4, <2>5, NotPast
      <3> QED
        BY <2>2, <2>3, <2>5, <2>7, <3>1
    <2>6. CASE b # own
      <3>1. q # p \/ ~At(q, l, m)
        BY <2>4, <2>6 DEF At
      <3>2. At(q, l, m) => ppc'[q] = ppc[q]
        BY <1>2, <3>1
      <3> QED
        BY <2>2, <2>3, <2>6, <2>7, <3>2
    <2> QED
      BY <2>5, <2>6
  <1> QED
    BY <1>5, <1>6, <1>8, <1>9, <1>12, <1>14

\* A block is sent when nobody has it.
LEMMA SendStep ==
  ASSUME Inductive, NEW p \in Producers, NEW c \in Consumers, Send(p, c)
  PROVE  Inductive'
  <1> USE DEF Inductive
  <1> DEFINE own == BlockOf(p)
  <1>1. /\ ppc[p] = "send" /\ cpc[c] = "receive"
        /\ block' = [block EXCEPT ![c] = own]
        /\ cpc' = [cpc EXCEPT ![c] = "stamp2"]
        /\ ppc' = [ppc EXCEPT ![p] = "stamp1"]
        /\ UNCHANGED <<mainVars, ready, number, readNum, i, j, ts>>
    BY DEF Send
  <1>2. /\ ppc'[p] = "stamp1" /\ \A q \in Producers \ {p} : ppc'[q] = ppc[q]
        /\ cpc'[c] = "stamp2" /\ \A d \in Consumers \ {c} : cpc'[d] = cpc[d]
        /\ block'[c] = own /\ \A d \in Consumers \ {c} : block'[d] = block[d]
    BY <1>1 DEF TypeOK
  <1>3. /\ Sending(p) /\ own \in Blocks
        /\ i[p] \in 0 .. Loop - 1 /\ j[p] \in Slice(p) /\ own = i[p] * CntPerLoop + j[p]
    BY <1>1, CurrentBlock DEF Sending
  <1>4. ~Received(own)
    BY <1>1, <1>3, NotPast, TurnStamps
  <1>5. TypeOK'
    BY <1>1, <1>3 DEF TypeOK, mainVars
  <1>6. LoopInv'
    BY <1>1, <1>2 DEF LoopInv, Sending, Slice, StartIdx, EndIdx, Share
  <1>7. main \notin {"ready", "spawn"}
    BY <1>1 DEF PhaseInv
  <1>8. (PhaseInv /\ CountersExact)'
    BY <1>1, <1>2, <1>7, CountsFrame
  <1>9. NumbersInv'
    BY <1>1, <1>2, NumbersFrame
  <1>10. \A d \in Consumers, b \in Blocks : Holds(d, b)' <=> (d = c /\ b = own) \/ Holds(d, b)
    BY <1>1, <1>2 DEF Holds
  <1>11. ReceivedOnce'
    <2> SUFFICES ASSUME NEW d \in Consumers, NEW b \in Blocks, Holds(d, b)'
                 PROVE  2 \notin ts'[b] /\ \A e \in Consumers \ {d} : ~Holds(e, b)'
      BY DEF ReceivedOnce
    <2>1. CASE b = own
      BY <1>1, <1>4, <1>10, <2>1 DEF Received
    <2>2. CASE b # own
      BY <1>1, <1>10, <2>2 DEF ReceivedOnce
    <2> QED
      BY <2>1, <2>2
  <1>12. \A b \in Blocks : Received(b)' <=> b = own \/ Received(b)
    BY <1>1, <1>10 DEF Received
  <1>13. StampsFollow'
    <2> SUFFICES ASSUME NEW q \in Producers, NEW l \in 0 .. Loop - 1, NEW m \in Slice(q),
                        NEW b, b = l * CntPerLoop + m
                 PROVE  /\ 0 \in ts[b] <=> Past(q, l, m)' \/ (At(q, l, m)' /\ ppc'[q] # "stamp0")
                        /\ Received(b)' <=> Past(q, l, m)' \/ (At(q, l, m)' /\ ppc'[q] = "stamp1")
                        /\ 1 \in ts[b] <=> Past(q, l, m)'
      BY <1>1 DEF StampsFollow, Slice, StartIdx, EndIdx, Share
    <2>1. b \in Blocks
      BY BlockType
    <2>2. /\ 0 \in ts[b] <=> Past(q, l, m) \/ (At(q, l, m) /\ ppc[q] # "stamp0")
          /\ Received(b) <=> Past(q, l, m) \/ (At(q, l, m) /\ ppc[q] = "stamp1")
          /\ 1 \in ts[b] <=> Past(q, l, m)
      BY TurnStamps
    <2>3. (Past(q, l, m)' <=> Past(q, l, m)) /\ (At(q, l, m)' <=> At(q, l, m))
      BY <1>1, <1>2 DEF Past, At, Sending
    <2>4. b = own <=> q = p /\ l = i[p] /\ m = j[p]
      BY <1>3, OwnTurn
    <2>5. CASE b = own
      <3>1. At(q, l, m) /\ ~Past(q, l, m) /\ ppc[q] = "send" /\ ppc'[q] = "stamp1"
        BY <1>1, <1>2, <1>3, <2>4, <2>5, NotPast
      <3> QED
        BY <1>12, <2>1, <2>2, <2>3, <2>5, <3>1
    <2>6. CASE b # own
      <3>1. q # p \/ ~At(q, l, m)
        BY <2>4, <2>6 DEF At
      <3>2. At(q, l, m) => ppc'[q] = ppc[q]
        BY <1>2, <3>1
      <3> QED
        BY <1>12, <2>1, <2>2, <2>3, <2>6, <3>2
    <2> QED
      BY <2>5, <2>6
  <1> QED
    BY <1>5, <1>6, <1>8, <1>9, <1>11, <1>13

\* A producer passes one turn and stands at the next one of its own, if there is one.
LEMMA NextBlockMoves ==
  ASSUME TypeOK, LoopInv, NEW p \in Producers, ppc[p] = "stamp1", NextBlock(p)
  PROVE  /\ i' \in [Producers -> 0 .. Loop] /\ j' \in [Producers -> 0 .. CntPerLoop]
         /\ ppc' \in [Producers -> {"unborn", "stamp0", "send", "stamp1", "signal", "exit"}]
         /\ ppc'[p] \in {"stamp0", "signal"}
         /\ \A q \in Producers \ {p} : ppc'[q] = ppc[q] /\ i'[q] = i[q] /\ j'[q] = j[q]
         /\ ppc'[p] = "stamp0" => i'[p] < Loop /\ j'[p] \in Slice(p)
         /\ \A l \in 0 .. Loop - 1, m \in Slice(p) :
              Past(p, l, m)' <=> Past(p, l, m) \/ (l = i[p] /\ m = j[p])
  <1>1. /\ i[p] \in 0 .. Loop - 1 /\ j[p] \in Slice(p) /\ j[p] \in Nat
        /\ \A l \in 0 .. Loop - 1 : l \in Int
    BY CurrentBlock DEF Sending
  <1>2. /\ StartIdx(p) \in Nat /\ EndIdx(p) \in Nat /\ EndIdx(p) <= CntPerLoop
        /\ j[p] >= StartIdx(p) /\ j[p] < EndIdx(p)
        /\ \A m : m \in Slice(p) <=> m \in Int /\ m >= StartIdx(p) /\ m < EndIdx(p)
    BY <1>1, SliceBounds DEF Slice
  <1>3. CASE /\ j[p] + 1 < EndIdx(p)
             /\ j' = [j EXCEPT ![p] = @ + 1]
             /\ ppc' = [ppc EXCEPT ![p] = "stamp0"]
             /\ UNCHANGED i
    <2>1. ppc'[p] = "stamp0" /\ j'[p] = j[p] + 1 /\ i'[p] = i[p]
      BY <1>3 DEF TypeOK
    <2>2. ASSUME NEW l \in 0 .. Loop - 1, NEW m \in Slice(p)
          PROVE  Past(p, l, m)' <=> Past(p, l, m) \/ (l = i[p] /\ m = j[p])
      BY <1>1, <1>2, <2>1 DEF Past
    <2>3. j'[p] \in Slice(p) /\ i'[p] < Loop
      BY <1>1, <1>2, <1>3, <2>1
    <2>4. j' \in [Producers -> 0 .. CntPerLoop]
      BY <1>1, <1>2, <1>3 DEF TypeOK
    <2> QED
      BY <1>3, <2>1, <2>2, <2>3, <2>4 DEF TypeOK
  <1>4. CASE /\ j[p] + 1 >= EndIdx(p)
             /\ i' = [i EXCEPT ![p] = @ + 1]
             /\ j' = [j EXCEPT ![p] = StartIdx(p)]
             /\ ppc' = [ppc EXCEPT ![p] = IF i[p] + 1 < Loop THEN "stamp0" ELSE "signal"]
    <2>1. /\ ppc'[p] = IF i[p] + 1 < Loop THEN "stamp0" ELSE "signal"
          /\ j'[p] = StartIdx(p) /\ i'[p] = i[p] + 1
      BY <1>4 DEF TypeOK
    <2>2. ASSUME NEW l \in 0 .. Loop - 1, NEW m \in Slice(p)
          PROVE  Past(p, l, m)' <=> Past(p, l, m) \/ (l = i[p] /\ m = j[p])
      <3>1. m \in Int /\ m >= StartIdx(p) /\ m <= j[p] /\ l \in Int /\ l <= Loop - 1
        BY <1>1, <1>2, <1>4
      <3>2. Past(p, l, m) <=> l < i[p] \/ (l = i[p] /\ m < j[p])
        BY DEF Past
      <3>3. Past(p, l, m)' <=> ppc'[p] = "signal" \/ l < i[p] + 1 \/ (l = i[p] + 1 /\ m < StartIdx(p))
        BY <2>1 DEF Past
      <3> QED
        BY <1>1, <1>2, <2>1, <3>1, <3>2, <3>3
    <2>3. ppc'[p] = "stamp0" => i'[p] < Loop /\ j'[p] \in Slice(p)
      BY <1>1, <1>2, <2>1
    <2>4. j' \in [Producers -> 0 .. CntPerLoop]
      BY <1>1, <1>2, <1>4 DEF TypeOK
    <2>5. i' \in [Producers -> 0 .. Loop]
      BY <1>1, <1>4 DEF TypeOK
    <2> QED
      BY <1>4, <2>1, <2>2, <2>3, <2>4, <2>5 DEF TypeOK
  <1> QED
    BY <1>3, <1>4 DEF NextBlock

\* The second time of a block comes when it was received.
LEMMA StampSentStep ==
  ASSUME Inductive, NEW p \in Producers, StampSent(p)
  PROVE  Inductive'
  <1> USE DEF Inductive
  <1>0. PICK own : own = BlockOf(p)
    OBVIOUS
  <1>1. /\ ppc[p] = "stamp1"
        /\ ts' = [ts EXCEPT ![own] = @ \cup {1}]
        /\ NextBlock(p)
        /\ UNCHANGED <<mainVars, consumerVars>>
    BY <1>0 DEF StampSent
  <1>2. /\ i' \in [Producers -> 0 .. Loop] /\ j' \in [Producers -> 0 .. CntPerLoop]
        /\ ppc' \in [Producers -> {"unborn", "stamp0", "send", "stamp1", "signal", "exit"}]
        /\ ppc'[p] \in {"stamp0", "signal"}
        /\ \A q \in Producers \ {p} : ppc'[q] = ppc[q] /\ i'[q] = i[q] /\ j'[q] = j[q]
        /\ ppc'[p] = "stamp0" => i'[p] < Loop /\ j'[p] \in Slice(p)
        /\ \A l \in 0 .. Loop - 1, m \in Slice(p) :
             Past(p, l, m)' <=> Past(p, l, m) \/ (l = i[p] /\ m = j[p])
    BY <1>1, NextBlockMoves
  <1>3. Sending(p) /\ own \in Blocks
    BY <1>0, <1>1, CurrentBlock DEF Sending
  <1>4. \A b \in Blocks : ts'[b] = IF b = own THEN ts[b] \cup {1} ELSE ts[b]
    BY <1>1 DEF TypeOK
  <1>5. TypeOK'
    <2>1. ts' \in [Blocks -> SUBSET {0, 1, 2}]
      BY <1>1, <1>3, <1>4 DEF TypeOK
    <2> QED
      BY <1>1, <1>2, <2>1 DEF TypeOK, mainVars, consumerVars
  <1>6. LoopInv'
    <2> SUFFICES ASSUME NEW q \in Producers
                 PROVE  /\ Sending(q)' => i'[q] < Loop /\ j'[q] \in Slice(q)
                        /\ ppc'[q] = "unborn" => i'[q] = 0 /\ j'[q] = StartIdx(q)
      BY DEF LoopInv, Slice, StartIdx, EndIdx, Share
    <2>1. CASE q = p
      BY <1>2, <2>1 DEF Sending
    <2>2. CASE q # p
      BY <1>2, <2>2 DEF LoopInv, Sending
    <2> QED
      BY <2>1, <2>2
  <1>7. main \notin {"ready", "spawn"}
    BY <1>1 DEF PhaseInv
  <1>8. (PhaseInv /\ CountersExact)'
    BY <1>1, <1>2, <1>7, CountsFrame DEF consumerVars
  <1>9. NumbersInv'
    BY <1>1, NumbersFrame DEF consumerVars
  <1>10. ASSUME NEW b \in Blocks
         PROVE  /\ (0 \in ts'[b]) <=> (0 \in ts[b])
                /\ (1 \in ts'[b]) <=> (b = own \/ 1 \in ts[b])
                /\ (2 \in ts'[b]) <=> (2 \in ts[b])
    <2>1. \A S : 1 \in S \cup {1} /\ (0 \in S \cup {1} <=> 0 \in S) /\ (2 \in S \cup {1} <=> 2 \in S)
      OBVIOUS
    <2>2. (b = own /\ ts'[b] = ts[b] \cup {1}) \/ (b # own /\ ts'[b] = ts[b])
      BY <1>4
    <2> QED
      BY ONLY <2>1, <2>2, Zenon
  <1>11. \A c \in Consumers, b \in Blocks : Holds(c, b)' <=> Holds(c, b)
    BY <1>1 DEF Holds, consumerVars
  <1>12. ReceivedOnce'
    <2> SUFFICES ASSUME NEW c \in Consumers, NEW b \in Blocks, Holds(c, b)'
                 PROVE  2 \notin ts'[b] /\ \A d \in Consumers \ {c} : ~Holds(d, b)'
      BY DEF ReceivedOnce
    <2>1. 2 \notin ts[b] /\ \A d \in Consumers \ {c} : ~Holds(d, b)
      BY <1>11 DEF ReceivedOnce
    <2>2. (2 \in ts'[b]) <=> (2 \in ts[b])
      BY <1>10
    <2> QED
      BY <1>11, <2>1, <2>2
  <1>13. ASSUME NEW b \in Blocks
         PROVE  Received(b)' <=> Received(b)
    <2>1. (2 \in ts'[b]) <=> (2 \in ts[b])
      BY <1>10
    <2> QED
      BY <1>11, <2>1 DEF Received
  <1>14. StampsFollow'
    <2> SUFFICES ASSUME NEW q \in Producers, NEW l \in 0 .. Loop - 1, NEW m \in Slice(q),
                        NEW b, b = l * CntPerLoop + m
                 PROVE  /\ 0 \in ts'[b] <=> Past(q, l, m)' \/ (At(q, l, m)' /\ ppc'[q] # "stamp0")
                        /\ Received(b)' <=> Past(q, l, m)' \/ (At(q, l, m)' /\ ppc'[q] = "stamp1")
                        /\ 1 \in ts'[b] <=> Past(q, l, m)'
      BY DEF StampsFollow, Slice, StartIdx, EndIdx, Share
    <2>1. b \in Blocks
      BY BlockType
    <2>2. /\ 0 \in ts[b] <=> Past(q, l, m) \/ (At(q, l, m) /\ ppc[q] # "stamp0")
          /\ Received(b) <=> Past(q, l, m) \/ (At(q, l, m) /\ ppc[q] = "stamp1")
          /\ 1 \in ts[b] <=> Past(q, l, m)
      BY TurnStamps
    <2>3. b = own <=> q = p /\ l = i[p] /\ m = j[p]
      BY <1>0, <1>3, OwnTurn
    <2>4. /\ (0 \in ts'[b]) <=> (0 \in ts[b])
          /\ (1 \in ts'[b]) <=> (b = own \/ 1 \in ts[b])
          /\ Received(b)' <=> Received(b)
      BY <1>10, <1>13, <2>1
    <2>5. CASE q = p
      <3>1. Past(q, l, m)' <=> Past(q, l, m) \/ b = own
        BY <1>2, <2>3, <2>5
      <3>2. ~(At(q, l, m)' /\ ppc'[q] # "stamp0") /\ ~(At(q, l, m)' /\ ppc'[q] = "stamp1")
        BY <1>2, <2>5 DEF At, Sending
      <3>3. At(q, l, m) <=> b = own
        BY <1>3, <2>3, <2>5 DEF At
      <3>4. ppc[q] = "stamp1"
        BY <1>1, <2>5
      <3> QED
        BY <2>2, <2>4, <3>1, <3>2, <3>3, <3>4
    <2>6. CASE q # p
      <3>1. (Past(q, l, m)' <=> Past(q, l, m)) /\ (At(q, l, m)' <=> At(q, l, m)) /\ ppc'[q] = ppc[q]
        BY <1>2, <2>6 DEF Past, At, Sending
      <3> QED
        BY <2>2, <2>3, <2>4, <2>6, <3>1
    <2> QED
      BY <2>5, <2>6
  <1> QED
    BY <1>5, <1>6, <1>8, <1>9, <1>12, <1>14

\* A producer that is complete is counted.
LEMMA SignalDoneStep ==
  ASSUME Inductive, NEW p \in Producers, SignalDone(p)
  PROVE  Inductive'
  <1> USE DEF Inductive
  <1>1. /\ ppc[p] = "signal"
        /\ ppc' = [ppc EXCEPT ![p] = "exit"]
        /\ Signal(ProducerComplete)
        /\ UNCHANGED <<consumerVars, i, j, ts>>
    BY DEF SignalDone
  <1>2. ppc'[p] = "exit" /\ \A q \in Producers \ {p} : ppc'[q] = ppc[q]
    BY <1>1 DEF TypeOK
  <1>3. main # "ready"
    BY <1>1 DEF PhaseInv
  <1>4. /\ PhaseInv'
        /\ main' \in {"ready", "spawn", "join", "nils", "report", "finished", "failed"}
        /\ nils' = nils /\ prodComplete' \in Nat /\ consComplete' \in 0 .. NumConsumer
        /\ late' \subseteq Consumers
        /\ main' # "ready"
    BY <1>1, <1>3, SignalPhase
  <1>5. prodComplete' = prodComplete + 1 /\ UNCHANGED <<consComplete, late>>
    BY <1>1, <1>3, SignalOne
  <1>6. TypeOK'
    BY <1>1, <1>4 DEF TypeOK, consumerVars
  <1>7. LoopInv'
    BY <1>1, <1>2 DEF LoopInv, Sending, Slice, StartIdx, EndIdx, Share
  <1>8. NumbersInv'
    BY <1>1, <1>3, <1>4, <1>5 DEF NumbersInv, consumerVars
  <1>9. CountersExact'
    <2> DEFINE S == {q \in Producers : ppc[q] = "exit"}
    <2>1. /\ {q \in Producers : ppc'[q] = "exit"} = S \cup {p}
          /\ S \in SUBSET Producers /\ p \notin S
      BY <1>1, <1>2
    <2>2. late = {} => prodComplete = Cardinality(S)
      BY DEF CountersExact
    <2> HIDE DEF S
    <2>3. late = {} => prodComplete' = Cardinality({q \in Producers : ppc'[q] = "exit"})
      BY <1>5, <2>1, <2>2, OneProducerMore
    <2> QED
      BY <1>1, <1>5, <2>3 DEF CountersExact, consumerVars
  <1>10. (ReceivedOnce /\ StampsFollow)'
    BY <1>1, <1>2, StampsFrame DEF consumerVars
  <1> QED
    BY <1>4, <1>6, <1>7, <1>8, <1>9, <1>10

--------------------------------------------------------------------------------
(* The main goroutine's own steps.                                             *)

\* A producer starts at the first block of its slice, or has nothing to send.
LEMMA StartProducersStep ==
  ASSUME Inductive, StartProducers
  PROVE  Inductive'
  <1> USE DEF Inductive
  <1>1. /\ main = "spawn" /\ main' = "join"
        /\ ppc' = [p \in Producers |-> IF Loop > 0 /\ Slice(p) # {} THEN "stamp0" ELSE "signal"]
        /\ UNCHANGED <<nils, prodComplete, consComplete, late, consumerVars, i, j, ts>>
    BY DEF StartProducers
  <1>2. /\ prodComplete = 0 /\ consComplete = 0 /\ nils = 0
        /\ \A p \in Producers : ppc[p] = "unborn" /\ i[p] = 0 /\ j[p] = StartIdx(p)
    BY <1>1 DEF PhaseInv, LoopInv
  <1>3. \A p \in Producers : ppc'[p] = IF Loop > 0 /\ Slice(p) # {} THEN "stamp0" ELSE "signal"
    BY <1>1
  <1>4. TypeOK'
    BY <1>1 DEF TypeOK, consumerVars
  <1>5. ASSUME NEW p \in Producers, NEW m \in Slice(p)
        PROVE  StartIdx(p) \in Slice(p) /\ m >= StartIdx(p)
    BY <1>5, SliceBounds DEF Slice
  <1>6. LoopInv'
    <2> SUFFICES ASSUME NEW p \in Producers
                 PROVE  /\ Sending(p)' => i'[p] < Loop /\ j'[p] \in Slice(p)
                        /\ ppc'[p] = "unborn" => i'[p] = 0 /\ j'[p] = StartIdx(p)
      BY DEF LoopInv, Slice, StartIdx, EndIdx, Share
    <2>1. ASSUME Sending(p)'
          PROVE  i'[p] < Loop /\ j'[p] \in Slice(p)
      BY <1>1, <1>2, <1>3, <1>5, <2>1 DEF Sending
    <2> QED
      BY <1>3, <2>1
  <1>7. PhaseInv'
    BY <1>1, <1>2 DEF PhaseInv, Over
  <1>8. NumbersInv'
    BY <1>1 DEF NumbersInv, consumerVars
  <1>9. CountersExact'
    <2>1. {p \in Producers : ppc'[p] = "exit"} = {p \in Producers : ppc[p] = "exit"}
      BY <1>2, <1>3
    <2> QED
      BY <1>1, <2>1 DEF CountersExact, consumerVars
  <1>10. \A c \in Consumers, b \in Blocks : Holds(c, b)' <=> Holds(c, b)
    BY <1>1 DEF Holds, consumerVars
  <1>11. ReceivedOnce'
    BY <1>1, <1>10 DEF ReceivedOnce
  <1>12. \A b \in Blocks : Received(b)' <=> Received(b)
    BY <1>1, <1>10 DEF Received
  <1>13. StampsFollow'
    <2> SUFFICES ASSUME NEW q \in Producers, NEW l \in 0 .. Loop - 1, NEW m \in Slice(q),
                        NEW b, b = l * CntPerLoop + m
                 PROVE  /\ 0 \in ts[b] <=> Past(q, l, m)' \/ (At(q, l, m)' /\ ppc'[q] # "stamp0")
                        /\ Received(b)' <=> Past(q, l, m)' \/ (At(q, l, m)' /\ ppc'[q] = "stamp1")
                        /\ 1 \in ts[b] <=> Past(q, l, m)'
      BY <1>1 DEF StampsFollow, Slice, StartIdx, EndIdx, Share
    <2>1. b \in Blocks
      BY BlockType
    <2>2. /\ 0 \in ts[b] <=> Past(q, l, m) \/ (At(q, l, m) /\ ppc[q] # "stamp0")
          /\ Received(b) <=> Past(q, l, m) \/ (At(q, l, m) /\ ppc[q] = "stamp1")
          /\ 1 \in ts[b] <=> Past(q, l, m)
      BY TurnStamps
    <2>3. m >= StartIdx(q) /\ m \in Nat /\ StartIdx(q) \in Nat
      BY <1>5, SliceType, SliceBounds
    <2>4. ~Past(q, l, m) /\ ~At(q, l, m)
      BY <1>2, <2>3 DEF Past, At, Sending
    <2>5. ppc'[q] = "stamp0" /\ i'[q] = 0 /\ j'[q] = StartIdx(q)
      BY <1>1, <1>2, <1>3
    <2>6. ~Past(q, l, m)'
      BY <2>3, <2>5 DEF Past
    <2> QED
      BY <1>12, <2>1, <2>2, <2>4, <2>5, <2>6
  <1> QED
    BY <1>4, <1>6, <1>7, <1>8, <1>9, <1>11, <1>13

\* A nil ends one consumer.
LEMMA SendNilStep ==
  ASSUME Inductive, NEW c \in Consumers, SendNil(c)
  PROVE  Inductive'
  <1> USE DEF Inductive
  <1>1. /\ main = "nils" /\ cpc[c] = "receive"
        /\ cpc' = [cpc EXCEPT ![c] = "signal"]
        /\ nils' = nils + 1
        /\ main' = IF nils' = NumConsumer THEN "join" ELSE "nils"
        /\ UNCHANGED <<prodComplete, consComplete, late, ready, number, block, readNum, producerVars, ts>>
    BY DEF SendNil
  <1>2. cpc'[c] = "signal" /\ \A d \in Consumers \ {c} : cpc'[d] = cpc[d]
    BY <1>1 DEF TypeOK
  <1>3. prodComplete >= NumProducer /\ nils < NumConsumer /\ consComplete < NumConsumer
    BY <1>1 DEF PhaseInv
  <1>4. TypeOK'
    BY <1>1, <1>3 DEF TypeOK, producerVars
  <1>5. LoopInv'
    BY <1>1 DEF LoopInv, Sending, producerVars, Slice, StartIdx, EndIdx, Share
  <1>6. PhaseInv'
    BY <1>1, <1>3, <1>4 DEF PhaseInv, Over, TypeOK
  <1>7. NumbersInv'
    <2> DEFINE S == {d \in Consumers : cpc[d] \in {"signal", "exit"}}
    <2>1. /\ {d \in Consumers : cpc'[d] \in {"signal", "exit"}} = S \cup {c}
          /\ {d \in Consumers : cpc'[d] # "start"} = {d \in Consumers : cpc[d] # "start"}
          /\ S \in SUBSET Consumers /\ c \notin S
      BY <1>1, <1>2
    <2>2. nils = Cardinality(S)
      BY DEF NumbersInv
    <2> HIDE DEF S
    <2>3. nils' = Cardinality({d \in Consumers : cpc'[d] \in {"signal", "exit"}})
      BY <1>1, <2>1, <2>2, OneConsumerMore
    <2>4. late = {} => \A d \in Consumers : cpc'[d] \notin {"start", "announce"}
      BY <1>1, <1>2 DEF NumbersInv
    <2> QED
      BY <1>1, <2>1, <2>3, <2>4 DEF NumbersInv
  <1>8. CountersExact'
    <2>1. {d \in Consumers : cpc'[d] = "exit"} = {d \in Consumers : cpc[d] = "exit"}
      BY <1>1, <1>2
    <2> QED
      BY <1>1, <2>1 DEF CountersExact, producerVars
  <1>9. (ReceivedOnce /\ StampsFollow)'
    BY <1>1, <1>2, StampsFrame DEF producerVars
  <1> QED
    BY <1>4, <1>5, <1>6, <1>7, <1>8, <1>9

\* The report changes nothing else.
LEMMA ReportStep ==
  ASSUME Inductive, Report
  PROVE  Inductive'
  <1> USE DEF Inductive
  <1>1. /\ main = "report" /\ main' \in {"failed", "finished"}
        /\ UNCHANGED <<nils, prodComplete, consComplete, late, consumerVars, producerVars, ts>>
    BY DEF Report
  <1>2. TypeOK'
    BY <1>1 DEF TypeOK, consumerVars, producerVars
  <1>3. LoopInv'
    BY <1>1 DEF LoopInv, Sending, producerVars, Slice, StartIdx, EndIdx, Share
  <1>4. PhaseInv'
    BY <1>1 DEF PhaseInv, Over
  <1>5. NumbersInv'
    BY <1>1 DEF NumbersInv, consumerVars
  <1>6. CountersExact'
    BY <1>1 DEF CountersExact, consumerVars, producerVars
  <1>7. (ReceivedOnce /\ StampsFollow)'
    BY <1>1, StampsFrame DEF consumerVars, producerVars
  <1> QED
    BY <1>2, <1>3, <1>4, <1>5, <1>6, <1>7

\* Nothing changes when nothing does.
LEMMA StutterStep ==
  ASSUME Inductive, UNCHANGED vars
  PROVE  Inductive'
  <1> USE DEF Inductive, vars
  <1>1. TypeOK'
    BY DEF TypeOK
  <1>2. LoopInv'
    BY DEF LoopInv, Sending, Slice, StartIdx, EndIdx, Share
  <1>3. PhaseInv'
    BY DEF PhaseInv, Over
  <1>4. NumbersInv' /\ CountersExact'
    BY DEF NumbersInv, CountersExact
  <1>5. (ReceivedOnce /\ StampsFollow)'
    BY StampsFrame
  <1> QED
    BY <1>1, <1>2, <1>3, <1>4, <1>5

\* Every step keeps the invariant.
LEMMA ChannelStep == Inductive /\ [Next]_vars => Inductive'
  <1> SUFFICES ASSUME Inductive, [Next]_vars PROVE Inductive'
    OBVIOUS
  <1>1. CASE Main
    BY <1>1, StartProducersStep, SendNilStep, ReportStep DEF Main
  <1>2. CASE \E c \in Consumers : Consumer(c)
    BY <1>2, TakeNumberStep, AnnounceStep, StampReadStep, SignalCompleteStep DEF Consumer
  <1>3. CASE \E p \in Producers : Producer(p)
    BY <1>3, StampSendStep, SendStep, StampSentStep, SignalDoneStep DEF Producer
  <1>4. CASE Exited \/ UNCHANGED vars
    BY <1>4, StutterStep DEF Exited
  <1> QED
    BY <1>1, <1>2, <1>3, <1>4 DEF Next

\* It holds in every state.
LEMMA InductiveHolds == Spec => []Inductive
  BY ChannelInit, ChannelStep, PTL DEF Spec

\* ChannelInv follows.
LEMMA InductiveIsEnough == Inductive => ChannelInv
  BY NilsAreServed DEF Inductive, ChannelInv

\* For every number of goroutines, loops and blocks: what the two channels carry is
\* what the goroutines have done.
THEOREM ChannelsExact == Spec => []ChannelInv
  BY InductiveHolds, InductiveIsEnough, PTL

--------------------------------------------------------------------------------
(* The report.                                                                 *)

\* A benchmark that has heard of all its consumers has counted everyone when it is
\* over, and everyone has done everything.
LEMMA JoinedInvariant == Inductive => JoinedAllUnlessLate
  <1> SUFFICES ASSUME Inductive, late = {}, Over
               PROVE  Joined /\ AllStamped
    BY DEF JoinedAllUnlessLate, JoinedAll
  <1> USE DEF Inductive
  <1>1. {c \in Consumers : cpc[c] = "exit"} = Consumers
    <2> DEFINE S == {c \in Consumers : cpc[c] = "exit"}
    <2>1. S \in SUBSET Consumers /\ Cardinality(S) = NumConsumer
      BY DEF CountersExact, PhaseInv
    <2> HIDE DEF S
    <2>2. S = Consumers
      BY <2>1, AllCounted
    <2> QED
      BY <2>2 DEF S
  <1>2. \A c \in Consumers : cpc[c] = "exit"
    BY <1>1
  <1>3. nils > 0
    <2>1. 1 \in Consumers
      BY DEF Consumers
    <2> QED
      BY <1>2, <2>1, EndedAfterNil
  <1>4. prodComplete >= NumProducer
    BY <1>3 DEF PhaseInv, TypeOK
  <1>5. {p \in Producers : ppc[p] = "exit"} = Producers
    <2> DEFINE S == {p \in Producers : ppc[p] = "exit"}
    <2>1. S \in SUBSET Producers /\ Cardinality(S) >= NumProducer
      BY <1>4 DEF CountersExact
    <2> HIDE DEF S
    <2>2. S = Producers
      BY <2>1, AllCounted
    <2> QED
      BY <2>2 DEF S
  <1>6. \A p \in Producers : ppc[p] = "exit"
    BY <1>5
  <1>7. ASSUME NEW b \in Blocks
        PROVE  ts[b] = {0, 1, 2}
    <2>1. PICK p \in Producers, l \in 0 .. Loop - 1 : \E m \in Slice(p) : b = l * CntPerLoop + m
      BY BlockCovers
    <2>2. PICK m \in Slice(p) : b = l * CntPerLoop + m
      BY <2>1
    <2>3. Past(p, l, m)
      BY <1>6 DEF Past
    <2>4. 0 \in ts[b] /\ Received(b) /\ 1 \in ts[b]
      BY <2>2, <2>3, TurnStamps
    <2>5. 2 \in ts[b]
      BY <1>2, <2>4 DEF Received, Holds
    <2>6. ts[b] \in SUBSET {0, 1, 2}
      BY DEF TypeOK
    <2> QED
      BY <2>4, <2>5, <2>6
  <1> QED
    BY <1>2, <1>6, <1>7 DEF Joined, AllStamped

\* For every number of goroutines, loops and blocks: the report of a benchmark that
\* has heard of every consumer in time comes after every goroutine and every time.
THEOREM JoinedUnlessLate == Spec => []JoinedAllUnlessLate
  BY InductiveHolds, JoinedInvariant, PTL

--------------------------------------------------------------------------------
(* The transfer.                                                               *)

\* The states of a block, one by one.
LEMMA ProgressIs ==
  ASSUME NEW b
  PROVE  /\ Progress(b) = "read" <=> 2 \in ts[b]
         /\ Progress(b) = "inflight" <=> 2 \notin ts[b] /\ Received(b)
         /\ Progress(b) = "unsent" <=> ~Received(b)
  BY DEF Progress, Received

\* The same after a step.
LEMMA ProgressIsNext ==
  ASSUME NEW b
  PROVE  /\ Progress(b)' = "read" <=> 2 \in ts'[b]
         /\ Progress(b)' = "inflight" <=> 2 \notin ts'[b] /\ Received(b)'
         /\ Progress(b)' = "unsent" <=> ~Received(b)'
  BY DEF Progress, Received

\* Steps that send nothing and read nothing change nothing, or end the benchmark.
LEMMA StayStep ==
  ASSUME Inductive, Inductive', late' # {} \/ late' = late,
         \A b \in Blocks : Received(b)' <=> Received(b),
         \A b \in Blocks : 2 \in ts'[b] <=> 2 \in ts[b],
         Over /\ late = {} => Over' /\ late' = {}
  PROVE  T!Close \/ UNCHANGED T!vars
  <1>1. \A b \in Blocks : Progress(b)' = Progress(b)
    <2> TAKE b \in Blocks
    <2>1. CASE 2 \in ts[b]
      BY <2>1, ProgressIs, ProgressIsNext
    <2>2. CASE 2 \notin ts[b] /\ Received(b)
      BY <2>2, ProgressIs, ProgressIsNext
    <2>3. CASE ~Received(b)
      BY <2>3, ProgressIs, ProgressIsNext
    <2> QED
      BY <2>1, <2>2, <2>3
  <1>2. [b \in Blocks |-> Progress(b)]' = [b \in Blocks |-> Progress(b)]
    BY <1>1 DEF Blocks, Cnt
  <1>3. CASE (Over /\ late = {})'
    <2>1. \A b \in Blocks : ts'[b] = {0, 1, 2}
      <3>1. (Inductive => JoinedAllUnlessLate)'
        BY JoinedInvariant, PTL
      <3> QED
        BY <1>3, <3>1 DEF JoinedAllUnlessLate, JoinedAll, AllStamped, Blocks, Cnt
    <2>2. \A b \in Blocks : 2 \in ts'[b]
      BY <2>1
    <2>3. \A b \in Blocks : Progress(b) = "read"
      BY <2>2, ProgressIs
    <2>4. CASE Over /\ late = {}
      BY <1>2, <1>3, <2>4 DEF T!vars, Over
    <2>5. CASE ~(Over /\ late = {})
      BY <1>2, <1>3, <2>3, <2>5 DEF T!Close, Over
    <2> QED
      BY <2>4, <2>5
  <1>4. CASE ~(Over /\ late = {})'
    BY <1>2, <1>4 DEF T!vars, Over
  <1> QED
    BY <1>3, <1>4

\* One block moves, all others stay.
LEMMA MoveStep ==
  ASSUME ~(Over /\ late = {}), ~(Over' /\ late' = {}), NEW own \in Blocks,
         NEW from, NEW to, Progress(own) = from, Progress(own)' = to,
         \A b \in Blocks : b # own =>
           (Received(b)' <=> Received(b)) /\ (2 \in ts'[b] <=> 2 \in ts[b])
  PROVE  T!Move(own, from, to)
  <1>1. \A b \in Blocks : b # own => Progress(b)' = Progress(b)
    <2> SUFFICES ASSUME NEW b \in Blocks, b # own
                 PROVE  Progress(b)' = Progress(b)
      OBVIOUS
    <2>1. CASE 2 \in ts[b]
      BY <2>1, ProgressIs, ProgressIsNext
    <2>2. CASE 2 \notin ts[b] /\ Received(b)
      BY <2>2, ProgressIs, ProgressIsNext
    <2>3. CASE ~Received(b)
      BY <2>3, ProgressIs, ProgressIsNext
    <2> QED
      BY <2>1, <2>2, <2>3
  <1>2. [b \in Blocks |-> Progress(b)]' = [[b \in Blocks |-> Progress(b)] EXCEPT ![own] = to]
    BY <1>1 DEF Blocks, Cnt
  <1> QED
    BY <1>2 DEF T!Move, Over

\* The rendezvous of a producer and a consumer sends the block.
LEMMA SendSends ==
  ASSUME Inductive, NEW p \in Producers, NEW c \in Consumers, Send(p, c), ~(Over /\ late = {})
  PROVE  \E b \in Blocks : T!Send(b)
  <1> USE DEF Inductive
  <1>0. PICK own : own = BlockOf(p)
    OBVIOUS
  <1>1. /\ ppc[p] = "send" /\ cpc[c] = "receive"
        /\ block' = [block EXCEPT ![c] = own]
        /\ cpc' = [cpc EXCEPT ![c] = "stamp2"]
        /\ UNCHANGED <<mainVars, ts>>
    BY <1>0 DEF Send
  <1>2. /\ cpc'[c] = "stamp2" /\ \A d \in Consumers \ {c} : cpc'[d] = cpc[d]
        /\ block'[c] = own /\ \A d \in Consumers \ {c} : block'[d] = block[d]
    BY <1>1 DEF TypeOK
  <1>3. /\ Sending(p) /\ own \in Blocks
        /\ i[p] \in 0 .. Loop - 1 /\ j[p] \in Slice(p) /\ own = i[p] * CntPerLoop + j[p]
    BY <1>0, <1>1, CurrentBlock DEF Sending
  <1>4. ~Received(own)
    BY <1>1, <1>3, NotPast, TurnStamps
  <1>5. \A d \in Consumers, b \in Blocks : Holds(d, b)' <=> (d = c /\ b = own) \/ Holds(d, b)
    BY <1>1, <1>2 DEF Holds
  <1>6. \A b \in Blocks : Received(b)' <=> b = own \/ Received(b)
    BY <1>1, <1>5 DEF Received
  <1>7. 2 \notin ts'[own]
    BY <1>1, <1>4 DEF Received
  <1>8. Progress(own) = "unsent" /\ Progress(own)' = "inflight"
    BY <1>3, <1>4, <1>6, <1>7, ProgressIs, ProgressIsNext
  <1>9. ~(Over' /\ late' = {})
    BY <1>1 DEF Over, mainVars
  <1>10. T!Move(own, "unsent", "inflight")
    BY <1>1, <1>3, <1>6, <1>8, <1>9, MoveStep
  <1> QED
    BY <1>3, <1>10 DEF T!Send

\* The stamp of the read reads it.
LEMMA StampReads ==
  ASSUME Inductive, Inductive', NEW c \in Consumers, StampRead(c), ~(Over /\ late = {})
  PROVE  (\E b \in Blocks : T!Read(b)) \/ T!Close \/ UNCHANGED T!vars
  <1> USE DEF Inductive
  <1>0. PICK own : own = block[c]
    OBVIOUS
  <1>1. /\ cpc[c] = "stamp2"
        /\ ts' = [ts EXCEPT ![own] = @ \cup {2}]
        /\ cpc' = [cpc EXCEPT ![c] = "receive"]
        /\ UNCHANGED <<mainVars, block>>
    BY <1>0 DEF StampRead
  <1>2. cpc'[c] = "receive" /\ \A d \in Consumers \ {c} : cpc'[d] = cpc[d]
    BY <1>1 DEF TypeOK
  <1>3. ~(Over' /\ late' = {}) /\ late' = late
    BY <1>1 DEF Over, mainVars
  <1>4. CASE own \notin Blocks
    <2>1. Blocks = {}
      BY <1>0, <1>4, CntType DEF TypeOK, Blocks
    <2> QED
      BY <1>3, <2>1, StayStep
  <1>5. CASE own \in Blocks
    <2>1. \A b \in Blocks : ts'[b] = IF b = own THEN ts[b] \cup {2} ELSE ts[b]
      BY <1>1 DEF TypeOK
    <2>2. Holds(c, own) /\ 2 \notin ts[own] /\ \A d \in Consumers \ {c} : ~Holds(d, own)
      BY <1>0, <1>1, <1>5 DEF Holds, ReceivedOnce
    <2>3. \A d \in Consumers, b \in Blocks : Holds(d, b)' <=> d # c /\ Holds(d, b)
      BY <1>1, <1>2 DEF Holds
    <2>4. ASSUME NEW b \in Blocks, b # own
          PROVE  (Received(b)' <=> Received(b)) /\ (2 \in ts'[b] <=> 2 \in ts[b])
      <3>1. ~Holds(c, b)
        BY <1>0, <2>4 DEF Holds
      <3> QED
        BY <2>1, <2>3, <2>4, <3>1 DEF Received
    <2>5. Progress(own) = "inflight"
      BY <2>2, ProgressIs DEF Received
    <2>6. Progress(own)' = "read"
      <3>1. 2 \in ts'[own]
        BY <1>5, <2>1
      <3> QED
        BY <3>1, ProgressIsNext
    <2>7. T!Move(own, "inflight", "read")
      BY <1>3, <1>5, <2>4, <2>5, <2>6, MoveStep
    <2> QED
      BY <1>5, <2>7 DEF T!Read
  <1> QED
    BY <1>4, <1>5


\* Nothing is sent at the start.
LEMMA TransferInit ==
  ASSUME Init
  PROVE  T!Init
  <1>1. \A b \in Blocks : Progress(b) = "unsent"
    BY DEF Init, Progress, Holds
  <1> QED
    BY <1>1 DEF Init, Over, T!Init

\* What a step other than a rendezvous or a stamp of the read leaves alone.
LEMMA OtherSteps ==
  ASSUME Inductive, [Next]_vars,
         ~ \E p \in Producers, c \in Consumers : Send(p, c),
         ~ \E c \in Consumers : StampRead(c)
  PROVE  /\ \A b \in Blocks : Received(b)' <=> Received(b)
         /\ \A b \in Blocks : 2 \in ts'[b] <=> 2 \in ts[b]
  <1> USE DEF Inductive
  <1>1. ASSUME NEW c \in Consumers, Consumer(c) \/ SendNil(c)
        PROVE  /\ UNCHANGED <<ts, block>>
               /\ \A d \in Consumers : cpc'[d] = "stamp2" <=> cpc[d] = "stamp2"
    BY <1>1 DEF Consumer, TakeNumber, Announce, SignalComplete, SendNil, TypeOK
  <1>2. ASSUME UNCHANGED <<ts, block>>,
               \A d \in Consumers : cpc'[d] = "stamp2" <=> cpc[d] = "stamp2"
        PROVE  /\ \A b \in Blocks : Received(b)' <=> Received(b)
               /\ \A b \in Blocks : 2 \in ts'[b] <=> 2 \in ts[b]
    BY <1>2 DEF Received, Holds
  <1>3. ASSUME NEW p \in Producers, NEW k \in {0, 1}, UNCHANGED consumerVars,
               ts' = [ts EXCEPT ![BlockOf(p)] = @ \cup {k}]
        PROVE  /\ \A b \in Blocks : Received(b)' <=> Received(b)
               /\ \A b \in Blocks : 2 \in ts'[b] <=> 2 \in ts[b]
    <2>1. ASSUME NEW b \in Blocks
          PROVE  2 \in ts'[b] <=> 2 \in ts[b]
      <3>1. ts'[b] = ts[b] \/ ts'[b] = ts[b] \cup {k}
        BY <1>3 DEF TypeOK
      <3>2. k # 2
        OBVIOUS
      <3> QED
        BY <3>1, <3>2
    <2>2. ASSUME NEW b \in Blocks
          PROVE  Received(b)' <=> Received(b)
      <3>1. 2 \in ts'[b] <=> 2 \in ts[b]
        BY <2>1
      <3> QED
        BY <1>3, <3>1 DEF Received, Holds, consumerVars
    <2> QED
      BY <2>1, <2>2
  <1>4. ASSUME NEW p \in Producers, StampSend(p) \/ StampSent(p)
        PROVE  /\ \A b \in Blocks : Received(b)' <=> Received(b)
               /\ \A b \in Blocks : 2 \in ts'[b] <=> 2 \in ts[b]
    BY <1>3, <1>4 DEF StampSend, StampSent
  <1>5. ASSUME NEW p \in Producers, SignalDone(p)
        PROVE  UNCHANGED <<ts, block, cpc>>
    BY <1>5 DEF SignalDone, consumerVars
  <1>6. ASSUME StartProducers \/ Report \/ Exited \/ UNCHANGED vars
        PROVE  UNCHANGED <<ts, block, cpc>>
    BY <1>6 DEF StartProducers, Report, Exited, vars, consumerVars
  <1> QED
    BY <1>1, <1>2, <1>4, <1>5, <1>6 DEF Next, Main, Producer

\* The main goroutine forgets no late consumer, and its report stays.
LEMMA ReportStays ==
  ASSUME Inductive, [Next]_vars
  PROVE  /\ late' # {} \/ late' = late
         /\ Over /\ late = {} => Over' /\ late' = {}
  <1> USE DEF Inductive
  <1>1. ASSUME NEW v, Signal(v)
        PROVE  (late' # {} \/ late' = late) /\ ~Over
    BY <1>1 DEF Signal, SignalReady, SignalProducer, SignalConsumer, SignalOther, mainVars,
                PhaseInv, Over
  <1>2. ASSUME StartProducers \/ \E c \in Consumers : SendNil(c)
        PROVE  late' = late /\ ~Over
    BY <1>2 DEF StartProducers, SendNil, Over
  <1>3. ASSUME Report
        PROVE  late' = late /\ Over'
    BY <1>3 DEF Report, Over
  <1>4. ASSUME NEW c \in Consumers, Consumer(c)
        PROVE  UNCHANGED mainVars \/ \E v : Signal(v)
    BY <1>4 DEF Consumer, TakeNumber, Announce, StampRead, SignalComplete
  <1>5. ASSUME NEW p \in Producers, Producer(p)
        PROVE  UNCHANGED mainVars \/ \E v : Signal(v)
    BY <1>5 DEF Producer, StampSend, Send, StampSent, SignalDone
  <1>6. ASSUME UNCHANGED mainVars
        PROVE  late' = late /\ (Over' <=> Over)
    BY <1>6 DEF mainVars, Over
  <1>7. ASSUME Exited \/ UNCHANGED vars
        PROVE  UNCHANGED mainVars
    BY <1>7 DEF Exited, vars, mainVars
  <1> QED
    BY <1>1, <1>2, <1>3, <1>4, <1>5, <1>6, <1>7 DEF Next, Main

\* Every step moves one block, ends the benchmark, or changes neither.
LEMMA TransferStep ==
  ASSUME Inductive, Inductive', [Next]_vars
  PROVE  [T!Next]_(T!vars)
  <1>1. CASE \E p \in Producers, c \in Consumers : Send(p, c)
    <2>1. PICK p \in Producers, c \in Consumers : Send(p, c)
      BY <1>1
    <2>2. ~(Over /\ late = {})
      <3>1. ppc[p] = "send"
        BY <2>1 DEF Send
      <3> QED
        BY <3>1, JoinedInvariant DEF JoinedAllUnlessLate, JoinedAll, Joined
    <2> QED
      BY <2>1, <2>2, SendSends DEF T!Next
  <1>2. CASE \E c \in Consumers : StampRead(c)
    <2>1. PICK c \in Consumers : StampRead(c)
      BY <1>2
    <2>2. ~(Over /\ late = {})
      <3>1. cpc[c] = "stamp2"
        BY <2>1 DEF StampRead
      <3> QED
        BY <3>1, JoinedInvariant DEF JoinedAllUnlessLate, JoinedAll, Joined
    <2> QED
      BY <2>1, <2>2, StampReads DEF T!Next
  <1>3. CASE /\ ~ \E p \in Producers, c \in Consumers : Send(p, c)
             /\ ~ \E c \in Consumers : StampRead(c)
    <2>1. T!Close \/ UNCHANGED T!vars
      BY <1>3, OtherSteps, ReportStays, StayStep
    <2> QED
      BY <2>1 DEF T!Next
  <1> QED
    BY <1>1, <1>2, <1>3

\* One benchmark over the channel implements Transfer for every number of
\* goroutines, loops and blocks: a block is sent once, then read once, and the report
\* of a benchmark that has heard of every consumer in time comes after all.
THEOREM ChannelImplementsTransfer == Spec => TransferSpec
  <1>1. Spec => T!Init
    BY TransferInit, PTL DEF Spec
  <1>2. Spec => [][T!Next]_(T!vars)
    BY InductiveHolds, TransferStep, PTL DEF Spec
  <1> QED
    BY <1>1, <1>2, PTL DEF TransferSpec, T!Spec

================================================================================
