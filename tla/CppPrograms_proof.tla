--------------------------- MODULE CppPrograms_proof ---------------------------
(*******************************************************************************)
(* Proof that the C++ programs start with all of their settings or not at all, *)
(* whatever the configuration file is like and wherever loading it fails; and  *)
(* that c_malloc_free frees every block once and reports what was lost, while  *)
(* the ring does not overtake its consumer.                                    *)
(*******************************************************************************)
EXTENDS CppPrograms, Cells, SequenceTheorems, FiniteSetTheorems

\* The names of all settings.
Names ==
  {"loop", "cnt_per_loop", "loop_interval_ms", "report_step", "host", "port", "url", "dir",
   "single_thread_write", "spin_read"}

\* The length of two sequences of settings that are read one after the other.
LEMMA JoinedKeys ==
  ASSUME NEW s \in Seq(Names), NEW t \in Seq(Names)
  PROVE  s \o t \in Seq(Names) /\ Len(s \o t) = Len(s) + Len(t)
  BY ConcatProperties

\* Every program reads some settings.
LEMMA KeysAreSequence ==
  ASSUME program \in Programs
  PROVE  Keys \in Seq(Names) /\ Len(Keys) \in Nat \ {0}
  <1>1. BenchmarkKeys \in Seq(Names) /\ Len(BenchmarkKeys) = 4
    BY DEF BenchmarkKeys, Names
  <1>2. CASE program \in {"c_malloc_free", "time"}
    BY <1>1, <1>2 DEF Keys
  <1>3. CASE program \in {"ws_trans_server", "ws_trans_client"}
    <2> DEFINE Address == <<"host", "port", "url">>
               Dir == <<"dir">>
    <2>1. Address \in Seq(Names) /\ Len(Address) = 3
      BY DEF Names
    <2>2. Dir \in Seq(Names) /\ Len(Dir) = 1
      BY DEF Names
    <2>3. Keys = Address \o BenchmarkKeys \o Dir
      BY <1>3 DEF Keys
    <2> HIDE DEF Address, Dir
    <2> DEFINE Front == Address \o BenchmarkKeys
    <2>4. Front \in Seq(Names) /\ Len(Front) = Len(Address) + Len(BenchmarkKeys)
      BY <1>1, <2>1, JoinedKeys
    <2> HIDE DEF Front
    <2>5. Front \o Dir \in Seq(Names) /\ Len(Front \o Dir) = Len(Front) + Len(Dir)
      BY <2>2, <2>4, JoinedKeys
    <2>6. Keys = Front \o Dir
      BY <2>3 DEF Front
    <2> QED
      BY <1>1, <2>1, <2>2, <2>4, <2>5, <2>6
  <1>4. CASE program = "thread_trans"
    <2> DEFINE Ways == <<"single_thread_write", "spin_read">>
    <2>1. Ways \in Seq(Names) /\ Len(Ways) = 2
      BY DEF Names
    <2>2. Keys = BenchmarkKeys \o Ways
      BY <1>4 DEF Keys
    <2> HIDE DEF Ways
    <2>3. /\ BenchmarkKeys \o Ways \in Seq(Names)
          /\ Len(BenchmarkKeys \o Ways) = Len(BenchmarkKeys) + Len(Ways)
      BY <1>1, <2>1, JoinedKeys
    <2> QED
      BY <1>1, <2>1, <2>2, <2>3
  <1> QED
    BY <1>2, <1>3, <1>4, ProgramsAssumption

--------------------------------------------------------------------------------

\* Where the loader has come to with this file, and what of the settings it has
\* assigned by then.
Progress ==
  /\ at = "open" => held = {}
  /\ at \in {"open", "read", "parse"} => key = 1
  /\ at \in {"open", "read", "parse", "member"} => ret = TRUE
  /\ at \in {"read", "parse", "member"} => file.there
  /\ at \in {"parse", "member"} => file.whole
  /\ at = "member" => file.root # "broken" /\ key <= Len(Keys)
  /\ at \in {"cleanUp", "returned"} /\ ret =>
       key = Len(Keys) + 1 /\ file.there /\ file.whole /\ file.root = "object"
  /\ ~ret => ~GoodFile

\* What main has made of the result.
Outcome ==
  /\ process \in {"loaded", "started", "failed"} => at = "returned" /\ ret
  /\ process = "exited" => at = "returned" /\ ~ret
  /\ process = "aborted" => at = "member" /\ file.root = "other"

IConfig == ConfigType /\ Progress /\ Outcome /\ SettingsInOrder /\ NothingLeaked

\* A step of loading leaves no setting out.
LEMMA LoadKeeps ==
  ASSUME IConfig, Load
  PROVE  IConfig'
  <1> USE DEF IConfig, ConfigType
  <1>1. Keys \in Seq(Names) /\ Len(Keys) \in Nat \ {0}
    BY KeysAreSequence
  <1>2. program' = program /\ file' = file
    BY DEF Load, Open, ReadFile, Parse, AssertObject, Member, CleanUp, CheckRet
  <1>3. Keys' = Keys /\ Files' = Files
    BY <1>2 DEF Keys, Files
  <1>4. Range(Keys) = {Keys[i] : i \in 1 .. Len(Keys)}
    BY <1>1 DEF Range
  <1>5. CASE Open
    BY <1>1, <1>2, <1>3, <1>5
       DEF Open, Progress, Outcome, SettingsInOrder, NothingLeaked, GoodFile
  <1>6. CASE ReadFile
    BY <1>1, <1>2, <1>3, <1>6
       DEF ReadFile, Throw, Progress, Outcome, SettingsInOrder, NothingLeaked, GoodFile
  <1>7. CASE Parse
    <2>1. CASE file.root = "broken"
      <3>1. at' = "cleanUp" /\ ret' = FALSE /\ UNCHANGED <<process, key, config, held>>
        BY <1>7, <2>1 DEF Parse, Throw
      <3> QED
        BY <1>1, <1>2, <1>3, <1>7, <2>1, <3>1
           DEF Parse, Progress, Outcome, SettingsInOrder, NothingLeaked, GoodFile
    <2>2. CASE file.root # "broken"
      <3>1. at' = "member" /\ UNCHANGED <<process, key, config, ret, held>>
        BY <1>7, <2>2 DEF Parse
      <3> QED
        BY <1>1, <1>2, <1>3, <1>7, <2>2, <3>1
           DEF Parse, Progress, Outcome, SettingsInOrder, NothingLeaked, GoodFile
    <2> QED
      BY <2>1, <2>2
  <1>8. CASE AssertObject
    BY <1>1, <1>2, <1>3, <1>8
       DEF AssertObject, Progress, Outcome, SettingsInOrder, NothingLeaked, GoodFile
  <1>9. CASE Member
    <2>1. CASE Keys[key] \in file.good
      <3>1. ConfigType'
        BY <1>1, <1>2, <1>3, <1>4, <1>9, <2>1 DEF Member, Progress
      <3>2. Progress' /\ Outcome' /\ NothingLeaked'
        BY <1>1, <1>2, <1>3, <1>9, <2>1
           DEF Member, Progress, Outcome, NothingLeaked, GoodFile
      <3>3. SettingsInOrder'
        BY <1>1, <1>2, <1>3, <1>9, <2>1 DEF Member, Progress, SettingsInOrder
      <3> QED
        BY <3>1, <3>2, <3>3
    <2>2. CASE Keys[key] \notin file.good
      <3>1. ~GoodFile
        BY <1>1, <1>4, <1>9, <2>2 DEF Member, Progress, GoodFile
      <3> QED
        BY <1>1, <1>2, <1>3, <1>9, <2>2, <3>1
           DEF Member, Throw, Progress, Outcome, SettingsInOrder, NothingLeaked, GoodFile
    <2> QED
      BY <2>1, <2>2
  <1>10. CASE CleanUp
    BY <1>1, <1>2, <1>3, <1>10
       DEF CleanUp, Progress, Outcome, SettingsInOrder, NothingLeaked, GoodFile
  <1>11. CASE CheckRet
    BY <1>1, <1>2, <1>3, <1>11
       DEF CheckRet, Progress, Outcome, SettingsInOrder, NothingLeaked, GoodFile
  <1> QED
    BY <1>5, <1>6, <1>7, <1>8, <1>9, <1>10, <1>11 DEF Load

\* So does a step of main, and one of the threads that it starts.
LEMMA StartKeeps ==
  ASSUME IConfig, Begin \/ StartFails \/ UNCHANGED configVars
  PROVE  IConfig'
  <1>1. UNCHANGED <<program, file, at, key, config, ret, held>>
    BY DEF Begin, StartFails, configVars
  <1>2. Keys' = Keys /\ Files' = Files /\ GoodFile' = GoodFile
    BY <1>1 DEF Keys, Files, GoodFile
  <1> QED
    BY <1>1, <1>2
       DEF IConfig, ConfigType, Progress, Outcome, SettingsInOrder, NothingLeaked,
           Begin, StartFails, configVars

\* With all members assigned, the record is complete and so was the file.
LEMMA ConfigFollows ==
  ASSUME IConfig
  PROVE  ConfigInv
  <1>1. Keys \in Seq(Names) /\ Len(Keys) \in Nat \ {0}
    BY KeysAreSequence DEF IConfig, ConfigType
  <1>2. Range(Keys) = {Keys[i] : i \in 1 .. Len(Keys)}
    BY <1>1 DEF Range
  <1>3. ASSUME process \in {"loaded", "started"}
        PROVE  config = Range(Keys) /\ GoodFile
    <2>1. key = Len(Keys) + 1 /\ file.there /\ file.whole /\ file.root = "object"
      BY <1>3 DEF IConfig, Progress, Outcome
    <2>2. config = Range(Keys) /\ config \subseteq file.good
      BY <1>1, <1>2, <2>1 DEF IConfig, SettingsInOrder
    <2>3. file.good \subseteq Range(Keys)
      BY DEF IConfig, ConfigType, Files
    <2> QED
      BY <2>1, <2>2, <2>3 DEF GoodFile
  <1>4. process = "exited" => ~GoodFile
    BY DEF IConfig, Progress, Outcome
  <1> QED
    BY <1>3, <1>4 DEF IConfig, ConfigInv, SettingsComplete

\* A program starts with all of its settings from a good file or not at all, and
\* its loader leaves nothing open, for every program and every file.
THEOREM SettingsAlwaysComplete == Spec => []ConfigInv
  <1>1. Init => IConfig
    <2> SUFFICES ASSUME Init PROVE IConfig
      OBVIOUS
    <2>1. Keys \in Seq(Names) /\ Len(Keys) \in Nat \ {0}
      BY KeysAreSequence DEF Init, ConfigInit
    <2> QED
      BY <2>1 DEF Init, ConfigInit, IConfig, ConfigType, Progress, Outcome,
                  SettingsInOrder, NothingLeaked
  <1>2. IConfig /\ [Next]_vars => IConfig'
    <2> SUFFICES ASSUME IConfig, [Next]_vars PROVE IConfig'
      OBVIOUS
    <2>1. Load \/ Begin \/ StartFails \/ UNCHANGED configVars
      BY DEF Next, Loading, Runs, Exited, vars, configVars
    <2> QED
      BY <2>1, LoadKeeps, StartKeeps
  <1> QED
    BY <1>1, <1>2, ConfigFollows, PTL DEF Spec

--------------------------------------------------------------------------------
(* The blocks that the producers of c_malloc_free divide among themselves.     *)

\* Producers are counted from 0.
LEMMA ProducersCounted ==
  ASSUME RingType
  PROVE  NumProducer \in Nat /\ Producers = 0 .. NumProducer - 1
  <1> DEFINE N == <<1, hc, 2 * hc>>[call]
  <1>1. N \in Nat
    BY FreeRingAssumption DEF RingType
  <1>2. Producers = 0 .. N - 1
    BY DEF Producers, ProducersOf
  <1> HIDE DEF N
  <1>3. Cardinality(0 .. N - 1) = N
    BY <1>1, FS_Interval
  <1> QED
    BY <1>1, <1>2, <1>3 DEF NumProducer

\* The sizes of the loops are numbers.
LEMMA SizesType == Cnt \in Nat /\ Loop \in Nat /\ CntPerLoop \in Nat /\ Capacity \in Nat \ {0}
  BY FreeRingAssumption DEF Cnt

\* What a producer has to do is part of a loop, as often as there are loops.
LEMMA SliceOfProducer ==
  ASSUME RingType, NEW p \in Producers
  PROVE  /\ NumProducer \in Nat \ {0} /\ p \in 0 .. NumProducer - 1
         /\ StartIdx(p) = SliceStart(NumProducer, CntPerLoop, p)
         /\ EndIdx(p) = SliceEnd(NumProducer, CntPerLoop, p)
         /\ StartIdx(p) \in Nat /\ EndIdx(p) \in Nat /\ EndIdx(p) <= CntPerLoop
         /\ Width(p) \in Nat /\ Width(p) = EndIdx(p) - StartIdx(p)
         /\ Turns(p) \in Nat /\ Turns(p) <= Cnt
  <1>1. NumProducer \in Nat \ {0} /\ p \in 0 .. NumProducer - 1
    BY ProducersCounted
  <1>2. /\ StartIdx(p) = SliceStart(NumProducer, CntPerLoop, p)
        /\ EndIdx(p) = SliceEnd(NumProducer, CntPerLoop, p)
    BY DEF StartIdx, EndIdx, Share, SliceStart, SliceEnd
  <1>3. /\ StartIdx(p) \in Nat /\ EndIdx(p) \in Nat /\ EndIdx(p) <= CntPerLoop
        /\ StartIdx(p) <= EndIdx(p)
    BY <1>1, <1>2, SizesType, SliceBound
  <1>4. Width(p) \in Nat /\ Width(p) = EndIdx(p) - StartIdx(p) /\ Width(p) <= CntPerLoop
    BY <1>3, SizesType DEF Width
  <1>5. Width(p) * Loop <= CntPerLoop * Loop
    BY <1>4, SizesType, TimesMonotonic
  <1> QED
    BY <1>1, <1>2, <1>3, <1>4, <1>5, SizesType DEF Turns, Cnt

\* A turn is a place in a loop.
LEMMA TurnIsPlace ==
  ASSUME RingType, NEW p \in Producers, NEW t \in 0 .. Turns(p) - 1
  PROVE  \E l \in 0 .. Loop - 1 : \E m \in StartIdx(p) .. EndIdx(p) - 1 :
           /\ BlockAt(p, t) = l * CntPerLoop + m
           /\ t = l * Width(p) + (m - StartIdx(p))
  <1>1. /\ StartIdx(p) \in Nat /\ EndIdx(p) \in Nat
        /\ Width(p) \in Nat /\ Width(p) = EndIdx(p) - StartIdx(p)
        /\ Turns(p) = Loop * Width(p) /\ Loop \in Nat
    BY SliceOfProducer, SizesType DEF Turns
  <1>2. t \in Nat /\ t < Loop * Width(p)
    BY <1>1
  <1>3. ASSUME NEW w \in Nat, t < Loop * w
        PROVE  \E l \in 0 .. Loop - 1, c \in 0 .. w - 1 : t = l * w + c
    <2>1. Loop \in Nat /\ t \in Nat
      BY <1>1, <1>2
    <2> QED
      BY ONLY <1>3, <2>1, CellExists, Zenon
  <1>4. PICK l \in 0 .. Loop - 1, c \in 0 .. Width(p) - 1 : t = l * Width(p) + c
    BY <1>1, <1>2, <1>3
  <1>5. t \div Width(p) = l /\ t % Width(p) = c
    <2>1. l \in Nat /\ c \in Nat /\ c < Width(p) /\ Width(p) \in Nat
      BY <1>1
    <2>2. (l * Width(p) + c) \div Width(p) = l /\ (l * Width(p) + c) % Width(p) = c
      BY <2>1, DivideCell
    <2> QED
      BY <1>4, <2>2
  <1>6. BlockAt(p, t) = l * CntPerLoop + (StartIdx(p) + c)
    BY <1>1, <1>5, SizesType DEF BlockAt
  <1>7. StartIdx(p) + c \in StartIdx(p) .. EndIdx(p) - 1 /\ c = (StartIdx(p) + c) - StartIdx(p)
    BY <1>1
  <1> QED
    BY <1>4, <1>6, <1>7

\* It is about a block.
LEMMA TurnIsBlock ==
  ASSUME RingType, NEW p \in Producers, NEW t \in 0 .. Turns(p) - 1
  PROVE  BlockAt(p, t) \in Blocks
  <1>1. PICK l \in 0 .. Loop - 1, m \in StartIdx(p) .. EndIdx(p) - 1 : BlockAt(p, t) = l * CntPerLoop + m
    BY TurnIsPlace
  <1>2. l \in Nat /\ m \in Nat /\ m < CntPerLoop
    BY SliceOfProducer, SizesType
  <1>3. l * CntPerLoop + m < Loop * CntPerLoop /\ l * CntPerLoop \in Nat
    BY <1>2, SizesType, CellBound
  <1> QED
    BY <1>1, <1>2, <1>3, SizesType DEF Blocks, Cnt

\* No other turn, of any producer, is about the same block.
LEMMA TurnUnique ==
  ASSUME RingType, NEW p \in Producers, NEW t \in 0 .. Turns(p) - 1,
         NEW q \in Producers, NEW u \in 0 .. Turns(q) - 1, BlockAt(p, t) = BlockAt(q, u)
  PROVE  p = q /\ t = u
  <1>1. PICK l \in 0 .. Loop - 1, m \in StartIdx(p) .. EndIdx(p) - 1 :
          /\ BlockAt(p, t) = l * CntPerLoop + m
          /\ t = l * Width(p) + (m - StartIdx(p))
    BY TurnIsPlace
  <1>2. PICK o \in 0 .. Loop - 1, n \in StartIdx(q) .. EndIdx(q) - 1 :
          /\ BlockAt(q, u) = o * CntPerLoop + n
          /\ u = o * Width(q) + (n - StartIdx(q))
    BY TurnIsPlace
  <1>3. m \in Nat /\ m < CntPerLoop /\ n \in Nat /\ n < CntPerLoop
    BY SliceOfProducer, SizesType
  <1>4. l = o /\ m = n
    <2>1. l * CntPerLoop + m = o * CntPerLoop + n
      BY <1>1, <1>2
    <2>2. l \in Nat /\ o \in Nat /\ CntPerLoop \in Nat
      BY SizesType
    <2> QED
      BY ONLY <1>3, <2>1, <2>2, CellUnique, Zenon
  <1>5. p = q
    BY <1>4, SliceOfProducer, SizesType, CellOfOneSlice
  <1> QED
    BY <1>1, <1>2, <1>4, <1>5

\* Every block has a turn, if there are producers.
LEMMA TurnCovers ==
  ASSUME RingType, Producers # {}, NEW b \in Blocks
  PROVE  \E p \in Producers : \E t \in 0 .. Turns(p) - 1 : b = BlockAt(p, t)
  <1>1. b \in Nat /\ b < Loop * CntPerLoop
    BY SizesType DEF Blocks, Cnt
  <1>2. PICK l \in 0 .. Loop - 1, m \in 0 .. CntPerLoop - 1 : b = l * CntPerLoop + m
    BY ONLY <1>1, SizesType, CellExists, Zenon
  <1>3. NumProducer \in Nat \ {0} /\ Producers = 0 .. NumProducer - 1
    BY ProducersCounted
  <1>4. PICK p \in 0 .. NumProducer - 1 :
          m \in SliceStart(NumProducer, CntPerLoop, p) .. SliceEnd(NumProducer, CntPerLoop, p) - 1
    <2>1. m \in Nat /\ m < CntPerLoop
      BY <1>2, SizesType
    <2> QED
      BY <1>3, <2>1, SizesType, CellOfSomeSlice
  <1>5. /\ p \in Producers /\ m \in StartIdx(p) .. EndIdx(p) - 1
        /\ Width(p) \in Nat /\ Width(p) = EndIdx(p) - StartIdx(p) /\ StartIdx(p) \in Nat
        /\ EndIdx(p) \in Nat
    BY <1>3, <1>4, SliceOfProducer
  <1> DEFINE c == m - StartIdx(p)
  <1>6. c \in Nat /\ c < Width(p) /\ l \in Nat /\ l < Loop /\ m = StartIdx(p) + c
    BY <1>5, SizesType
  <1> HIDE DEF c
  <1> DEFINE t == l * Width(p) + c
  <1>7. l * Width(p) \in Nat /\ t \in Nat /\ t < Loop * Width(p)
    BY <1>5, <1>6, SizesType, CellBound
  <1>8. t \div Width(p) = l /\ t % Width(p) = c
    BY <1>5, <1>6, DivideCell
  <1> HIDE DEF t
  <1>9. BlockAt(p, t) = b
    BY <1>2, <1>5, <1>6, <1>8, SizesType DEF BlockAt
  <1>10. t \in 0 .. Turns(p) - 1
    BY <1>5, <1>7, SizesType DEF Turns
  <1> QED
    BY <1>5, <1>9, <1>10

--------------------------------------------------------------------------------
(* The blocks as sets.                                                         *)

\* There are finitely many blocks.
LEMMA BlockSets ==
  /\ IsFiniteSet(Blocks) /\ Cardinality(Blocks) = Cnt
  /\ \A B \in SUBSET Blocks :
       /\ IsFiniteSet(B) /\ Cardinality(B) \in Nat /\ Cardinality(B) <= Cnt
       /\ Cardinality(B) = Cnt => B = Blocks
  <1>1. IsFiniteSet(Blocks) /\ Cardinality(Blocks) = Cnt
    BY SizesType, FS_Interval DEF Blocks
  <1>2. ASSUME NEW B \in SUBSET Blocks
        PROVE  /\ IsFiniteSet(B) /\ Cardinality(B) \in Nat /\ Cardinality(B) <= Cnt
               /\ Cardinality(B) = Cnt => B = Blocks
    BY <1>1, FS_Subset, FS_CardinalityType
  <1> QED
    BY <1>1, <1>2

\* Which turns there are is fixed during a benchmark.
LEMMA TurnsFixed ==
  ASSUME UNCHANGED callVars
  PROVE  /\ Producers' = Producers
         /\ \A p : Turns(p)' = Turns(p)
         /\ \A p, t : BlockAt(p, t)' = BlockAt(p, t)
  <1>1. Producers' = Producers /\ NumProducer' = NumProducer
    BY DEF callVars, Producers, ProducersOf, NumProducer
  <1>2. \A p : Width(p)' = Width(p) /\ StartIdx(p)' = StartIdx(p)
    BY <1>1 DEF Width, StartIdx, EndIdx, Share
  <1> QED
    BY <1>1, <1>2 DEF Turns, BlockAt

\* The block of the turn that a producer is in was not taken before, and no other
\* producer is in a turn about it.
LEMMA CurrentTurn ==
  ASSUME RingType, TurnInv, NEW p \in Producers, ppc[p] \in {"malloc", "write"},
         NEW b, b = BlockAt(p, k[p])
  PROVE  /\ k[p] \in Nat /\ k[p] < Turns(p) /\ Turns(p) \in Nat /\ Turns(p) <= Cnt
         /\ b \in Blocks
         /\ b \notin Taken
         /\ \A q \in Producers \ {p} : ppc[q] = "write" => b # BlockAt(q, k[q])
  <1>1. k[p] \in Nat /\ k[p] < Turns(p) /\ Turns(p) \in Nat /\ Turns(p) <= Cnt
    BY SliceOfProducer DEF RingType, TurnInv
  <1>2. k[p] \in 0 .. Turns(p) - 1
    BY <1>1
  <1>3. b \in Blocks
    BY <1>2, TurnIsBlock
  <1>4. ASSUME NEW q \in Producers, NEW t \in 0 .. k[q] - 1
        PROVE  b # BlockAt(q, t)
    <2>1. Turns(q) \in Nat /\ k[q] \in Nat /\ k[q] <= Turns(q)
      BY SliceOfProducer DEF RingType, TurnInv
    <2>2. t \in 0 .. Turns(q) - 1
      BY <2>1
    <2>3. BlockAt(p, k[p]) = BlockAt(q, t) => p = q /\ k[p] = t
      BY <1>2, <2>2, TurnUnique
    <2> QED
      BY <1>1, <2>1, <2>3
  <1>5. ASSUME NEW q \in Producers \ {p}, ppc[q] = "write"
        PROVE  b # BlockAt(q, k[q])
    <2>1. k[q] \in 0 .. Turns(q) - 1
      BY <1>5, SliceOfProducer DEF RingType, TurnInv
    <2> QED
      BY <1>2, <2>1, TurnUnique
  <1> QED
    BY <1>1, <1>3, <1>4, <1>5 DEF Taken

\* A block in a producer's hands is not taken yet.
LEMMA HandNotTaken ==
  ASSUME RingType, TurnInv, NEW b, InHand(b)
  PROVE  b \in Blocks /\ b \notin Taken
  BY CurrentTurn DEF InHand

\* Nothing but the end of a turn takes a block.
LEMMA HandsStay ==
  ASSUME RingType, UNCHANGED <<callVars, k>>,
         \A p \in Producers : ppc'[p] = "write" <=> ppc[p] = "write"
  PROVE  Taken' = Taken /\ \A b : InHand(b)' <=> InHand(b)
  <1>1. Producers' = Producers /\ \A p, t : BlockAt(p, t)' = BlockAt(p, t)
    BY TurnsFixed
  <1>2. Taken' = Taken
    BY <1>1 DEF Taken
  <1>3. ASSUME NEW b
        PROVE  InHand(b)' <=> InHand(b)
    BY <1>1 DEF InHand
  <1> QED
    BY <1>2, <1>3

\* The end of a turn takes its block.
LEMMA TurnEnds ==
  ASSUME RingType, TurnInv, UNCHANGED callVars, NEW p \in Producers,
         ppc[p] \in {"malloc", "write"}, NextTurn(p), NEW b, b = BlockAt(p, k[p])
  PROVE  /\ TurnInv'
         /\ ppc' \in [Producers -> {"wait", "malloc", "write", "done"}]
         /\ k' \in [Producers -> 0 .. Cnt]
         /\ ppc'[p] # "write" /\ \A q \in Producers \ {p} : ppc'[q] = ppc[q]
         /\ Taken' = Taken \cup {b}
         /\ Cardinality(Taken') = Cardinality(Taken) + 1
         /\ \A c : InHand(c)' <=> InHand(c) /\ c # b
  <1>1. /\ Producers' = Producers
        /\ \A q : Turns(q)' = Turns(q)
        /\ \A q, t : BlockAt(q, t)' = BlockAt(q, t)
    BY TurnsFixed
  <1>2. /\ k[p] \in Nat /\ k[p] < Turns(p) /\ Turns(p) \in Nat /\ Turns(p) <= Cnt
        /\ b \in Blocks /\ b \notin Taken
        /\ \A q \in Producers \ {p} : ppc[q] = "write" => b # BlockAt(q, k[q])
    BY CurrentTurn
  <1>3. /\ k' = [k EXCEPT ![p] = k[p] + 1]
        /\ ppc' = [ppc EXCEPT ![p] = IF k[p] + 1 < Turns(p) THEN "malloc" ELSE "done"]
        /\ ppc \in [Producers -> {"wait", "malloc", "write", "done"}]
        /\ k \in [Producers -> 0 .. Cnt]
    BY DEF NextTurn, RingType
  <1>4. /\ ppc'[p] = IF k[p] + 1 < Turns(p) THEN "malloc" ELSE "done"
        /\ k'[p] = k[p] + 1
        /\ \A q \in Producers \ {p} : ppc'[q] = ppc[q] /\ k'[q] = k[q]
    BY <1>3
  <1>5. ppc' \in [Producers -> {"wait", "malloc", "write", "done"}]
    BY <1>3
  <1>6. k' \in [Producers -> 0 .. Cnt]
    BY <1>2, <1>3, SizesType
  <1>7. TurnInv'
    BY <1>1, <1>2, <1>4 DEF TurnInv
  <1>8. Taken' = Taken \cup {b}
    <2>1. ASSUME NEW c \in Blocks
          PROVE  (\E q \in Producers : \E t \in 0 .. k'[q] - 1 : c = BlockAt(q, t))
                 <=> (\E q \in Producers : \E t \in 0 .. k[q] - 1 : c = BlockAt(q, t)) \/ c = b
      <3>1. \A t : t \in 0 .. k'[p] - 1 <=> t \in 0 .. k[p] - 1 \/ t = k[p]
        BY <1>2, <1>4
      <3> QED
        BY <1>4, <3>1
    <2> QED
      BY <1>1, <1>2, <2>1 DEF Taken
  <1>9. Cardinality(Taken') = Cardinality(Taken) + 1
    <2>1. IsFiniteSet(Taken)
      BY BlockSets DEF Taken
    <2> QED
      BY <1>2, <1>8, <2>1, FS_AddElement
  <1>10. ASSUME NEW c
         PROVE  InHand(c)' <=> InHand(c) /\ c # b
    <2>1. InHand(c)' <=> \E q \in Producers : ppc'[q] = "write" /\ c = BlockAt(q, k'[q])
      BY <1>1 DEF InHand
    <2>2. ppc'[p] # "write"
      BY <1>4
    <2>3. (\E q \in Producers : ppc'[q] = "write" /\ c = BlockAt(q, k'[q]))
          <=> \E q \in Producers \ {p} : ppc[q] = "write" /\ c = BlockAt(q, k[q])
      BY <1>4, <2>2
    <2> QED
      BY <1>2, <2>1, <2>3 DEF InHand
  <1> QED
    BY <1>4, <1>5, <1>6, <1>7, <1>8, <1>9, <1>10

--------------------------------------------------------------------------------
(* The ring.                                                                   *)

\* Every position has a slot.
LEMMA PositionHasSlot ==
  ASSUME NEW m \in Nat
  PROVE  SlotOf(m) \in Slots
  BY SizesType DEF SlotOf, Slots

\* Positions less than the ring apart have different slots.
LEMMA SlotsDiffer ==
  ASSUME NEW m \in Nat, NEW n \in Nat, m < n, n - m < Capacity
  PROVE  SlotOf(m) # SlotOf(n)
  <1>1. m % Capacity = n % Capacity => m = n
    <2>1. m <= n /\ Capacity \in Nat \ {0}
      BY SizesType
    <2> QED
      BY ONLY <2>1, m \in Nat, n \in Nat, n - m < Capacity, RemainderUnique, Zenon
  <1> QED
    BY <1>1 DEF SlotOf

\* A block is no null pointer.
LEMMA BlockNotNull ==
  ASSUME NEW b \in Blocks
  PROVE  b # Null
  BY FreeRingAssumption, SizesType DEF Blocks

\* Steps that leave the ring, the memory and the blocks in hand alone.
LEMMA RingStays ==
  ASSUME RingInd, UNCHANGED <<slot, cursor, pos, block, cnt, state, lapped>>,
         Taken' = Taken, \A b : InHand(b)' <=> InHand(b),
         cpc' = "free" <=> cpc = "free", cpc' = "done" <=> cpc = "done",
         NullWritten' <=> NullWritten, main' # "aborted" \/ lapped, main # "aborted" \/ main' = main
  PROVE  (PositionInv /\ OwnerInv /\ WindowInv)'
  <1> USE DEF RingInd
  <1>1. PositionInv'
    <2>1. CASE main = "aborted"
      BY <2>1 DEF PositionInv
    <2>2. CASE main # "aborted"
      BY <2>2 DEF PositionInv, SlotOf
    <2> QED
      BY <2>1, <2>2
  <1>2. OwnerInv'
    BY DEF OwnerInv, Freed
  <1>3. WindowInv'
    BY DEF WindowInv, Pending, SlotOf
  <1> QED
    BY <1>1, <1>2, <1>3

--------------------------------------------------------------------------------
(* The steps of a producer.                                                    *)

\* A producer sees that the consumer is ready, and has its turns before it.
LEMMA SeeReadyKeeps ==
  ASSUME RingInd, NEW p \in Producers, SeeReady(p)
  PROVE  RingInd'
  <1> USE DEF RingInd
  <1>1. /\ ppc[p] = "wait" /\ main # "aborted"
        /\ ppc' = [ppc EXCEPT ![p] = IF Turns(p) > 0 THEN "malloc" ELSE "done"]
        /\ UNCHANGED <<callVars, hc, call, main, ready, k, slot, cursor, cpc, pos, block, cnt, state, lapped>>
    BY DEF SeeReady, Alive, callVars, consumerVars
  <1>2. /\ Producers' = Producers /\ \A q : Turns(q)' = Turns(q)
    BY <1>1, TurnsFixed
  <1>3. /\ ppc'[p] = IF Turns(p) > 0 THEN "malloc" ELSE "done"
        /\ \A q \in Producers \ {p} : ppc'[q] = ppc[q]
    BY <1>1 DEF RingType
  <1>4. RingType'
    BY <1>1, <1>2 DEF RingType
  <1>5. TurnInv'
    <2>1. k[p] = 0 /\ Turns(p) \in Nat
      BY <1>1, SliceOfProducer DEF TurnInv
    <2> QED
      BY <1>1, <1>2, <1>3, <2>1 DEF TurnInv
  <1>6. PhaseInv'
    BY <1>1, <1>2, <1>3 DEF PhaseInv
  <1>7. (PositionInv /\ OwnerInv /\ WindowInv)'
    <2>1. Taken' = Taken /\ \A b : InHand(b)' <=> InHand(b)
      BY <1>1, <1>3, HandsStay
    <2>2. NullWritten' <=> NullWritten
      BY <1>1 DEF NullWritten
    <2> QED
      BY <1>1, <2>1, <2>2, RingStays
  <1> QED
    BY <1>4, <1>5, <1>6, <1>7

\* A block is allocated in its turn.
LEMMA MallocKeeps ==
  ASSUME RingInd, NEW p \in Producers, Malloc(p)
  PROVE  RingInd'
  <1> USE DEF RingInd
  <1> DEFINE b == BlockAt(p, k[p])
  <1>1. /\ ppc[p] = "malloc" /\ main # "aborted"
        /\ state' = [state EXCEPT ![b] = "allocated"]
        /\ ppc' = [ppc EXCEPT ![p] = "write"]
        /\ UNCHANGED <<callVars, hc, call, main, ready, k, slot, cursor, cpc, pos, block, cnt, lapped>>
    BY DEF Malloc, Alive, callVars, consumerVars
  <1>2. /\ k[p] \in Nat /\ k[p] < Turns(p)
        /\ b \in Blocks /\ b \notin Taken
        /\ \A q \in Producers \ {p} : ppc[q] = "write" => b # BlockAt(q, k[q])
    BY <1>1, CurrentTurn
  <1>3. /\ Producers' = Producers /\ \A q : Turns(q)' = Turns(q)
        /\ \A q, t : BlockAt(q, t)' = BlockAt(q, t)
    BY <1>1, TurnsFixed
  <1>4. /\ ppc'[p] = "write"
        /\ \A q \in Producers \ {p} : ppc'[q] = ppc[q]
    BY <1>1 DEF RingType
  <1>5. Taken' = Taken
    BY <1>1, <1>3 DEF Taken
  <1>6. ASSUME NEW c
        PROVE  InHand(c)' <=> InHand(c) \/ c = b
    BY <1>1, <1>3, <1>4 DEF InHand
  <1>7. ~InHand(b)
    BY <1>1, <1>2 DEF InHand
  <1> HIDE DEF b
  <1>8. state'[b] = "allocated" /\ \A c \in Blocks \ {b} : state'[c] = state[c]
    BY <1>1, <1>2 DEF RingType
  <1>9. RingType'
    BY <1>1, <1>2, <1>3 DEF RingType
  <1>10. TurnInv'
    BY <1>1, <1>2, <1>3, <1>4 DEF TurnInv
  <1>11. PhaseInv'
    BY <1>1, <1>3, <1>4 DEF PhaseInv
  <1>12. NullWritten' <=> NullWritten
    BY <1>1 DEF NullWritten
  <1>13. PositionInv'
    BY <1>1, <1>5, <1>12 DEF PositionInv, SlotOf
  <1>14. OwnerInv'
    <2> SUFFICES ASSUME ~lapped
                 PROVE  OwnerInv'
      BY <1>1 DEF OwnerInv
    <2>1. state[b] = "none"
      BY <1>2, <1>7 DEF OwnerInv
    <2>2. Freed' = Freed
      BY <1>8, <2>1 DEF Freed
    <2>3. Taken \subseteq Blocks
      BY DEF Taken
    <2> QED
      BY <1>1, <1>2, <1>5, <1>6, <1>8, <1>12, <2>2, <2>3 DEF OwnerInv
  <1>15. WindowInv'
    <2>1. Taken \subseteq Blocks
      BY DEF Taken
    <2> QED
      BY <1>1, <1>2, <1>5, <1>6, <1>8, <1>12, <2>1 DEF WindowInv, Pending, SlotOf
  <1> QED
    BY <1>9, <1>10, <1>11, <1>13, <1>14, <1>15

\* A block that cannot be allocated is left out.
LEMMA MallocFailsKeeps ==
  ASSUME RingInd, NEW p \in Producers, MallocFails(p)
  PROVE  RingInd'
  <1> USE DEF RingInd
  <1> DEFINE b == BlockAt(p, k[p])
  <1>1. /\ ppc[p] = "malloc" /\ main # "aborted" /\ NextTurn(p)
        /\ state' = [state EXCEPT ![b] = "failed"]
        /\ UNCHANGED <<callVars, hc, call, main, ready, slot, cursor, cpc, pos, block, cnt, lapped>>
    BY DEF MallocFails, Alive, callVars, consumerVars
  <1>2. /\ b \in Blocks /\ b \notin Taken
        /\ \A q \in Producers \ {p} : ppc[q] = "write" => b # BlockAt(q, k[q])
    BY <1>1, CurrentTurn
  <1>3. /\ TurnInv'
        /\ ppc' \in [Producers -> {"wait", "malloc", "write", "done"}]
        /\ k' \in [Producers -> 0 .. Cnt]
        /\ ppc'[p] # "write" /\ \A q \in Producers \ {p} : ppc'[q] = ppc[q]
        /\ Taken' = Taken \cup {b}
        /\ Cardinality(Taken') = Cardinality(Taken) + 1
        /\ \A c : InHand(c)' <=> InHand(c) /\ c # b
    BY <1>1, TurnEnds
  <1>4. Producers' = Producers
    BY <1>1, TurnsFixed
  <1>5. ~InHand(b)
    BY <1>1, <1>2 DEF InHand
  <1> HIDE DEF b
  <1>6. state'[b] = "failed" /\ \A c \in Blocks \ {b} : state'[c] = state[c]
    BY <1>1, <1>2 DEF RingType
  <1>7. Taken \subseteq Blocks /\ Cardinality(Taken) \in Nat
    BY BlockSets DEF Taken
  <1>8. RingType'
    BY <1>1, <1>2, <1>3, <1>4 DEF RingType
  <1>9. PhaseInv'
    BY <1>1, <1>3, <1>4 DEF PhaseInv
  <1>10. NullWritten' <=> NullWritten
    BY <1>1 DEF NullWritten
  <1>11. PositionInv'
    <2>1. cursor \in Nat
      BY DEF RingType
    <2> QED
      BY <1>1, <1>3, <1>7, <1>10, <2>1 DEF PositionInv, SlotOf
  <1>12. OwnerInv'
    <2> SUFFICES ASSUME ~lapped
                 PROVE  OwnerInv'
      BY <1>1 DEF OwnerInv
    <2>1. state[b] = "none"
      BY <1>2, <1>5 DEF OwnerInv
    <2>2. Freed' = Freed
      BY <1>6, <2>1 DEF Freed
    <2> QED
      BY <1>1, <1>2, <1>3, <1>5, <1>6, <1>7, <1>10, <2>2 DEF OwnerInv
  <1>13. WindowInv'
    BY <1>1, <1>2, <1>3, <1>5, <1>6, <1>7, <1>10 DEF WindowInv, Pending, SlotOf
  <1> QED
    BY <1>3, <1>8, <1>9, <1>11, <1>12, <1>13

\* A block is written into the ring when its producer has it in hand, and not again.
LEMMA WriteKeeps ==
  ASSUME RingInd, NEW p \in Producers, Write(p)
  PROVE  RingInd'
  <1> USE DEF RingInd
  <1> DEFINE b == BlockAt(p, k[p])
  <1>1. /\ ppc[p] = "write" /\ main # "aborted" /\ NextTurn(p)
        /\ slot' = [slot EXCEPT ![SlotOf(cursor)] = b]
        /\ cursor' = cursor + 1
        /\ UNCHANGED <<callVars, hc, call, main, ready, cpc, pos, block, cnt, state, lapped>>
    BY DEF Write, Put, Alive, callVars, consumerVars
  <1>2. /\ b \in Blocks /\ b \notin Taken /\ b # Null
        /\ \A q \in Producers \ {p} : ppc[q] = "write" => b # BlockAt(q, k[q])
    BY <1>1, CurrentTurn, BlockNotNull
  <1>3. /\ TurnInv'
        /\ ppc' \in [Producers -> {"wait", "malloc", "write", "done"}]
        /\ k' \in [Producers -> 0 .. Cnt]
        /\ ppc'[p] # "write" /\ \A q \in Producers \ {p} : ppc'[q] = ppc[q]
        /\ Taken' = Taken \cup {b}
        /\ Cardinality(Taken') = Cardinality(Taken) + 1
        /\ \A c : InHand(c)' <=> InHand(c) /\ c # b
    BY <1>1, TurnEnds
  <1>4. Producers' = Producers
    BY <1>1, TurnsFixed
  <1>5. InHand(b)
    BY <1>1 DEF InHand
  <1> HIDE DEF b
  <1>6. ~NullWritten /\ ~NullWritten'
    BY <1>1 DEF PhaseInv, NullWritten
  <1>7. /\ Taken \subseteq Blocks /\ Cardinality(Taken) \in Nat
        /\ Taken' \subseteq Blocks /\ Cardinality(Taken') <= Cnt
    BY <1>2, <1>3, BlockSets DEF Taken
  <1>8. cursor \in Nat /\ pos \in Nat /\ pos <= cursor /\ cursor <= Cardinality(Taken)
    BY <1>1, <1>6 DEF RingType, PositionInv
  <1>9. SlotOf(cursor) \in Slots /\ slot'[SlotOf(cursor)] = b
    BY <1>1, <1>8, PositionHasSlot DEF RingType
  <1>10. RingType'
    <2>1. cursor' \in 0 .. Cnt + 1
      BY <1>1, <1>3, <1>7, <1>8, SizesType
    <2> QED
      BY <1>1, <1>2, <1>3, <1>4, <2>1 DEF RingType
  <1>11. PhaseInv'
    BY <1>1, <1>3, <1>4 DEF PhaseInv
  <1>12. PositionInv'
    BY <1>1, <1>3, <1>6, <1>7, <1>8 DEF PositionInv
  <1>13. OwnerInv'
    <2>1. Freed' = Freed
      BY <1>1 DEF Freed
    <2> QED
      BY <1>1, <1>2, <1>3, <1>5, <1>6, <1>7, <2>1 DEF OwnerInv
  <1>14. WindowInv'
    <2> SUFFICES ASSUME ~lapped', cursor' - pos' <= Capacity
                 PROVE  WindowInv'
      BY Zenon DEF WindowInv
    <2>0. ~lapped /\ cursor + 1 - pos <= Capacity
      <3>1. lapped' = lapped /\ cursor' = cursor + 1 /\ pos' = pos
        BY <1>1
      <3>2. ~lapped
        BY <3>1, Zenon
      <3> QED
        BY <1>8, <3>1, <3>2, SizesType
    <2>1. cursor - pos <= Capacity
      BY <1>8, <2>0, SizesType
    <2>2. ASSUME NEW m \in Pending
          PROVE  /\ SlotOf(m)' = SlotOf(m) /\ m # cursor
                 /\ slot'[SlotOf(m)] = slot[SlotOf(m)]
                 /\ slot[SlotOf(m)] # Null
                 /\ slot[SlotOf(m)] \in Taken /\ slot[SlotOf(m)] # b
      <3>1. m \in Nat /\ m < cursor /\ cursor - m < Capacity
        BY <1>8, <2>0, SizesType DEF Pending
      <3>2. SlotOf(m) \in Slots /\ SlotOf(m) # SlotOf(cursor)
        BY <1>8, <3>1, SlotsDiffer, PositionHasSlot
      <3>3. slot'[SlotOf(m)] = slot[SlotOf(m)]
        BY <1>1, <3>2 DEF RingType
      <3>4. slot[SlotOf(m)] # Null
        BY <1>6, <2>0, <2>1 DEF WindowInv
      <3>5. slot[SlotOf(m)] \in Taken
        BY <2>0, <2>1, <3>4 DEF WindowInv
      <3> QED
        BY <1>2, <3>1, <3>3, <3>4, <3>5 DEF SlotOf
    <2>3. Pending' = Pending \cup {cursor}
      BY <1>1, <1>8 DEF Pending
    <2>4. SlotOf(cursor)' = SlotOf(cursor + 1) /\ \A m : SlotOf(m)' = SlotOf(m)
      BY <1>1 DEF SlotOf
    <2>5. state[b] = "allocated" /\ state' = state
      BY <1>1, <1>2, <1>5 DEF OwnerInv
    <2>6. \A m \in Pending' : slot'[SlotOf(m)] # Null
      BY <1>2, <1>9, <2>2, <2>3
    <2>7. \A m \in Pending' : /\ slot'[SlotOf(m)] \in Taken'
                              /\ state'[slot'[SlotOf(m)]] = "allocated"
                              /\ cpc = "free" => slot'[SlotOf(m)] # block
      <3>1. cpc = "free" => b # block
        BY <1>2, <2>0 DEF OwnerInv
      <3> QED
        BY <1>3, <1>9, <2>0, <2>1, <2>2, <2>3, <2>5, <3>1 DEF WindowInv
    <2>8. \A m, n \in Pending' : slot'[SlotOf(m)] = slot'[SlotOf(n)] => m = n
      BY <1>9, <2>0, <2>1, <2>2, <2>3 DEF WindowInv
    <2>9. \A c \in Blocks : state'[c] = "allocated" =>
            \/ InHand(c)'
            \/ cpc = "free" /\ block = c
            \/ \E m \in Pending' : slot'[SlotOf(m)] = c
      BY <1>3, <1>9, <2>0, <2>1, <2>2, <2>3, <2>5 DEF WindowInv
    <2> QED
      BY <1>1, <2>4, <2>6, <2>7, <2>8, <2>9 DEF WindowInv
  <1> QED
    BY <1>3, <1>10, <1>11, <1>12, <1>13, <1>14

--------------------------------------------------------------------------------
(* The steps of the consumer.                                                  *)

\* The consumer says that it is ready, once.
LEMMA StartConsumerKeeps ==
  ASSUME RingInd, Start
  PROVE  RingInd'
  <1> USE DEF RingInd
  <1>1. /\ cpc = "start" /\ cpc' = "read" /\ ready' = ready + 1 /\ main # "aborted"
        /\ UNCHANGED <<callVars, hc, call, main, ppc, k, slot, cursor, pos, block, cnt, state, lapped>>
    BY DEF Start, Alive, callVars, producerVars
  <1>2. Producers' = Producers /\ \A q : Turns(q)' = Turns(q)
    BY <1>1, TurnsFixed
  <1>3. ready = 0
    BY <1>1 DEF PhaseInv
  <1>4. RingType'
    BY <1>1, <1>2, <1>3 DEF RingType
  <1>5. TurnInv'
    BY <1>1, <1>2 DEF TurnInv
  <1>6. PhaseInv'
    BY <1>1, <1>2, <1>3 DEF PhaseInv
  <1>7. (PositionInv /\ OwnerInv /\ WindowInv)'
    <2>1. Taken' = Taken /\ \A b : InHand(b)' <=> InHand(b)
      BY <1>1, HandsStay
    <2>2. NullWritten' <=> NullWritten
      BY <1>1 DEF NullWritten
    <2> QED
      BY <1>1, <2>1, <2>2, RingStays
  <1> QED
    BY <1>4, <1>5, <1>6, <1>7

\* What is read is next in the window, or the end of it.
LEMMA ReadKeeps ==
  ASSUME RingInd, Read
  PROVE  RingInd'
  <1> USE DEF RingInd
  <1> DEFINE b == slot[SlotOf(pos)]
  <1>1. /\ cpc = "read" /\ pos < cursor /\ main # "aborted"
        /\ block' = b /\ pos' = pos + 1
        /\ lapped' = (lapped \/ cursor - pos > Capacity)
        /\ cpc' = IF b = Null THEN "done" ELSE "free"
        /\ UNCHANGED <<callVars, hc, call, main, ready, ppc, k, slot, cursor, cnt, state>>
    BY DEF Read, Alive, callVars, producerVars
  <1>2. Producers' = Producers /\ \A q : Turns(q)' = Turns(q)
    BY <1>1, TurnsFixed
  <1>3. pos \in Nat /\ cursor \in Nat /\ cursor <= Cnt + 1 /\ cnt \in Nat
    BY SizesType DEF RingType
  <1>4. Taken' = Taken /\ \A c : InHand(c)' <=> InHand(c)
    BY <1>1, HandsStay
  <1>5. NullWritten' <=> NullWritten
    BY <1>1 DEF NullWritten
  <1>6. b \in Blocks \cup {Null}
    BY <1>3, PositionHasSlot DEF RingType
  <1>7. \A m : SlotOf(m)' = SlotOf(m)
    BY DEF SlotOf
  <1>8. pos = cursor - 1 /\ NullWritten => b = Null
    BY <1>1 DEF PositionInv
  <1>9. ~lapped' => /\ ~lapped /\ cursor - pos <= Capacity
                    /\ b = Null => NullWritten /\ pos = cursor - 1
                    /\ b # Null => b \in Taken /\ state[b] = "allocated"
    <2> SUFFICES ASSUME ~lapped'
                 PROVE  /\ ~lapped /\ cursor - pos <= Capacity
                        /\ b = Null => NullWritten /\ pos = cursor - 1
                        /\ b # Null => b \in Taken /\ state[b] = "allocated"
      BY Zenon
    <2>1. ~lapped /\ ~(cursor - pos > Capacity)
      BY <1>1, Zenon
    <2>2. cursor - pos <= Capacity
      BY <1>3, <2>1, SizesType
    <2>3. pos \in Pending
      BY <1>1, <1>3 DEF Pending
    <2> QED
      BY <2>1, <2>2, <2>3 DEF WindowInv
  <1>10. Pending = Pending' \cup {pos} /\ pos \notin Pending'
    BY <1>1, <1>3 DEF Pending
  <1>11. \A m \in Pending : ~lapped' /\ slot[SlotOf(m)] = b /\ b # Null => m = pos
    BY <1>9, <1>10 DEF WindowInv
  <1>12. \A c \in Blocks : ~lapped' /\ state[c] = "allocated" =>
           InHand(c) \/ c = b \/ \E m \in Pending' : slot[SlotOf(m)] = c
    BY <1>1, <1>9, <1>10 DEF WindowInv
  <1>13. \A m \in Pending' : ~lapped' =>
           /\ slot[SlotOf(m)] = Null => NullWritten /\ m = cursor - 1
           /\ slot[SlotOf(m)] # Null => /\ slot[SlotOf(m)] \in Taken
                                        /\ state[slot[SlotOf(m)]] = "allocated"
    BY <1>9, <1>10 DEF WindowInv
  <1>14. \A m, n \in Pending' : ~lapped' /\ slot[SlotOf(m)] = slot[SlotOf(n)] /\ slot[SlotOf(m)] # Null => m = n
    BY <1>9, <1>10 DEF WindowInv
  <1> HIDE DEF b
  <1>15. RingType'
    <2>1. pos' \in 0 .. Cnt + 1 /\ lapped' \in BOOLEAN
      BY <1>1, <1>3, SizesType
    <2> QED
      BY <1>1, <1>2, <1>6, <2>1 DEF RingType
  <1>16. TurnInv'
    BY <1>1, <1>2 DEF TurnInv
  <1>17. PhaseInv'
    BY <1>1, <1>2 DEF PhaseInv
  <1>18. PositionInv'
    <2>1. pos + 1 <= cursor /\ cnt + 1 <= pos + 1
      BY <1>1, <1>3 DEF PositionInv
    <2>2. NullWritten => slot[SlotOf(cursor - 1)] = Null /\ (cpc' # "done" => pos + 1 < cursor)
      BY <1>1, <1>3, <1>8 DEF PositionInv
    <2>3. (IF NullWritten THEN cursor - 1 ELSE cursor) <= Cardinality(Taken)
      BY <1>1 DEF PositionInv
    <2> QED
      BY <1>1, <1>3, <1>4, <1>5, <1>7, <2>1, <2>2, <2>3 DEF PositionInv
  <1>19. OwnerInv'
    <2> SUFFICES ASSUME ~lapped'
                 PROVE  OwnerInv'
      BY Zenon DEF OwnerInv
    <2>1. Freed' = Freed
      BY <1>1 DEF Freed
    <2>2. b = Null => pos + 1 = cursor
      BY <1>3, <1>9
    <2> QED
      BY <1>1, <1>4, <1>5, <1>9, <2>1, <2>2 DEF OwnerInv
  <1>20. WindowInv'
    <2> SUFFICES ASSUME ~lapped', cursor' - pos' <= Capacity
                 PROVE  WindowInv'
      BY Zenon DEF WindowInv
    <2>1. \A m \in Pending' : slot[SlotOf(m)] # Null /\ cpc' = "free" => slot[SlotOf(m)] # b
      BY <1>10, <1>11
    <2>2. \A c \in Blocks : state[c] = "allocated" =>
            InHand(c) \/ (cpc' = "free" /\ c = b) \/ \E m \in Pending' : slot[SlotOf(m)] = c
      BY <1>1, <1>12, BlockNotNull
    <2> QED
      BY <1>1, <1>4, <1>5, <1>7, <1>13, <1>14, <2>1, <2>2 DEF WindowInv
  <1> QED
    BY <1>15, <1>16, <1>17, <1>18, <1>19, <1>20

\* What is freed was allocated and in the consumer's hands alone, unless it was lapped.
LEMMA FreeKeeps ==
  ASSUME RingInd, Free
  PROVE  RingInd'
  <1> USE DEF RingInd
  <1>1. /\ cpc = "free" /\ main # "aborted"
        /\ state' = [state EXCEPT ![block] = IF state[block] = "allocated" THEN "freed" ELSE "freedTwice"]
        /\ cnt' = cnt + 1 /\ cpc' = "read"
        /\ UNCHANGED <<callVars, hc, call, main, ready, ppc, k, slot, cursor, pos, block, lapped>>
    BY DEF Free, Alive, callVars, producerVars
  <1>2. Producers' = Producers /\ \A q : Turns(q)' = Turns(q)
    BY <1>1, TurnsFixed
  <1>3. pos \in Nat /\ cursor \in Nat /\ cnt \in Nat
    BY SizesType DEF RingType
  <1>4. Taken' = Taken /\ \A c : InHand(c)' <=> InHand(c)
    BY <1>1, HandsStay
  <1>5. NullWritten' <=> NullWritten
    BY <1>1 DEF NullWritten
  <1>6. \A m : SlotOf(m)' = SlotOf(m)
    BY DEF SlotOf
  <1>7. Pending' = Pending
    BY <1>1 DEF Pending
  <1>8. cnt + 1 <= pos /\ cnt + 1 <= Cnt
    <2>1. cnt + 1 <= pos /\ pos <= cursor
      BY <1>1 DEF PositionInv
    <2>2. Cardinality(Taken) \in Nat /\ Cardinality(Taken) <= Cnt
      BY BlockSets DEF Taken
    <2>3. CASE NullWritten
      <3>1. pos < cursor /\ cursor - 1 <= Cardinality(Taken)
        BY <1>1, <2>3 DEF PositionInv
      <3> QED
        BY <1>3, <2>1, <2>2, <3>1, SizesType
    <2>4. CASE ~NullWritten
      <3>1. cursor <= Cardinality(Taken)
        BY <1>1, <2>4 DEF PositionInv
      <3> QED
        BY <1>3, <2>1, <2>2, <3>1, SizesType
    <2> QED
      BY <2>1, <2>3, <2>4
  <1>9. ~lapped => block \in Taken /\ state[block] = "allocated" /\ ~InHand(block)
    BY <1>1, HandNotTaken DEF OwnerInv
  <1>10. Taken \subseteq Blocks
    BY DEF Taken
  <1>11. ~lapped => state'[block] = "freed"
    BY <1>1, <1>9, <1>10 DEF RingType
  <1>12. \A c \in Blocks : c # block => state'[c] = state[c]
    BY <1>1 DEF RingType
  <1>13. RingType'
    <2>1. cnt' \in 0 .. Cnt
      BY <1>1, <1>3, <1>8, SizesType
    <2>2. state' \in [Blocks -> {"none", "failed", "allocated", "freed", "freedTwice"}]
      BY <1>1 DEF RingType
    <2> QED
      BY <1>1, <1>2, <2>1, <2>2 DEF RingType
  <1>14. TurnInv'
    BY <1>1, <1>2 DEF TurnInv
  <1>15. PhaseInv'
    BY <1>1, <1>2 DEF PhaseInv
  <1>16. PositionInv'
    BY <1>1, <1>3, <1>4, <1>5, <1>6, <1>8 DEF PositionInv
  <1>17. OwnerInv'
    <2> SUFFICES ASSUME ~lapped'
                 PROVE  OwnerInv'
      BY Zenon DEF OwnerInv
    <2>1. ~lapped
      BY <1>1, Zenon
    <2>2. Freed' = Freed \cup {block} /\ block \notin Freed
      BY <1>9, <1>10, <1>11, <1>12, <2>1 DEF Freed
    <2>3. Cardinality(Freed') = Cardinality(Freed) + 1
      <3>1. IsFiniteSet(Freed)
        BY BlockSets DEF Freed
      <3> QED
        BY <2>2, <3>1, FS_AddElement
    <2>4. cnt' = Cardinality(Freed')
      BY <1>1, <2>1, <2>3 DEF OwnerInv
    <2>5. \A c \in Blocks : /\ state'[c] # "freedTwice"
                            /\ state'[c] = "none" <=> c \notin Taken /\ ~InHand(c)
                            /\ InHand(c) => state'[c] = "allocated"
      BY <1>9, <1>11, <1>12, <2>1 DEF OwnerInv
    <2> QED
      BY <1>1, <1>4, <2>4, <2>5 DEF OwnerInv
  <1>18. WindowInv'
    <2> SUFFICES ASSUME ~lapped', cursor' - pos' <= Capacity
                 PROVE  WindowInv'
      BY Zenon DEF WindowInv
    <2>1. ~lapped
      BY <1>1, Zenon
    <2>2. cursor - pos <= Capacity
      BY <1>1
    <2>3. /\ \A m \in Pending : slot[SlotOf(m)] = Null => NullWritten /\ m = cursor - 1
          /\ \A m, n \in Pending :
               slot[SlotOf(m)] = slot[SlotOf(n)] /\ slot[SlotOf(m)] # Null => m = n
      BY <2>1, <2>2 DEF WindowInv
    <2>4. \A m \in Pending : slot[SlotOf(m)] # Null =>
            slot[SlotOf(m)] \in Taken /\ state'[slot[SlotOf(m)]] = "allocated"
      <3>1. \A m \in Pending : slot[SlotOf(m)] # Null =>
              /\ slot[SlotOf(m)] \in Taken /\ slot[SlotOf(m)] # block
              /\ state[slot[SlotOf(m)]] = "allocated"
        BY <1>1, <2>1, <2>2 DEF WindowInv
      <3> QED
        BY <1>10, <1>12, <3>1
    <2>5. \A c \in Blocks : state'[c] = "allocated" =>
            InHand(c) \/ \E m \in Pending : slot[SlotOf(m)] = c
      <3>1. \A c \in Blocks : state[c] = "allocated" =>
              InHand(c) \/ block = c \/ \E m \in Pending : slot[SlotOf(m)] = c
        BY <2>1, <2>2 DEF WindowInv
      <3> QED
        BY <1>11, <1>12, <2>1, <3>1
    <2> QED
      BY <1>1, <1>4, <1>5, <1>6, <1>7, <2>3, <2>4, <2>5 DEF WindowInv
  <1> QED
    BY <1>13, <1>14, <1>15, <1>16, <1>17, <1>18

\* The allocator aborts only a consumer that was lapped.
LEMMA FreeAbortsKeeps ==
  ASSUME RingInd, FreeAborts
  PROVE  RingInd'
  <1> USE DEF RingInd
  <1>1. /\ cpc = "free" /\ state[block] # "allocated" /\ main' = "aborted"
        /\ UNCHANGED <<callVars, hc, call, ready, ppc, k, slot, cursor, cpc, pos, block, cnt, state, lapped>>
    BY DEF FreeAborts, callVars, producerVars, consumerVars
  <1>2. Producers' = Producers /\ \A q : Turns(q)' = Turns(q)
    BY <1>1, TurnsFixed
  <1>3. lapped
    BY <1>1 DEF OwnerInv
  <1>4. RingType'
    BY <1>1, <1>2 DEF RingType
  <1>5. TurnInv' /\ PhaseInv'
    BY <1>1, <1>2 DEF TurnInv, PhaseInv
  <1>6. PositionInv'
    BY <1>1 DEF PositionInv
  <1>7. OwnerInv' /\ WindowInv'
    <2>1. lapped'
      BY <1>1, <1>3, Zenon
    <2> QED
      BY <2>1, Zenon DEF OwnerInv, WindowInv
  <1> QED
    BY <1>4, <1>5, <1>6, <1>7

--------------------------------------------------------------------------------
(* The steps of the main thread.                                               *)

\* Joining a thread, and returning, leaves the ring alone.
LEMMA MainKeeps ==
  ASSUME RingInd, JoinProducers \/ JoinConsumer \/ Return
  PROVE  RingInd'
  <1> USE DEF RingInd
  <1>1. /\ \/ main = "join" /\ main' = "null" /\ \A p \in Producers : ppc[p] = "done"
           \/ main = "joinConsumer" /\ main' = "report" /\ cpc = "done"
           \/ main = "report" /\ main' = "done"
        /\ UNCHANGED <<callVars, hc, call, ready, ppc, k, slot, cursor, cpc, pos, block, cnt, state, lapped>>
    BY DEF JoinProducers, JoinConsumer, Return, callVars, producerVars, consumerVars
  <1>2. Producers' = Producers /\ \A q : Turns(q)' = Turns(q)
    BY <1>1, TurnsFixed
  <1>3. RingType'
    BY <1>1, <1>2 DEF RingType
  <1>4. TurnInv'
    BY <1>1, <1>2 DEF TurnInv
  <1>5. PhaseInv'
    BY <1>1, <1>2 DEF PhaseInv
  <1>6. (PositionInv /\ OwnerInv /\ WindowInv)'
    <2>1. Taken' = Taken /\ \A b : InHand(b)' <=> InHand(b)
      BY <1>1, HandsStay
    <2>2. (NullWritten' <=> NullWritten) /\ main # "aborted" /\ main' # "aborted"
      BY <1>1 DEF NullWritten
    <2> QED
      BY <1>1, <2>1, <2>2, RingStays
  <1> QED
    BY <1>3, <1>4, <1>5, <1>6

\* The null pointer is written when every producer is done, behind everything else.
LEMMA WriteNullKeeps ==
  ASSUME RingInd, WriteNull
  PROVE  RingInd'
  <1> USE DEF RingInd
  <1>1. /\ main = "null" /\ main' = "joinConsumer"
        /\ slot' = [slot EXCEPT ![SlotOf(cursor)] = Null]
        /\ cursor' = cursor + 1
        /\ UNCHANGED <<callVars, hc, call, ready, ppc, k, cpc, pos, block, cnt, state, lapped>>
    BY DEF WriteNull, Put, callVars, producerVars, consumerVars
  <1>2. Producers' = Producers /\ \A q : Turns(q)' = Turns(q)
    BY <1>1, TurnsFixed
  <1>3. Taken' = Taken /\ \A c : InHand(c)' <=> InHand(c)
    BY <1>1, HandsStay
  <1>4. ~NullWritten /\ NullWritten'
    BY <1>1 DEF NullWritten
  <1>5. Cardinality(Taken) \in Nat /\ Cardinality(Taken) <= Cnt
    BY BlockSets DEF Taken
  <1>6. cursor \in Nat /\ pos \in Nat /\ pos <= cursor /\ cursor <= Cardinality(Taken)
    BY <1>1, <1>4 DEF RingType, PositionInv
  <1>7. SlotOf(cursor) \in Slots /\ slot'[SlotOf(cursor)] = Null
    BY <1>1, <1>6, PositionHasSlot DEF RingType
  <1>8. \A m : SlotOf(m)' = SlotOf(m)
    BY DEF SlotOf
  <1>9. RingType'
    <2>1. cursor' \in 0 .. Cnt + 1
      BY <1>1, <1>5, <1>6, SizesType
    <2> QED
      BY <1>1, <1>2, <2>1 DEF RingType
  <1>10. TurnInv'
    BY <1>1, <1>2 DEF TurnInv
  <1>11. PhaseInv'
    BY <1>1, <1>2 DEF PhaseInv
  <1>12. PositionInv'
    <2>1. cursor' - 1 = cursor /\ pos' <= cursor' /\ pos' < cursor'
      BY <1>1, <1>6
    <2>2. (IF cpc \in {"free", "done"} THEN cnt + 1 ELSE cnt) <= pos
      BY <1>1 DEF PositionInv
    <2> QED
      BY <1>1, <1>3, <1>4, <1>6, <1>7, <1>8, <2>1, <2>2 DEF PositionInv
  <1>13. OwnerInv'
    <2>1. Freed' = Freed
      BY <1>1 DEF Freed
    <2> QED
      BY <1>1, <1>3, <1>4, <2>1 DEF OwnerInv
  <1>14. WindowInv'
    <2> SUFFICES ASSUME ~lapped', cursor' - pos' <= Capacity
                 PROVE  WindowInv'
      BY Zenon DEF WindowInv
    <2>0. ~lapped /\ cursor + 1 - pos <= Capacity
      <3>1. lapped' = lapped /\ cursor' = cursor + 1 /\ pos' = pos
        BY <1>1
      <3>2. ~lapped
        BY <3>1, Zenon
      <3> QED
        BY <1>6, <3>1, <3>2, SizesType
    <2>1. cursor - pos <= Capacity
      BY <1>6, <2>0, SizesType
    <2>2. ASSUME NEW m \in Pending
          PROVE  /\ slot'[SlotOf(m)] = slot[SlotOf(m)]
                 /\ slot[SlotOf(m)] # Null
      <3>1. m \in Nat /\ m < cursor /\ cursor - m < Capacity
        BY <1>6, <2>0, SizesType DEF Pending
      <3>2. SlotOf(m) \in Slots /\ SlotOf(m) # SlotOf(cursor)
        BY <1>6, <3>1, SlotsDiffer, PositionHasSlot
      <3>3. slot'[SlotOf(m)] = slot[SlotOf(m)]
        BY <1>1, <3>2 DEF RingType
      <3>4. slot[SlotOf(m)] # Null
        BY <1>4, <2>0, <2>1 DEF WindowInv
      <3> QED
        BY <3>3, <3>4
    <2>3. Pending' = Pending \cup {cursor} /\ cursor' - 1 = cursor
      BY <1>1, <1>6 DEF Pending
    <2>4. \A m \in Pending' : slot'[SlotOf(m)] = Null => m = cursor
      BY <2>2, <2>3
    <2>5. \A m \in Pending' : slot'[SlotOf(m)] # Null =>
            /\ slot'[SlotOf(m)] \in Taken
            /\ state[slot'[SlotOf(m)]] = "allocated"
            /\ cpc = "free" => slot'[SlotOf(m)] # block
      BY <1>7, <2>0, <2>1, <2>2, <2>3 DEF WindowInv
    <2>6. \A m, n \in Pending' :
            slot'[SlotOf(m)] = slot'[SlotOf(n)] /\ slot'[SlotOf(m)] # Null => m = n
      BY <1>7, <2>0, <2>1, <2>2, <2>3 DEF WindowInv
    <2>7. \A c \in Blocks : state[c] = "allocated" =>
            \/ InHand(c)
            \/ cpc = "free" /\ block = c
            \/ \E m \in Pending' : slot'[SlotOf(m)] = c
      BY <2>0, <2>1, <2>2, <2>3 DEF WindowInv
    <2> QED
      BY <1>1, <1>3, <1>4, <1>8, <2>3, <2>4, <2>5, <2>6, <2>7 DEF WindowInv
  <1> QED
    BY <1>9, <1>10, <1>11, <1>12, <1>13, <1>14

\* What every call of Benchmark_wr starts with.
FreshRing ==
  /\ hc \in Processors
  /\ call \in 1 .. 3
  /\ main = "join"
  /\ ready = 0
  /\ ppc = [p \in Producers |-> "wait"]
  /\ k = [p \in Producers |-> 0]
  /\ slot = [s \in Slots |-> Null]
  /\ cursor = 0
  /\ cpc = "start"
  /\ pos = 0
  /\ block = Null
  /\ cnt = 0
  /\ state = [b \in Blocks |-> "none"]
  /\ lapped = FALSE

\* A fresh ring satisfies the invariant.
LEMMA FreshIsInd == FreshRing => RingInd
  <1> SUFFICES ASSUME FreshRing
               PROVE  RingInd
    OBVIOUS
  <1> USE DEF FreshRing
  <1>1. RingType
    <2>1. 0 \in 0 .. Cnt /\ 0 \in 0 .. Cnt + 1
      BY SizesType
    <2>2. slot \in [Slots -> Blocks \cup {Null}] /\ block \in Blocks \cup {Null}
      OBVIOUS
    <2>3. state \in [Blocks -> {"none", "failed", "allocated", "freed", "freedTwice"}]
      OBVIOUS
    <2>4. ppc \in [Producers -> {"wait", "malloc", "write", "done"}]
      OBVIOUS
    <2>5. k \in [Producers -> 0 .. Cnt]
      BY <2>1
    <2> QED
      BY <2>1, <2>2, <2>3, <2>4, <2>5 DEF RingType
  <1>2. TurnInv
    BY DEF TurnInv
  <1>3. PhaseInv
    BY DEF PhaseInv
  <1>4. Taken = {} /\ \A c : ~InHand(c)
    <2>1. \A p \in Producers : 0 .. k[p] - 1 = {}
      OBVIOUS
    <2> QED
      BY <2>1 DEF Taken, InHand
  <1>5. Cardinality({}) = 0
    BY FS_EmptySet
  <1>6. ~NullWritten
    BY DEF NullWritten
  <1>7. PositionInv
    BY <1>4, <1>5, <1>6 DEF PositionInv
  <1>8. OwnerInv
    <2>1. Freed = {}
      BY DEF Freed
    <2> QED
      BY <1>4, <1>5, <2>1 DEF OwnerInv
  <1>9. WindowInv
    <2>1. Pending = {}
      BY DEF Pending
    <2> QED
      BY <2>1 DEF WindowInv
  <1> QED
    BY <1>1, <1>2, <1>3, <1>7, <1>8, <1>9 DEF RingInd

\* The first call starts fresh.
LEMMA RingInitInd ==
  ASSUME RingInit
  PROVE  RingInd
  BY FreshIsInd DEF RingInit, FreshRing

\* So does the next one.
LEMMA NextBenchmarkKeeps == RingInd /\ NextBenchmark => RingInd'
  <1>1. RingInd /\ NextBenchmark => FreshRing'
    BY DEF RingInd, RingType, NextBenchmark, FreshRing, Producers, ProducersOf
  <1>2. FreshRing' => RingInd'
    BY FreshIsInd, PTL
  <1> QED
    BY <1>1, <1>2

--------------------------------------------------------------------------------
(* The benchmark.                                                              *)

\* A step of the configuration leaves it alone.
LEMMA RingUntouched ==
  ASSUME RingInd, UNCHANGED ringVars
  PROVE  RingInd'
  <1> USE DEF RingInd
  <1>1. UNCHANGED <<callVars, hc, call, main, ready, ppc, k, slot, cursor, cpc, pos, block, cnt, state, lapped>>
    BY DEF ringVars, callVars
  <1>2. Producers' = Producers /\ \A q : Turns(q)' = Turns(q)
    BY <1>1, TurnsFixed
  <1>3. RingType'
    BY <1>1, <1>2 DEF RingType
  <1>4. TurnInv' /\ PhaseInv'
    BY <1>1, <1>2 DEF TurnInv, PhaseInv
  <1>5. (PositionInv /\ OwnerInv /\ WindowInv)'
    <2>1. Taken' = Taken /\ \A b : InHand(b)' <=> InHand(b)
      BY <1>1, HandsStay
    <2>2. NullWritten' <=> NullWritten
      BY <1>1 DEF NullWritten
    <2>3. main' # "aborted" \/ lapped
      BY <1>1 DEF OwnerInv
    <2> QED
      BY <1>1, <2>1, <2>2, <2>3, RingStays
  <1> QED
    BY <1>3, <1>4, <1>5

\* No step breaks the invariant.
LEMMA RingStep ==
  ASSUME RingInd, Next
  PROVE  RingInd'
  <1>1. CASE Ring
    BY <1>1, SeeReadyKeeps, MallocKeeps, MallocFailsKeeps, WriteKeeps, StartConsumerKeeps,
       ReadKeeps, FreeKeeps, FreeAbortsKeeps, MainKeeps, WriteNullKeeps, NextBenchmarkKeeps
       DEF Ring, Main, Producer, Consumer
  <1>2. CASE UNCHANGED ringVars
    BY <1>2, RingUntouched
  <1> QED
    BY <1>1, <1>2 DEF Next, Loading, Begin, StartFails, Runs, Exited, vars, ringVars

\* What the properties say follows.
LEMMA RingFollows ==
  ASSUME RingInd
  PROVE  FreeInv /\ ReportExactUnlessLapped
  <1> USE DEF RingInd
  <1>1. FreeInv
    BY DEF FreeInv, FreedOnceUnlessLapped, OwnerInv
  <1>2. ASSUME main = "report", ~lapped
        PROVE  /\ Producers # {} => \A b \in Blocks : state[b] \in {"freed", "failed"}
               /\ MessageLoss <=> \E b \in Blocks : state[b] # "freed"
    <2>1. \A p \in Producers : ppc[p] = "done" /\ k[p] = Turns(p)
      BY <1>2 DEF PhaseInv, TurnInv
    <2>2. \A b : ~InHand(b)
      BY <2>1 DEF InHand
    <2>3. Producers # {} => Blocks \subseteq Taken
      BY <2>1, TurnCovers DEF Taken
    <2>4. cpc = "done" /\ pos = cursor /\ cnt = Cardinality(Freed)
      BY <1>2 DEF PhaseInv, OwnerInv
    <2>5. Pending = {} /\ cursor - pos <= Capacity
      BY <2>4, SizesType DEF Pending, RingType
    <2>6. \A b \in Blocks : state[b] # "allocated"
      BY <1>2, <2>2, <2>4, <2>5 DEF WindowInv
    <2>7. \A b \in Blocks : state[b] # "freedTwice" /\ (state[b] = "none" => b \notin Taken)
      BY <1>2 DEF OwnerInv
    <2>8. Producers # {} => \A b \in Blocks : state[b] \in {"freed", "failed"}
      BY <2>3, <2>6, <2>7 DEF RingType
    <2>9. Freed = Blocks <=> cnt = Cnt
      BY <2>4, BlockSets DEF Freed
    <2>10. MessageLoss <=> \E b \in Blocks : state[b] # "freed"
      BY <2>9 DEF MessageLoss, Freed
    <2> QED
      BY <2>8, <2>10
  <1> QED
    BY <1>1, <1>2 DEF ReportExactUnlessLapped

\* A block of c_malloc_free is freed by nobody but the consumer that has it in its
\* hands, and once, unless the ring has overtaken the consumer; for every number of
\* processors, loops and blocks, and every size of the ring.
THEOREM FreedOnce == Spec => []FreeInv
  <1>1. Init => RingInd
    BY RingInitInd DEF Init
  <1>2. RingInd /\ [Next]_vars => RingInd'
    <2>1. RingInd /\ UNCHANGED vars => RingInd'
      BY RingUntouched DEF vars
    <2> QED
      BY <2>1, RingStep
  <1> QED
    BY <1>1, <1>2, RingFollows, PTL DEF Spec

\* Then its report is right too: all that was allocated was freed, and a loss is
\* reported exactly when a block was left out.
THEOREM ReportExact == Spec => []ReportExactUnlessLapped
  <1>1. Init => RingInd
    BY RingInitInd DEF Init
  <1>2. RingInd /\ [Next]_vars => RingInd'
    <2>1. RingInd /\ UNCHANGED vars => RingInd'
      BY RingUntouched DEF vars
    <2> QED
      BY <2>1, RingStep
  <1> QED
    BY <1>1, <1>2, RingFollows, PTL DEF Spec

================================================================================
