-------------------------- MODULE DisruptorTrans_proof --------------------------
(*******************************************************************************)
(* Proofs about DisruptorTrans for every number of producers, messages and     *)
(* handlers, but at least one handler, and every capacity: without a handler   *)
(* nothing holds producers back, and they overwrite one another.               *)
(*                                                                             *)
(* The argument: a sequence in the hands of a producer is ahead of every       *)
(* handler, and no handler is more than the ring behind what is claimed.  So   *)
(* what is in hand and what is still to be read lies within Capacity           *)
(* sequences, which have different slots.                                      *)
(*******************************************************************************)
EXTENDS DisruptorTrans, Cells, FiniteSetTheorems

USE ConfigAssumption, RingAssumption

--------------------------------------------------------------------------------
(* Message ids: producer p owns p * Count .. p * Count + Count - 1.            *)

\* How many messages a producer writes, and how many there are, is a number.
LEMMA CountType == Count \in Nat /\ RecordCount \in Nat
  BY DEF Count, RecordCount

\* The ids are the pairs of a producer and an index below Count.
LEMMA IdOfType ==
  ASSUME NEW p \in Producers, NEW k \in 0 .. Count - 1
  PROVE  IdOf(p, k) \in Ids
  <1>1. p * Count + k < NumProducer * Count
    BY CellBound, CountType DEF Producers
  <1> QED
    BY <1>1, CountType DEF IdOf, Ids, RecordCount, Producers

\* An id has one producer and one index.
LEMMA IdOfUnique ==
  ASSUME NEW p \in Producers, NEW q \in Producers,
         NEW k \in 0 .. Count - 1, NEW l \in 0 .. Count - 1,
         IdOf(p, k) = IdOf(q, l)
  PROVE  p = q /\ k = l
  BY CellUnique, CountType DEF IdOf, Producers

\* Every id has them.
LEMMA IdOfCovers ==
  ASSUME NEW id \in Ids
  PROVE  \E p \in Producers, k \in 0 .. Count - 1 : id = IdOf(p, k)
  <1>1. id \in Nat /\ id < NumProducer * Count
    BY CountType DEF Ids, RecordCount
  <1>2. \E p \in 0 .. NumProducer - 1, k \in 0 .. Count - 1 : id = p * Count + k
    BY ONLY <1>1, CellExists, CountType, NumProducer \in Nat, Zenon
  <1> QED
    BY <1>2 DEF IdOf, Producers

\* The message a producer works on is the next of its slice.
LEMMA CurrentMessage ==
  ASSUME HarnessTypeOK, LoopInv, NEW p \in Producers, Sending(p)
  PROVE  /\ Finished(p) \in 0 .. Count - 1
         /\ MsgId(p) = IdOf(p, Finished(p))
         /\ MsgId(p) \in Ids
  <1>1. round[p] \in Nat /\ i[p] \in Nat /\ round[p] < TotalRounds /\ i[p] < RecordPerRound
    BY DEF HarnessTypeOK, LoopInv
  <1>2. Finished(p) \in 0 .. Count - 1
    <2>1. round[p] * RecordPerRound + i[p] < TotalRounds * RecordPerRound
      BY <1>1, CellBound, TotalRounds \in Nat, RecordPerRound \in Nat, Zenon
    <2> QED
      BY <1>1, <2>1 DEF Finished, Count
  <1>3. MsgId(p) = IdOf(p, Finished(p))
    <2>1. round[p] * RecordPerRound \in Nat /\ p * Count \in Nat
      BY <1>1, CountType DEF Producers
    <2> QED
      BY <1>1, <2>1 DEF MsgId, IdOf, Finished
  <1> QED
    BY <1>2, <1>3, IdOfType

\* A turn of NextMsg moves to the next message of the producer.
LEMMA LoopTurn ==
  ASSUME HarnessTypeOK, LoopInv, NEW p \in Producers, ppc[p] = "end", NextMsg(p)
  PROVE  /\ i' \in [Producers -> 0 .. RecordPerRound]
         /\ round' \in [Producers -> 0 .. TotalRounds]
         /\ ppc' \in [Producers -> {"unborn", "begin", "write", "end", "done"}]
         /\ Finished(p)' = Finished(p) + 1
         /\ ppc'[p] = "begin" => round'[p] < TotalRounds /\ i'[p] < RecordPerRound
         /\ ppc'[p] = "done" => Finished(p)' = Count
         /\ ppc'[p] \in {"begin", "done"}
         /\ \A q \in Producers \ {p} : ppc'[q] = ppc[q] /\ round'[q] = round[q] /\ i'[q] = i[q]
  <1> USE DEF HarnessTypeOK
  <1>1. round[p] \in Nat /\ i[p] \in Nat /\ round[p] < TotalRounds /\ i[p] < RecordPerRound
    BY DEF LoopInv, Sending
  <1>2. CASE i[p] + 1 = RecordPerRound
    <2>1. i'[p] = 0 /\ round'[p] = round[p] + 1
      BY <1>2 DEF NextMsg
    <2>2. Finished(p)' = Finished(p) + 1
      BY <1>1, <1>2, <2>1 DEF Finished
    <2>3. ppc'[p] = IF round[p] + 1 = TotalRounds THEN "done" ELSE "begin"
      BY <1>2 DEF NextMsg
    <2>4. round[p] + 1 = TotalRounds => Finished(p)' = Count
      BY <1>1, <2>1 DEF Finished, Count
    <2> QED
      BY <1>1, <1>2, <2>1, <2>2, <2>3, <2>4 DEF NextMsg
  <1>3. CASE i[p] + 1 # RecordPerRound
    <2>1. i'[p] = i[p] + 1 /\ round'[p] = round[p] /\ ppc'[p] = "begin"
      BY <1>3 DEF NextMsg
    <2>2. Finished(p)' = Finished(p) + 1
      BY <1>1, <2>1 DEF Finished
    <2> QED
      BY <1>1, <1>3, <2>1, <2>2 DEF NextMsg
  <1> QED
    BY <1>2, <1>3

--------------------------------------------------------------------------------
(* The window of the last Capacity sequences.                                  *)

\* Every sequence has a slot.
LEMMA SlotType ==
  ASSUME NEW s \in Nat
  PROVE  SlotOf(s) \in Slots
  BY DEF SlotOf, Slots

\* Within the window sequences have different slots.
LEMMA WindowDistinct ==
  ASSUME NEW c \in Nat, NEW s \in Nat, NEW t \in Nat, s < c, t < c,
         c <= s + Capacity, c <= t + Capacity, SlotOf(s) = SlotOf(t)
  PROVE  s = t
  <1>1. s % Capacity = t % Capacity
    BY DEF SlotOf
  <1>2. t - s < Capacity /\ s - t < Capacity
    OBVIOUS
  <1>3. CASE s <= t
    BY ONLY <1>1, <1>2, <1>3, RemainderUnique, s \in Nat, t \in Nat, Capacity \in Nat \ {0}, Zenon
  <1>4. CASE t <= s
    <2>1. t = s
      BY ONLY <1>1, <1>2, <1>4, RemainderUnique, s \in Nat, t \in Nat, Capacity \in Nat \ {0}, Zenon
    <2> QED
      BY <2>1
  <1> QED
    BY <1>3, <1>4

\* What a handler has not passed is in the window.
LEMMA AheadInWindow ==
  ASSUME TypeOK, GateHolds, NEW r \in Readers, NEW s \in Nat, pos[r] <= s
  PROVE  claimed <= s + Capacity
  <1>1. passed[r] < pos[r] /\ claimed - Capacity <= passed[r] + 1
    BY DEF GateHolds
  <1>2. passed[r] \in Int /\ pos[r] \in Nat /\ claimed \in Nat
    BY CountType DEF TypeOK, Ids, NoSeq
  <1> QED
    BY <1>1, <1>2

\* So is what a producer has in its hands.
LEMMA InHandInWindow ==
  ASSUME NumReader > 0, TypeOK, WriteInv, ReaderInv, GateHolds,
         NEW p \in Producers, InHand(p)
  PROVE  seq[p] \in Nat /\ seq[p] \in Ids /\ seq[p] < claimed /\ claimed <= seq[p] + Capacity
  <1>1. 0 \in Readers
    BY DEF Readers
  <1>2. claimed \in 0 .. RecordCount /\ seq[p] \in 0 .. claimed - 1
    BY DEF TypeOK, WriteInv
  <1>3. pos[0] <= seq[p]
    BY <1>1 DEF ReaderInv
  <1> QED
    BY <1>1, <1>2, <1>3, AheadInWindow, CountType DEF Ids

--------------------------------------------------------------------------------
(* The sequences that are claimed are as many as the messages that were begun. *)

\* Before a producer claims, there is a message left, its own.
LEMMA Claimable ==
  ASSUME TypeOK, LoopInv, WriteInv, SentInv,
         NEW p \in Producers, ppc[p] = "write", wpc[p] = "next"
  PROVE  claimed < RecordCount
  <1> DEFINE S == 0 .. claimed - 1
             own == MsgId(p)
             T == Ids \ {own}
             Setter(s) == CHOOSE q \in Producers : wpc[q] = "set" /\ seq[q] = s
             f == [s \in S |-> IF sent[s] # NoSeq THEN sent[s] ELSE MsgId(Setter(s))]
  <1>1. claimed \in Nat /\ claimed <= RecordCount /\ RecordCount \in Nat /\ S \subseteq Ids
    BY CountType DEF TypeOK, Ids
  <1>2. own \in Ids /\ own = IdOf(p, Finished(p)) /\ Finished(p) \in 0 .. Count - 1
    BY CurrentMessage DEF TypeOK, Sending
  <1>3. \A s \in Ids : sent[s] # own
    <2>1. ~(Finished(p) < SentTo(p))
      BY <1>2 DEF SentTo
    <2> QED
      BY <1>2, <2>1 DEF SentInv
  <1>4. ASSUME NEW s \in S, sent[s] = NoSeq
        PROVE  /\ Setter(s) \in Producers /\ wpc[Setter(s)] = "set" /\ seq[Setter(s)] = s
               /\ Setter(s) # p
               /\ Finished(Setter(s)) \in 0 .. Count - 1
               /\ MsgId(Setter(s)) \in Ids
               /\ MsgId(Setter(s)) = IdOf(Setter(s), Finished(Setter(s)))
               /\ \A t \in Ids : sent[t] # MsgId(Setter(s))
    <2>1. \E q \in Producers : wpc[q] = "set" /\ seq[q] = s
      BY <1>1, <1>4 DEF SentInv
    <2>2. Setter(s) \in Producers /\ wpc[Setter(s)] = "set" /\ seq[Setter(s)] = s
      BY <2>1
    <2> HIDE DEF Setter
    <2>3. PICK q \in Producers : q = Setter(s)
      BY <2>2
    <2>4. ppc[q] = "write" /\ wpc[q] = "set"
      BY <2>2, <2>3 DEF WriteInv, InHand
    <2>5. Finished(q) \in 0 .. Count - 1 /\ MsgId(q) \in Ids /\ MsgId(q) = IdOf(q, Finished(q))
      BY <2>4, CurrentMessage DEF TypeOK, Sending
    <2>6. \A t \in Ids : sent[t] # MsgId(q)
      <3>1. ~(Finished(q) < SentTo(q))
        BY <2>4, <2>5 DEF SentTo
      <3> QED
        BY <2>5, <3>1 DEF SentInv
    <2> QED
      BY <2>2, <2>3, <2>4, <2>5, <2>6
  <1> HIDE DEF Setter
  <1>5. ASSUME NEW s \in S
        PROVE  f[s] \in T
    <2>1. CASE sent[s] # NoSeq
      BY <1>1, <1>3, <2>1 DEF TypeOK
    <2>2. CASE sent[s] = NoSeq
      <3>1. PICK q \in Producers : q = Setter(s)
        BY <1>4, <2>2
      <3>2. MsgId(q) # own
        BY <1>2, <1>4, <2>2, <3>1, IdOfUnique
      <3> QED
        BY <1>4, <2>2, <3>1, <3>2
    <2> QED
      BY <2>1, <2>2
  <1>6. ASSUME NEW s \in S, NEW t \in S, f[s] = f[t]
        PROVE  s = t
    <2>1. CASE sent[s] # NoSeq /\ sent[t] # NoSeq
      BY <1>1, <1>6, <2>1 DEF SentInv
    <2>2. CASE sent[s] = NoSeq /\ sent[t] = NoSeq
      <3>1. PICK q \in Producers, u \in Producers : q = Setter(s) /\ u = Setter(t)
        BY <1>4, <2>2
      <3>2. MsgId(q) = MsgId(u)
        BY <1>6, <2>2, <3>1
      <3>3. q = u
        BY <1>4, <2>2, <3>1, <3>2, IdOfUnique
      <3>4. seq[q] = s /\ seq[u] = t
        BY <1>4, <2>2, <3>1, Zenon
      <3> QED
        BY <3>3, <3>4
    <2>3. CASE sent[s] = NoSeq /\ sent[t] # NoSeq
      BY <1>1, <1>4, <1>6, <2>3
    <2>4. CASE sent[s] # NoSeq /\ sent[t] = NoSeq
      BY <1>1, <1>4, <1>6, <2>4
    <2> QED
      BY <2>1, <2>2, <2>3, <2>4
  <1>7. f \in [S -> T]
    BY <1>5
  <1> HIDE DEF f
  <1>8. IsFiniteSet(S) /\ Cardinality(S) = claimed
    <2>1. 0 \in Int /\ claimed - 1 \in Int
      BY <1>1
    <2> QED
      BY <1>1, <2>1, FS_Interval
  <1>9. IsFiniteSet(Ids) /\ Cardinality(Ids) = RecordCount
    BY <1>1, FS_Interval DEF Ids
  <1>10. IsFiniteSet(T) /\ Cardinality(T) = RecordCount - 1
    BY <1>2, <1>9, FS_RemoveElement
  <1> HIDE DEF S, T
  <1>11. ~(Cardinality(T) < Cardinality(S))
    BY <1>6, <1>7, <1>8, <1>10, FS_PigeonHole
  <1> QED
    BY <1>1, <1>8, <1>10, <1>11

\* When the producers are done every sequence is claimed.
LEMMA AllClaimed ==
  ASSUME TypeOK, LoopInv, SentInv, ProducersDone
  PROVE  claimed = RecordCount
  <1> DEFINE S == 0 .. claimed - 1
             g == [id \in Ids |-> CHOOSE s \in Ids : sent[s] = id]
  <1>1. claimed \in Nat /\ claimed <= RecordCount /\ RecordCount \in Nat
    BY CountType DEF TypeOK
  <1>2. ASSUME NEW id \in Ids
        PROVE  g[id] \in S /\ sent[g[id]] = id
    <2>1. PICK p \in Producers, k \in 0 .. Count - 1 : id = IdOf(p, k)
      BY IdOfCovers
    <2>2. ppc[p] = "done" /\ Finished(p) = Count
      BY DEF ProducersDone, LoopInv
    <2>3. k < SentTo(p)
      BY <2>2, CountType DEF SentTo
    <2>4. \E s \in Ids : sent[s] = id
      BY <2>1, <2>3 DEF SentInv
    <2>5. g[id] \in Ids /\ sent[g[id]] = id
      BY <2>4
    <2> HIDE DEF g
    <2>6. id # NoSeq
      BY <1>1 DEF Ids, NoSeq
    <2>7. g[id] < claimed
      BY <2>5, <2>6 DEF SentInv
    <2> QED
      BY <1>1, <2>5, <2>7 DEF Ids
  <1>3. g \in [Ids -> S]
    BY <1>2
  <1> HIDE DEF g
  <1>4. IsFiniteSet(S) /\ Cardinality(S) = claimed
    BY <1>1, FS_Interval
  <1>5. IsFiniteSet(Ids) /\ Cardinality(Ids) = RecordCount
    BY <1>1, FS_Interval DEF Ids
  <1> HIDE DEF S
  <1>6. ~(Cardinality(S) < Cardinality(Ids))
    BY <1>2, <1>3, <1>4, <1>5, FS_PigeonHole
  <1> QED
    BY <1>1, <1>4, <1>5, <1>6

--------------------------------------------------------------------------------
(* What follows from the inductive invariant.                                  *)

\* The ring as the producers and the handlers share it is as the runs check it.
LEMMA RingFollows ==
  ASSUME NumReader > 0, IndInv
  PROVE  RingInv
  <1> USE DEF IndInv
  <1>1. SlotsDistinct
    <2> SUFFICES ASSUME NEW p \in Producers, NEW q \in Producers, InHand(p), InHand(q),
                        SlotOf(seq[p]) = SlotOf(seq[q])
                 PROVE  p = q
      BY DEF SlotsDistinct, InHand
    <2>1. claimed \in Nat
      BY DEF TypeOK
    <2>2. seq[p] = seq[q]
      BY <2>1, InHandInWindow, WindowDistinct
    <2> QED
      BY <2>2 DEF WriteInv
  <1>2. GapsClosed
    <2> SUFFICES ASSUME ProducersDone, NEW r \in Readers, pos[r] < RecordCount
                 PROVE  Available(pos[r])
      BY DEF GapsClosed
    <2>1. pos[r] \in Nat /\ pos[r] \in Ids /\ pos[r] < claimed
      BY AllClaimed, CountType DEF TypeOK, Ids
    <2>2. claimed <= pos[r] + Capacity
      BY <2>1, AheadInWindow
    <2>3. \A p \in Producers : ~InHand(p)
      BY DEF ProducersDone, WriteInv
    <2> QED
      BY <2>1, <2>2, <2>3 DEF SlotInv
  <1>3. ReadAfterBegin
    BY DEF ReadAfterBegin, StampInv, Precedes
  <1> QED
    BY <1>1, <1>2, <1>3 DEF RingInv

--------------------------------------------------------------------------------
(* What the steps have in common.                                              *)

\* The message a producer is about to write was not sent, and it has a number
\* that no other producer sends.
LEMMA NotSentYet ==
  ASSUME TypeOK, LoopInv, WriteInv, SentInv, NEW p \in Producers,
         ppc[p] = "begin" \/ wpc[p] = "set"
  PROVE  /\ MsgId(p) \in Ids /\ MsgId(p) # NoSeq
         /\ MsgId(p) = IdOf(p, Finished(p))
         /\ Finished(p) \in 0 .. Count - 1
         /\ SentTo(p) = Finished(p)
         /\ \A s \in Ids : sent[s] # MsgId(p)
  <1>1. ppc[p] \in {"begin", "write"} /\ wpc[p] # "publish"
    BY DEF WriteInv, InHand
  <1>2. MsgId(p) \in Ids /\ MsgId(p) = IdOf(p, Finished(p)) /\ Finished(p) \in 0 .. Count - 1
    BY <1>1, CurrentMessage DEF TypeOK, Sending
  <1>3. SentTo(p) = Finished(p)
    BY <1>1 DEF SentTo
  <1>4. \A s \in Ids : sent[s] # MsgId(p)
    BY <1>2, <1>3 DEF SentInv
  <1>5. MsgId(p) # NoSeq
    BY <1>2, CountType DEF Ids, NoSeq
  <1> QED
    BY <1>2, <1>3, <1>4, <1>5

\* A handler that works on an event has a sequence that was sent.
LEMMA EventSent ==
  ASSUME TypeOK, ReaderInv, EventIntact, NEW r \in Readers, rpc[r] \in {"event", "store"}
  PROVE  /\ pos[r] \in Ids /\ pos[r] <= last[r] /\ last[r] \in Ids /\ last[r] < claimed
         /\ sent[pos[r]] \in Ids
         /\ ring[SlotOf(pos[r])] = sent[pos[r]]
  <1>1. pos[r] <= last[r] /\ last[r] < claimed
    BY DEF ReaderInv
  <1>2. pos[r] \in Nat /\ claimed \in Nat /\ claimed <= RecordCount /\ last[r] \in Ids \cup {NoSeq}
    BY CountType DEF TypeOK
  <1>3. last[r] \in Ids /\ pos[r] \in Ids
    BY <1>1, <1>2, CountType DEF Ids, NoSeq
  <1>4. pos[r] \in pos[r] .. last[r]
    BY <1>1, <1>2, <1>3, CountType DEF Ids
  <1>5. sent[pos[r]] # NoSeq /\ ring[SlotOf(pos[r])] = sent[pos[r]]
    BY <1>4 DEF EventIntact
  <1> QED
    BY <1>1, <1>3, <1>5 DEF TypeOK

\* Steps that leave the ring and the handlers alone, and what was sent.
LEMMA RingFrame ==
  ASSUME IndInv, UNCHANGED <<writeVars, readerVars>>,
         \A p \in Producers : InHand(p) => ppc'[p] = ppc[p] /\ MsgId(p)' = MsgId(p),
         \A p \in Producers : SentTo(p)' = SentTo(p)
  PROVE  (WriteInv /\ SentInv /\ SlotInv /\ ReaderInv /\ GateHolds /\ EventIntact)'
  <1> USE DEF IndInv, writeVars, readerVars
  <1>1. WriteInv'
    BY DEF WriteInv, InHand
  <1>2. SentInv'
    BY DEF SentInv, IdOf
  <1>3. SlotInv'
    BY DEF SlotInv, InHand, Available, SlotOf
  <1>4. ReaderInv'
    BY DEF ReaderInv, InHand
  <1>5. GateHolds' /\ EventIntact'
    BY DEF GateHolds, EventIntact, SlotOf
  <1> QED
    BY <1>1, <1>2, <1>3, <1>4, <1>5

\* What precedes stays so while the clock goes on and no handler takes a stamp.
LEMMA PrecedesKept ==
  ASSUME NEW b, NEW id \in Ids, Precedes(b, id), b \in Nat,
         stamps[id] \in Nat, stamps'[id] \in Nat, stamps[id] <= stamps'[id],
         records'["read"][id] = records["read"][id],
         \A r \in Readers : rpc'[r] = "store" =>
           /\ rpc[r] = "store" /\ rstamp'[r] = rstamp[r]
           /\ sent[pos[r]]' = id => sent[pos[r]] = id
  PROVE  Precedes(b, id)'
  BY DEF Precedes, Recorded

\* Steps in which no handler takes a stamp and no message is begun.
LEMMA StampFrame ==
  ASSUME IndInv,
         \A id \in Ids : stamps'[id] \in Nat /\ stamps[id] <= stamps'[id],
         \A id \in Ids : records'["read"][id] = records["read"][id],
         \A r \in Readers : rpc'[r] = "store" =>
           /\ rpc[r] = "store" /\ rstamp'[r] = rstamp[r]
           /\ sent[pos[r]]' = sent[pos[r]],
         \A s \in Ids : sent[s] # NoSeq => sent'[s] = sent[s],
         \A p \in Producers : ppc'[p] \in {"write", "end"} =>
           ppc[p] \in {"write", "end"} /\ beg'[p] = beg[p] /\ MsgId(p)' = MsgId(p),
         \A id \in Ids : records'["write_begin"][id] = records["write_begin"][id]
           \/ \E p \in Producers : /\ ppc[p] = "end" /\ id = MsgId(p)
                                   /\ records'["write_begin"][id] = beg[p]
  PROVE  StampInv'
  <1> USE DEF IndInv
  <1>1. ASSUME NEW b \in Nat, NEW id \in Ids, Precedes(b, id)
        PROVE  Precedes(b, id)'
    <2>1. stamps[id] \in Nat
      BY DEF TypeOK, HarnessTypeOK
    <2> QED
      BY <1>1, <2>1, PrecedesKept
  <1>2. ASSUME NEW p \in Producers, ppc[p] \in {"write", "end"}, NEW b, b = beg[p],
               NEW id, id = MsgId(p)
        PROVE  b \in Nat /\ id \in Ids /\ Precedes(b, id)'
    <2>1. b \in Nat /\ id \in Ids /\ Precedes(b, id)
      BY <1>2, CurrentMessage DEF StampInv, Sending, TypeOK, HarnessTypeOK
    <2> QED
      BY <1>1, <2>1
  <1>3. \A p \in Producers : ppc'[p] \in {"write", "end"} => Precedes(beg[p], MsgId(p))'
    BY <1>2
  <1>4. ASSUME NEW id \in Ids, Recorded("write_begin", id)', NEW b, b = records'["write_begin"][id]
        PROVE  Precedes(b, id)'
    <2>1. CASE records'["write_begin"][id] = records["write_begin"][id]
      <3>1. Recorded("write_begin", id) /\ b = records["write_begin"][id] /\ b \in Nat
        BY <1>4, <2>1 DEF Recorded, TypeOK, HarnessTypeOK, Actions
      <3> QED
        BY <1>1, <3>1 DEF StampInv
    <2>2. CASE \E p \in Producers : /\ ppc[p] = "end" /\ id = MsgId(p)
                                    /\ records'["write_begin"][id] = beg[p]
      BY <1>2, <1>4, <2>2
    <2> QED
      BY <2>1, <2>2
  <1>5. \A id \in Ids : Recorded("write_begin", id)' => Precedes(records["write_begin"][id], id)'
    BY <1>4
  <1>6. \A id \in Ids : Recorded("read", id)' => \E s \in Ids : sent'[s] = id
    BY CountType DEF StampInv, Recorded, Ids, NoSeq
  <1> QED
    BY <1>3, <1>5, <1>6 DEF StampInv

--------------------------------------------------------------------------------
(* The initial states.                                                         *)

\* The invariant holds at the start.
LEMMA IndInit == Init => IndInv
  <1> SUFFICES ASSUME Init PROVE IndInv
    OBVIOUS
  <1> USE DEF Init, HarnessInit
  <1>1. TypeOK
    BY CountType DEF TypeOK, HarnessTypeOK
  <1>2. LoopInv /\ StartInv
    BY DEF LoopInv, StartInv, Sending
  <1>3. WriteInv
    BY DEF WriteInv, InHand
  <1>4. SentInv
    <2>1. \A p \in Producers : SentTo(p) = 0
      BY DEF SentTo, Finished
    <2>2. \A p \in Producers, k \in 0 .. Count - 1 : IdOf(p, k) \in Ids
      BY IdOfType
    <2> QED
      BY <2>1, <2>2, CountType DEF SentInv, Ids, NoSeq
  <1>5. SlotInv
    BY CountType DEF SlotInv, Ids, NoSeq
  <1>6. ReaderInv
    BY DEF ReaderInv, NoSeq, InHand
  <1>7. GateHolds /\ EventIntact
    BY DEF GateHolds, EventIntact, NoSeq
  <1>8. StampInv
    BY DEF StampInv, Recorded, Actions
  <1> QED
    BY <1>1, <1>2, <1>3, <1>4, <1>5, <1>6, <1>7, <1>8 DEF IndInv

--------------------------------------------------------------------------------
(* The steps of a producer.                                                    *)

\* The producer's stamp is before everything that happens to its message later.
LEMMA BeginWriteStep ==
  ASSUME IndInv, NEW p \in Producers, BeginWrite(p)
  PROVE  IndInv'
  <1> USE DEF IndInv
  <1>1. /\ ppc[p] = "begin" /\ wpc[p] = "next"
        /\ MsgId(p) \in Ids
        /\ \A s \in Ids : sent[s] # MsgId(p)
    BY NotSentYet DEF BeginWrite, StampBegin, WriteInv, InHand
  <1>2. /\ ppc' = [ppc EXCEPT ![p] = "write"]
        /\ beg' = [beg EXCEPT ![p] = stamps[MsgId(p)]]
        /\ stamps' = [stamps EXCEPT ![MsgId(p)] = @ + 1]
        /\ UNCHANGED <<main, n, round, i, records, writeVars, readerVars>>
    BY DEF BeginWrite, StampBegin, loopVars
  <1>3. TypeOK'
    BY <1>1, <1>2 DEF TypeOK, HarnessTypeOK, writeVars, readerVars
  <1>4. LoopInv' /\ StartInv'
    <2>1. LoopInv'
      BY <1>1, <1>2 DEF LoopInv, Sending, Finished, TypeOK, HarnessTypeOK
    <2>2. StartInv'
      BY <1>1, <1>2 DEF StartInv, TypeOK, HarnessTypeOK
    <2> QED
      BY <2>1, <2>2
  <1>5. \A q \in Producers : MsgId(q)' = MsgId(q) /\ Finished(q)' = Finished(q)
    BY <1>2 DEF MsgId, Finished
  <1>6. \A q \in Producers : SentTo(q)' = SentTo(q)
    BY <1>1, <1>2, <1>5 DEF SentTo, TypeOK, HarnessTypeOK, writeVars
  <1>7. (WriteInv /\ SentInv /\ SlotInv /\ ReaderInv /\ GateHolds /\ EventIntact)'
    <2>1. \A q \in Producers : InHand(q) => ppc'[q] = ppc[q] /\ MsgId(q)' = MsgId(q)
      BY <1>1, <1>2, <1>5 DEF InHand, TypeOK, HarnessTypeOK
    <2> QED
      BY <1>2, <1>6, <2>1, RingFrame
  <1>8. StampInv'
    <2>1. /\ stamps[MsgId(p)] \in Nat
          /\ \A id \in Ids : stamps[id] \in Nat /\ stamps'[id] \in Nat /\ stamps[id] <= stamps'[id]
          /\ stamps'[MsgId(p)] = stamps[MsgId(p)] + 1
      BY <1>1, <1>2 DEF TypeOK, HarnessTypeOK
    <2>2. ASSUME NEW b \in Nat, NEW id \in Ids, Precedes(b, id)
          PROVE  Precedes(b, id)'
      BY <1>2, <2>1, <2>2, PrecedesKept DEF writeVars, readerVars
    <2>3. ASSUME NEW q \in Producers, ppc'[q] \in {"write", "end"}, NEW b, b = beg'[q],
                 NEW id, id = MsgId(q)
          PROVE  Precedes(b, id)'
      <3>1. CASE q = p
        <4>1. b = stamps[id] /\ b \in Nat /\ id \in Ids
          BY <1>1, <1>2, <2>1, <2>3, <3>1 DEF TypeOK, HarnessTypeOK
        <4>2. ~Recorded("read", id)
          BY <1>1, <2>3, <3>1, <4>1 DEF StampInv
        <4>3. \A r \in Readers : rpc[r] = "store" => sent[pos[r]] # id
          BY <1>1, <2>3, <3>1, EventSent
        <4> QED
          BY <1>2, <2>1, <2>3, <3>1, <4>1, <4>2, <4>3 DEF Precedes, Recorded, writeVars, readerVars
      <3>2. CASE q # p
        <4>1. ppc[q] \in {"write", "end"} /\ b = beg[q] /\ b \in Nat
          BY <1>2, <2>3, <3>2 DEF TypeOK, HarnessTypeOK
        <4>2. id \in Ids /\ Precedes(b, id)
          BY <2>3, <4>1, CurrentMessage DEF StampInv, Sending, TypeOK
        <4> QED
          BY <2>2, <4>1, <4>2
      <3> QED
        BY <3>1, <3>2
    <2>4. ASSUME NEW id \in Ids, Recorded("write_begin", id)', NEW b, b = records'["write_begin"][id]
          PROVE  Precedes(b, id)'
      <3>1. Recorded("write_begin", id) /\ b = records["write_begin"][id] /\ b \in Nat
        BY <1>2, <2>4 DEF Recorded, TypeOK, HarnessTypeOK, Actions
      <3> QED
        BY <2>2, <3>1 DEF StampInv
    <2>5. \A id \in Ids : Recorded("read", id)' => \E s \in Ids : sent'[s] = id
      BY <1>2 DEF StampInv, Recorded, writeVars
    <2>6. \A q \in Producers : ppc'[q] \in {"write", "end"} => Precedes(beg[q], MsgId(q))'
      BY <1>5, <2>3
    <2>7. \A id \in Ids : Recorded("write_begin", id)' => Precedes(records["write_begin"][id], id)'
      BY <2>4
    <2> QED
      BY <2>5, <2>6, <2>7 DEF StampInv
  <1> QED
    BY <1>3, <1>4, <1>7, <1>8

\* A claimed sequence is new, and within the ring for every handler.
LEMMA ClaimStep ==
  ASSUME IndInv, NEW p \in Producers, Claim(p)
  PROVE  IndInv'
  <1> USE DEF IndInv
  <1>1. /\ ppc[p] = "write" /\ wpc[p] = "next" /\ HasRoom(claimed)
        /\ seq' = [seq EXCEPT ![p] = claimed]
        /\ claimed' = claimed + 1
        /\ wpc' = [wpc EXCEPT ![p] = "set"]
        /\ UNCHANGED <<harnessVars, ring, avail, sent, readerVars>>
    BY DEF Claim
  <1> USE DEF harnessVars, readerVars
  <1>2. claimed \in Nat /\ claimed \in Ids /\ claimed < RecordCount
    BY <1>1, Claimable, CountType DEF TypeOK, Ids
  <1>3. /\ seq'[p] = claimed /\ wpc'[p] = "set"
        /\ \A q \in Producers \ {p} : seq'[q] = seq[q] /\ wpc'[q] = wpc[q]
    BY <1>1 DEF TypeOK
  <1>4. TypeOK'
    BY <1>1, <1>2, CountType DEF TypeOK, HarnessTypeOK
  <1>5. LoopInv' /\ StartInv'
    BY <1>1 DEF LoopInv, StartInv, Sending, Finished
  <1>6. sent[claimed] = NoSeq
    BY <1>2 DEF SentInv
  <1>7. \A q \in Producers : InHand(q) => seq[q] \in Nat /\ seq[q] < claimed
    BY <1>2 DEF WriteInv
  <1>8. WriteInv'
    <2>1. \A q \in Producers : InHand(q)' => ppc'[q] = "write" /\ seq'[q] \in 0 .. claimed' - 1
      BY <1>1, <1>2, <1>3, <1>7 DEF WriteInv, InHand
    <2>2. \A q \in Producers : wpc'[q] = "set" => sent'[seq'[q]] = NoSeq
      BY <1>1, <1>3, <1>6 DEF WriteInv
    <2>3. \A q \in Producers : wpc'[q] = "publish" => sent'[seq'[q]] = MsgId(q)'
      BY <1>1, <1>3 DEF WriteInv, MsgId
    <2>4. \A q, u \in Producers : InHand(q)' /\ InHand(u)' /\ seq'[q] = seq'[u] => q = u
      BY <1>2, <1>3, <1>7 DEF WriteInv, InHand
    <2> QED
      BY <2>1, <2>2, <2>3, <2>4 DEF WriteInv
  <1>9. SentInv'
    <2>1. ASSUME NEW s \in Ids
          PROVE  s < claimed' <=> sent'[s] # NoSeq \/ \E q \in Producers : wpc'[q] = "set" /\ seq'[q] = s
      <3>1. s \in Nat
        BY CountType DEF Ids
      <3>2. s < claimed' <=> s < claimed \/ s = claimed
        BY <1>1, <1>2, <3>1
      <3>3. CASE s = claimed
        BY <1>3, <3>2, <3>3
      <3>4. CASE s # claimed
        <4>1. \A q \in Producers : wpc'[q] = "set" /\ seq'[q] = s <=> wpc[q] = "set" /\ seq[q] = s
          BY <1>1, <1>3, <3>4
        <4> QED
          BY <1>1, <3>2, <3>4, <4>1 DEF SentInv
      <3> QED
        BY <3>3, <3>4
    <2>2. \A q \in Producers : SentTo(q)' = SentTo(q)
      BY <1>1, <1>3 DEF SentTo, Finished
    <2> QED
      BY <1>1, <2>1, <2>2 DEF SentInv, IdOf
  <1>10. SlotInv'
    <2>1. ASSUME NEW s \in Ids, s < claimed', claimed' <= s + Capacity
          PROVE  /\ sent'[s] # NoSeq => ring'[SlotOf(s)] = sent'[s]
                 /\ Available(s)' \/ \E q \in Producers : InHand(q)' /\ seq'[q] = s
      <3>1. s \in Nat
        BY CountType DEF Ids
      <3>2. CASE s = claimed
        BY <1>1, <1>3, <1>6, <3>2 DEF InHand
      <3>3. CASE s # claimed
        <4>1. s < claimed /\ claimed <= s + Capacity
          BY <1>1, <1>2, <2>1, <3>1, <3>3
        <4>2. \A q \in Producers : InHand(q) /\ seq[q] = s => InHand(q)' /\ seq'[q] = s
          BY <1>1, <1>3 DEF InHand
        <4> QED
          BY <1>1, <4>1, <4>2 DEF SlotInv, Available, SlotOf
      <3> QED
        BY <3>2, <3>3
    <2>2. ASSUME NEW l \in Slots, avail'[l] # NoSeq
          PROVE  /\ avail'[l] < claimed'
                 /\ sent'[avail'[l]] # NoSeq
                 /\ \A q \in Producers : InHand(q)' => seq'[q] # avail'[l]
      <3>1. avail[l] \in Ids /\ avail[l] < claimed /\ sent[avail[l]] # NoSeq
        BY <1>1, <2>2 DEF SlotInv, TypeOK
      <3>2. avail[l] \in Nat
        BY <3>1, CountType DEF Ids
      <3>3. \A q \in Producers : InHand(q)' => seq'[q] # avail[l]
        BY <1>1, <1>2, <1>3, <2>2, <3>1, <3>2 DEF SlotInv, InHand
      <3> QED
        BY <1>1, <1>2, <3>1, <3>2, <3>3
    <2>3. (\A s \in Ids : s < claimed /\ claimed <= s + Capacity =>
             /\ sent[s] # NoSeq => ring[SlotOf(s)] = sent[s]
             /\ Available(s) \/ \E q \in Producers : InHand(q) /\ seq[q] = s)'
      BY <1>1, <2>1 DEF SlotOf
    <2> QED
      BY <2>2, <2>3 DEF SlotInv
  <1>11. ReaderInv'
    <2> SUFFICES ASSUME NEW r \in Readers
                 PROVE  /\ pos[r] <= claimed'
                        /\ rpc[r] # "wait" => last[r] < claimed'
                        /\ \A q \in Producers : InHand(q)' =>
                             pos[r] <= seq'[q] /\ (rpc[r] # "wait" => last[r] < seq'[q])
      BY <1>1 DEF ReaderInv
    <2>1. pos[r] \in Nat /\ pos[r] <= claimed /\ (rpc[r] # "wait" => last[r] < claimed)
      BY CountType DEF ReaderInv, TypeOK
    <2>2. last[r] \in Int
      BY CountType DEF TypeOK, Ids, NoSeq
    <2> QED
      BY <1>1, <1>2, <1>3, <2>1, <2>2 DEF ReaderInv, InHand
  <1>12. GateHolds'
    <2>1. \A r \in Readers : claimed - Capacity <= passed[r] /\ passed[r] \in Int
      BY <1>1, CountType DEF HasRoom, TypeOK, Ids, NoSeq
    <2> QED
      BY <1>1, <1>2, <2>1 DEF GateHolds
  <1>13. EventIntact'
    BY <1>1 DEF EventIntact, SlotOf
  <1>14. StampInv'
    <2>1. \A id \in Ids : stamps[id] \in Nat
      BY DEF TypeOK, HarnessTypeOK
    <2>2. \A q \in Producers : MsgId(q)' = MsgId(q)
      BY <1>1 DEF MsgId
    <2> QED
      BY <1>1, <2>1, <2>2, StampFrame
  <1> QED
    BY <1>4, <1>5, <1>8, <1>9, <1>10, <1>11, <1>12, <1>13, <1>14

\* The slot a producer writes belongs to no sequence that is still to be read.
LEMMA SetIdStep ==
  ASSUME NumReader > 0, IndInv, NEW p \in Producers, SetId(p)
  PROVE  IndInv'
  <1> USE DEF IndInv
  <1> DEFINE own == MsgId(p)
             s0  == seq[p]
  <1>1. /\ ppc[p] = "write" /\ wpc[p] = "set" /\ InHand(p)
        /\ ring' = [ring EXCEPT ![SlotOf(s0)] = own]
        /\ sent' = [sent EXCEPT ![s0] = own]
        /\ wpc' = [wpc EXCEPT ![p] = "publish"]
        /\ UNCHANGED <<harnessVars, claimed, seq, avail, readerVars>>
    BY DEF SetId, InHand
  <1> USE DEF harnessVars, readerVars
  <1>2. s0 \in Nat /\ s0 \in Ids /\ s0 < claimed /\ claimed <= s0 + Capacity /\ SlotOf(s0) \in Slots
    BY <1>1, InHandInWindow, SlotType
  <1>3. /\ own \in Ids /\ own # NoSeq
        /\ own = IdOf(p, Finished(p)) /\ Finished(p) \in 0 .. Count - 1
        /\ SentTo(p) = Finished(p)
        /\ \A s \in Ids : sent[s] # own
    BY <1>1, NotSentYet
  <1>4. sent[s0] = NoSeq
    BY <1>1 DEF WriteInv
  <1>5. /\ wpc'[p] = "publish" /\ \A q \in Producers \ {p} : wpc'[q] = wpc[q]
        /\ \A q \in Producers : InHand(q)' <=> InHand(q)
    BY <1>1 DEF TypeOK, InHand
  <1>6. sent'[s0] = own /\ \A s \in Ids \ {s0} : sent'[s] = sent[s]
    BY <1>1, <1>2 DEF TypeOK
  <1>7. ring'[SlotOf(s0)] = own /\ \A l \in Slots \ {SlotOf(s0)} : ring'[l] = ring[l]
    BY <1>1, <1>2 DEF TypeOK
  <1>8. \A q \in Producers : MsgId(q)' = MsgId(q) /\ Finished(q)' = Finished(q)
    BY <1>1 DEF MsgId, Finished
  <1>9. TypeOK'
    BY <1>1, <1>2, <1>3 DEF TypeOK, HarnessTypeOK
  <1>10. LoopInv' /\ StartInv'
    BY <1>1 DEF LoopInv, StartInv, Sending, Finished
  <1>11. ASSUME NEW s \in Ids, s < claimed, claimed <= s + Capacity, s # s0
         PROVE  SlotOf(s) \in Slots /\ SlotOf(s) # SlotOf(s0) /\ ring'[SlotOf(s)] = ring[SlotOf(s)]
    <2>1. s \in Nat /\ claimed \in Nat
      BY CountType DEF Ids, TypeOK
    <2>2. SlotOf(s) # SlotOf(s0)
      BY <1>2, <1>11, <2>1, WindowDistinct
    <2> QED
      BY <1>7, <2>1, <2>2, SlotType
  <1>12. WriteInv'
    <2>1. \A q \in Producers : InHand(q)' => ppc'[q] = "write" /\ seq'[q] \in 0 .. claimed' - 1
      BY <1>1, <1>5 DEF WriteInv
    <2>2. \A q \in Producers \ {p} : InHand(q) => seq[q] # s0
      BY <1>1 DEF WriteInv
    <2>3. \A q \in Producers : wpc'[q] = "set" => sent'[seq'[q]] = NoSeq
      <3> SUFFICES ASSUME NEW q \in Producers, wpc'[q] = "set"
                   PROVE  sent'[seq[q]] = NoSeq
        BY <1>1
      <3>1. q # p /\ wpc[q] = "set" /\ InHand(q)
        BY <1>5 DEF InHand
      <3>2. seq[q] # s0 /\ sent[seq[q]] = NoSeq
        BY <2>2, <3>1 DEF WriteInv
      <3> QED
        BY <1>1, <3>2 DEF TypeOK
    <2>4. \A q \in Producers : wpc'[q] = "publish" => sent'[seq'[q]] = MsgId(q)'
      <3> SUFFICES ASSUME NEW q \in Producers, wpc'[q] = "publish", q # p
                   PROVE  sent'[seq[q]] = MsgId(q)
        BY <1>1, <1>6, <1>8
      <3>1. wpc[q] = "publish" /\ InHand(q)
        BY <1>5 DEF InHand
      <3>2. seq[q] # s0 /\ sent[seq[q]] = MsgId(q)
        BY <2>2, <3>1 DEF WriteInv
      <3> QED
        BY <1>1, <3>2 DEF TypeOK
    <2>5. \A q, u \in Producers : InHand(q)' /\ InHand(u)' /\ seq'[q] = seq'[u] => q = u
      BY <1>1, <1>5 DEF WriteInv
    <2> QED
      BY <2>1, <2>3, <2>4, <2>5 DEF WriteInv
  <1>13. SentInv'
    <2>1. ASSUME NEW s \in Ids
          PROVE  s < claimed' <=> sent'[s] # NoSeq \/ \E q \in Producers : wpc'[q] = "set" /\ seq'[q] = s
      <3>1. CASE s = s0
        BY <1>1, <1>2, <1>3, <1>6, <3>1
      <3>2. CASE s # s0
        <4>1. \A q \in Producers : wpc'[q] = "set" /\ seq'[q] = s <=> wpc[q] = "set" /\ seq[q] = s
          BY <1>1, <1>5, <3>2
        <4> QED
          BY <1>1, <1>6, <3>2, <4>1 DEF SentInv
      <3> QED
        BY <3>1, <3>2
    <2>2. \A s, t \in Ids : sent'[s] = sent'[t] /\ sent'[s] # NoSeq => s = t
      BY <1>3, <1>6 DEF SentInv
    <2>3. ASSUME NEW q \in Producers, NEW k \in 0 .. Count - 1
          PROVE  k < SentTo(q)' <=> \E s \in Ids : sent'[s] = IdOf(q, k)
      <3>1. IdOf(q, k) # NoSeq
        BY IdOfType, CountType DEF Ids, NoSeq
      <3>2. k < SentTo(q) <=> \E s \in Ids : sent[s] = IdOf(q, k)
        BY DEF SentInv
      <3>3. (\E s \in Ids : sent'[s] = IdOf(q, k)) <=> (\E s \in Ids : sent[s] = IdOf(q, k)) \/ IdOf(q, k) = own
        BY <1>2, <1>4, <1>6, <3>1
      <3>4. IdOf(q, k) = own <=> q = p /\ k = Finished(p)
        BY <1>3, IdOfUnique
      <3>5. SentTo(q)' = IF q = p THEN Finished(p) + 1 ELSE SentTo(q)
        BY <1>1, <1>5, <1>8 DEF SentTo
      <3> QED
        BY <1>3, <3>2, <3>3, <3>4, <3>5
    <2> QED
      BY <2>1, <2>2, <2>3 DEF SentInv, IdOf
  <1>14. SlotInv'
    <2>1. ASSUME NEW s \in Ids, s < claimed, claimed <= s + Capacity
          PROVE  /\ sent'[s] # NoSeq => ring'[SlotOf(s)] = sent'[s]
                 /\ Available(s) \/ \E q \in Producers : InHand(q) /\ seq[q] = s
      BY <1>6, <1>7, <1>11, <2>1 DEF SlotInv
    <2>2. ASSUME NEW l \in Slots, avail[l] # NoSeq
          PROVE  sent'[avail[l]] # NoSeq
      <3>1. avail[l] \in Ids /\ sent[avail[l]] # NoSeq
        BY <2>2 DEF SlotInv, TypeOK
      <3> QED
        BY <1>3, <1>6, <3>1
    <2>3. (\A s \in Ids : s < claimed /\ claimed <= s + Capacity =>
             /\ sent[s] # NoSeq => ring[SlotOf(s)] = sent[s]
             /\ Available(s) \/ \E q \in Producers : InHand(q) /\ seq[q] = s)'
      BY <1>1, <1>5, <2>1 DEF SlotOf, Available
    <2>4. \A l \in Slots : avail'[l] # NoSeq =>
             /\ avail'[l] < claimed'
             /\ sent'[avail'[l]] # NoSeq
             /\ \A q \in Producers : InHand(q)' => seq'[q] # avail'[l]
      BY <1>1, <1>5, <2>2 DEF SlotInv
    <2> QED
      BY <2>3, <2>4 DEF SlotInv
  <1>15. ReaderInv'
    BY <1>1, <1>5 DEF ReaderInv
  <1>16. GateHolds'
    BY <1>1 DEF GateHolds
  <1>17. EventIntact'
    <2> SUFFICES ASSUME NEW r \in Readers, rpc[r] \in {"event", "store"}, NEW s \in pos[r] .. last[r]
                 PROVE  sent'[s] # NoSeq /\ ring'[SlotOf(s)] = sent'[s]
      BY <1>1 DEF EventIntact, SlotOf
    <2>1. last[r] < claimed /\ last[r] < s0
      BY <1>1 DEF ReaderInv
    <2>2. pos[r] \in Nat /\ last[r] \in Int /\ claimed \in Nat /\ claimed <= RecordCount
      BY CountType DEF TypeOK, Ids, NoSeq
    <2>3. s \in Nat /\ s \in Ids /\ s < claimed /\ s # s0
      BY <1>2, <2>1, <2>2, CountType DEF Ids
    <2>4. claimed <= s + Capacity
      BY <2>2, <2>3, AheadInWindow
    <2>5. sent[s] # NoSeq /\ ring[SlotOf(s)] = sent[s]
      BY DEF EventIntact
    <2> QED
      BY <1>6, <1>11, <2>3, <2>4, <2>5
  <1>18. StampInv'
    <2>1. \A id \in Ids : stamps[id] \in Nat
      BY DEF TypeOK, HarnessTypeOK
    <2>2. \A r \in Readers : rpc[r] = "store" => sent'[pos[r]] = sent[pos[r]]
      <3> SUFFICES ASSUME NEW r \in Readers, rpc[r] = "store"
                   PROVE  pos[r] # s0 /\ pos[r] \in Ids
        BY <1>6
      <3>1. pos[r] \in Ids /\ pos[r] <= last[r] /\ last[r] \in Ids
        BY EventSent
      <3>2. last[r] < s0
        BY <1>1 DEF ReaderInv
      <3> QED
        BY <1>2, <3>1, <3>2, CountType DEF Ids
    <2>3. \A s \in Ids : sent[s] # NoSeq => sent'[s] = sent[s]
      BY <1>4, <1>6
    <2> QED
      BY <1>1, <1>8, <2>1, <2>2, <2>3, StampFrame
  <1> QED
    BY <1>9, <1>10, <1>12, <1>13, <1>14, <1>15, <1>16, <1>17, <1>18

\* A published sequence is out of the producer's hands, and in its slot.
LEMMA PublishStep ==
  ASSUME NumReader > 0, IndInv, NEW p \in Producers, Publish(p)
  PROVE  IndInv'
  <1> USE DEF IndInv
  <1> DEFINE s0 == seq[p]
  <1>1. /\ ppc[p] = "write" /\ wpc[p] = "publish" /\ InHand(p)
        /\ avail' = [avail EXCEPT ![SlotOf(s0)] = s0]
        /\ wpc' = [wpc EXCEPT ![p] = "next"]
        /\ ppc' = [ppc EXCEPT ![p] = "end"]
        /\ UNCHANGED <<loopVars, round, i, beg, recordVars, claimed, seq, ring, sent, readerVars>>
    BY DEF Publish, InHand
  <1> USE DEF loopVars, recordVars, readerVars
  <1>2. s0 \in Nat /\ s0 \in Ids /\ s0 < claimed /\ claimed <= s0 + Capacity /\ SlotOf(s0) \in Slots
    BY <1>1, InHandInWindow, SlotType
  <1>3. sent[s0] # NoSeq
    <2>1. MsgId(p) \in Ids
      BY <1>1, CurrentMessage DEF TypeOK, Sending
    <2> QED
      BY <1>1, <2>1, CountType DEF WriteInv, Ids, NoSeq
  <1>4. /\ wpc'[p] = "next" /\ ppc'[p] = "end"
        /\ \A q \in Producers \ {p} : wpc'[q] = wpc[q] /\ ppc'[q] = ppc[q]
        /\ \A q \in Producers : InHand(q)' <=> InHand(q) /\ q # p
    BY <1>1 DEF TypeOK, HarnessTypeOK, InHand
  <1>5. \A q \in Producers : MsgId(q)' = MsgId(q) /\ Finished(q)' = Finished(q)
    BY <1>1 DEF MsgId, Finished
  <1>6. \A q \in Producers \ {p} : InHand(q) => seq[q] # s0
    BY <1>1 DEF WriteInv
  <1>7. avail'[SlotOf(s0)] = s0 /\ \A l \in Slots \ {SlotOf(s0)} : avail'[l] = avail[l]
    BY <1>1, <1>2 DEF TypeOK
  <1>8. TypeOK'
    BY <1>1, <1>2 DEF TypeOK, HarnessTypeOK
  <1>9. LoopInv' /\ StartInv'
    <2>1. LoopInv'
      BY <1>1, <1>4, <1>5 DEF LoopInv, Sending
    <2>2. StartInv'
      BY <1>1, <1>4 DEF StartInv
    <2> QED
      BY <2>1, <2>2
  <1>10. WriteInv'
    BY <1>1, <1>4, <1>5 DEF WriteInv, InHand
  <1>11. SentInv'
    <2>1. \A q \in Producers : wpc'[q] = "set" <=> wpc[q] = "set"
      BY <1>1, <1>4
    <2>2. \A q \in Producers : SentTo(q)' = SentTo(q)
      BY <1>1, <1>4, <1>5 DEF SentTo
    <2> QED
      BY <1>1, <2>1, <2>2 DEF SentInv, IdOf
  <1>12. SlotInv'
    <2>1. ASSUME NEW s \in Ids, s < claimed, claimed <= s + Capacity
          PROVE  avail'[SlotOf(s)] = s \/ \E q \in Producers : InHand(q)' /\ seq[q] = s
      <3>1. CASE s = s0
        BY <1>7, <3>1
      <3>2. CASE s # s0
        <4>1. s \in Nat /\ claimed \in Nat
          BY CountType DEF Ids, TypeOK
        <4>2. SlotOf(s) # SlotOf(s0) /\ SlotOf(s) \in Slots
          BY <1>2, <2>1, <3>2, <4>1, WindowDistinct, SlotType
        <4>3. avail'[SlotOf(s)] = avail[SlotOf(s)]
          BY <1>7, <4>2
        <4>4. Available(s) \/ \E q \in Producers : InHand(q) /\ seq[q] = s
          BY <2>1 DEF SlotInv
        <4> QED
          BY <1>4, <3>2, <4>3, <4>4 DEF Available
      <3> QED
        BY <3>1, <3>2
    <2>2. (\A s \in Ids : s < claimed /\ claimed <= s + Capacity =>
             /\ sent[s] # NoSeq => ring[SlotOf(s)] = sent[s]
             /\ Available(s) \/ \E q \in Producers : InHand(q) /\ seq[q] = s)'
      BY <1>1, <2>1 DEF SlotInv, SlotOf, Available
    <2>3. \A l \in Slots : avail'[l] # NoSeq =>
             /\ avail'[l] < claimed'
             /\ sent'[avail'[l]] # NoSeq
             /\ \A q \in Producers : InHand(q)' => seq'[q] # avail'[l]
      BY <1>1, <1>2, <1>3, <1>4, <1>6, <1>7 DEF SlotInv
    <2> QED
      BY <2>2, <2>3 DEF SlotInv
  <1>13. ReaderInv'
    BY <1>1, <1>4 DEF ReaderInv
  <1>14. GateHolds' /\ EventIntact'
    BY <1>1 DEF GateHolds, EventIntact, SlotOf
  <1>15. StampInv'
    <2>1. \A id \in Ids : stamps[id] \in Nat
      BY DEF TypeOK, HarnessTypeOK
    <2>2. \A q \in Producers : ppc'[q] \in {"write", "end"} => ppc[q] \in {"write", "end"}
      BY <1>1, <1>4
    <2> QED
      BY <1>1, <1>5, <2>1, <2>2, StampFrame
  <1> QED
    BY <1>8, <1>9, <1>10, <1>11, <1>12, <1>13, <1>14, <1>15

\* The stamp of the begin record is the one the write began with.
LEMMA FinishWriteStep ==
  ASSUME IndInv, NEW p \in Producers, FinishWrite(p)
  PROVE  IndInv'
  <1> USE DEF IndInv
  <1>1. /\ ppc[p] = "end" /\ wpc[p] = "next" /\ NextMsg(p) /\ MsgId(p) \in Ids
        /\ records' = [records EXCEPT !["write_begin"][MsgId(p)] = beg[p],
                                      !["write_end"][MsgId(p)]   = stamps[MsgId(p)]]
        /\ stamps' = [stamps EXCEPT ![MsgId(p)] = @ + 1]
        /\ UNCHANGED <<main, n, beg, writeVars, readerVars>>
    <2>1. ppc[p] = "end"
      BY DEF FinishWrite, EndWrite
    <2>2. wpc[p] = "next"
      BY <2>1 DEF WriteInv, InHand
    <2>3. MsgId(p) \in Ids
      BY <2>1, CurrentMessage DEF TypeOK, Sending
    <2> QED
      BY <2>1, <2>2, <2>3 DEF FinishWrite, EndWrite, loopVars
  <1>2. /\ i' \in [Producers -> 0 .. RecordPerRound]
        /\ round' \in [Producers -> 0 .. TotalRounds]
        /\ ppc' \in [Producers -> {"unborn", "begin", "write", "end", "done"}]
        /\ Finished(p)' = Finished(p) + 1
        /\ ppc'[p] = "begin" => round'[p] < TotalRounds /\ i'[p] < RecordPerRound
        /\ ppc'[p] = "done" => Finished(p)' = Count
        /\ ppc'[p] \in {"begin", "done"}
        /\ \A q \in Producers \ {p} : ppc'[q] = ppc[q] /\ round'[q] = round[q] /\ i'[q] = i[q]
    BY <1>1, LoopTurn DEF TypeOK
  <1>3. /\ beg[p] \in Nat /\ stamps[MsgId(p)] \in Nat
        /\ stamps' \in [Ids -> Nat]
        /\ \A id \in Ids : stamps'[id] \in Nat /\ stamps[id] <= stamps'[id]
    BY <1>1 DEF TypeOK, HarnessTypeOK
  <1>4. /\ records' \in [Actions -> [Ids -> Nat \cup {NoRecord}]]
        /\ records'["read"] = records["read"]
        /\ records'["write_begin"] = [records["write_begin"] EXCEPT ![MsgId(p)] = beg[p]]
    BY <1>1, <1>3 DEF TypeOK, HarnessTypeOK, Actions
  <1>5. TypeOK'
    BY <1>1, <1>2, <1>3, <1>4 DEF TypeOK, HarnessTypeOK, writeVars, readerVars
  <1>6. LoopInv' /\ StartInv'
    <2>1. LoopInv'
      BY <1>2 DEF LoopInv, Sending, Finished
    <2>2. StartInv'
      BY <1>1, <1>2 DEF StartInv
    <2> QED
      BY <2>1, <2>2
  <1>7. \A q \in Producers \ {p} : MsgId(q)' = MsgId(q) /\ Finished(q)' = Finished(q)
    BY <1>2 DEF MsgId, Finished
  <1>8. \A q \in Producers : SentTo(q)' = SentTo(q)
    BY <1>1, <1>2, <1>7 DEF SentTo, writeVars
  <1>9. (WriteInv /\ SentInv /\ SlotInv /\ ReaderInv /\ GateHolds /\ EventIntact)'
    <2>1. \A q \in Producers : InHand(q) => ppc'[q] = ppc[q] /\ MsgId(q)' = MsgId(q)
      BY <1>1, <1>2, <1>7 DEF InHand
    <2> QED
      BY <1>1, <1>8, <2>1, RingFrame
  <1>10. StampInv'
    <2>1. \A q \in Producers : ppc'[q] \in {"write", "end"} =>
            ppc[q] \in {"write", "end"} /\ beg'[q] = beg[q] /\ MsgId(q)' = MsgId(q)
      BY <1>1, <1>2, <1>7
    <2>2. \A id \in Ids : records'["write_begin"][id] = records["write_begin"][id]
            \/ \E q \in Producers : /\ ppc[q] = "end" /\ id = MsgId(q)
                                    /\ records'["write_begin"][id] = beg[q]
      BY <1>1, <1>4 DEF TypeOK, HarnessTypeOK, Actions
    <2> QED
      BY <1>1, <1>3, <1>4, <2>1, <2>2, StampFrame DEF writeVars, readerVars
  <1> QED
    BY <1>5, <1>6, <1>9, <1>10

--------------------------------------------------------------------------------
(* The steps of a handler.                                                     *)

\* A batch ends before the first sequence that is not published.
LEMMA WaitForStep ==
  ASSUME IndInv, NEW r \in Readers, WaitFor(r)
  PROVE  IndInv'
  <1> USE DEF IndInv
  <1>0. PICK m \in pos[r] .. claimed - 1 : BatchEnd(r, m) /\ last' = [last EXCEPT ![r] = m]
    BY DEF WaitFor
  <1>1. /\ rpc[r] = "wait"
        /\ rpc' = [rpc EXCEPT ![r] = "event"]
        /\ UNCHANGED <<harnessVars, writeVars, rstamp, pos, passed>>
    BY DEF WaitFor
  <1> USE DEF harnessVars, writeVars
  <1>2. /\ pos[r] \in Nat /\ claimed \in Nat /\ claimed <= RecordCount
        /\ m \in Nat /\ m \in Ids /\ pos[r] <= m /\ m < claimed
    BY <1>0, CountType DEF TypeOK, Ids
  <1>3. /\ last'[r] = m /\ rpc'[r] = "event"
        /\ \A q \in Readers \ {r} : last'[q] = last[q] /\ rpc'[q] = rpc[q]
    BY <1>0, <1>1 DEF TypeOK
  <1>4. TypeOK'
    BY <1>0, <1>1, <1>2 DEF TypeOK, HarnessTypeOK
  <1>5. LoopInv' /\ StartInv'
    BY <1>1 DEF LoopInv, StartInv, Sending, Finished
  <1>6. WriteInv' /\ SlotInv' /\ SentInv'
    <2>1. WriteInv'
      BY <1>1 DEF WriteInv, InHand, MsgId
    <2>2. SlotInv'
      BY <1>1 DEF SlotInv, InHand, Available, SlotOf
    <2>3. SentInv'
      BY <1>1 DEF SentInv, SentTo, Finished, IdOf
    <2> QED
      BY <2>1, <2>2, <2>3
  <1>7. ASSUME NEW s \in pos[r] .. m
        PROVE  /\ s \in Ids /\ sent[s] # NoSeq /\ ring[SlotOf(s)] = sent[s]
               /\ \A p \in Producers : InHand(p) => seq[p] # s
    <2>1. s \in Nat /\ s \in Ids /\ s < claimed /\ pos[r] <= s
      BY <1>2, CountType DEF Ids
    <2>2. avail[SlotOf(s)] = s /\ s # NoSeq /\ SlotOf(s) \in Slots
      BY <1>0, <2>1, SlotType DEF BatchEnd, Available, NoSeq
    <2>3. sent[s] # NoSeq /\ \A p \in Producers : InHand(p) => seq[p] # s
      BY <2>2 DEF SlotInv
    <2>4. claimed <= s + Capacity
      BY <2>1, AheadInWindow
    <2> QED
      BY <2>1, <2>3, <2>4 DEF SlotInv
  <1>8. ReaderInv'
    <2>1. ASSUME NEW p \in Producers, InHand(p)
          PROVE  pos[r] <= seq[p] /\ m < seq[p]
      <3>1. pos[r] <= seq[p] /\ seq[p] \in Nat
        BY <1>2, <2>1 DEF ReaderInv, WriteInv
      <3> QED
        BY <1>2, <1>7, <2>1, <3>1
    <2> QED
      BY <1>1, <1>2, <1>3, <2>1 DEF ReaderInv, InHand
  <1>9. GateHolds'
    BY <1>1 DEF GateHolds
  <1>10. EventIntact'
    BY <1>1, <1>3, <1>7 DEF EventIntact, SlotOf
  <1>11. StampInv'
    <2>1. \A id \in Ids : stamps[id] \in Nat
      BY DEF TypeOK, HarnessTypeOK
    <2>2. \A q \in Readers : rpc'[q] = "store" => rpc[q] = "store"
      BY <1>3
    <2>3. \A q \in Producers : MsgId(q)' = MsgId(q)
      BY <1>1 DEF MsgId
    <2> QED
      BY <1>1, <2>1, <2>2, <2>3, StampFrame
  <1> QED
    BY <1>4, <1>5, <1>6, <1>8, <1>9, <1>10, <1>11

\* A handler's stamp is after all earlier ones of the message.
LEMMA OnEventStep ==
  ASSUME IndInv, NEW r \in Readers, OnEvent(r)
  PROVE  IndInv'
  <1> USE DEF IndInv
  <1> DEFINE own == ring[SlotOf(pos[r])]
  <1>1. /\ rpc[r] = "event"
        /\ rstamp' = [rstamp EXCEPT ![r] = stamps[own]]
        /\ stamps' = [stamps EXCEPT ![own] = @ + 1]
        /\ rpc' = [rpc EXCEPT ![r] = "store"]
        /\ UNCHANGED <<loopVars, producerVars, records, writeVars, pos, last, passed>>
    BY DEF OnEvent
  <1> USE DEF loopVars, producerVars, writeVars
  <1>2. own \in Ids /\ sent[pos[r]] = own
    BY <1>1, EventSent
  <1>3. /\ rpc'[r] = "store" /\ rstamp'[r] = stamps[own]
        /\ \A q \in Readers \ {r} : rpc'[q] = rpc[q] /\ rstamp'[q] = rstamp[q]
    BY <1>1 DEF TypeOK
  <1>4. TypeOK'
    BY <1>1, <1>2 DEF TypeOK, HarnessTypeOK
  <1>5. LoopInv' /\ StartInv'
    BY <1>1 DEF LoopInv, StartInv, Sending, Finished
  <1>6. WriteInv' /\ SlotInv' /\ SentInv'
    <2>1. WriteInv'
      BY <1>1 DEF WriteInv, InHand, MsgId
    <2>2. SlotInv'
      BY <1>1 DEF SlotInv, InHand, Available, SlotOf
    <2>3. SentInv'
      BY <1>1 DEF SentInv, SentTo, Finished, IdOf
    <2> QED
      BY <2>1, <2>2, <2>3
  <1>7. ReaderInv'
    BY <1>1, <1>3 DEF ReaderInv, InHand
  <1>8. GateHolds' /\ EventIntact'
    BY <1>1, <1>3 DEF GateHolds, EventIntact, SlotOf
  <1>9. StampInv'
    <2>1. /\ stamps[own] \in Nat
          /\ \A id \in Ids : stamps[id] \in Nat /\ stamps'[id] \in Nat /\ stamps[id] <= stamps'[id]
      BY <1>1, <1>2 DEF TypeOK, HarnessTypeOK
    <2>2. ASSUME NEW b \in Nat, NEW id \in Ids, Precedes(b, id)
          PROVE  Precedes(b, id)'
      <3>1. b < stamps[id] /\ b < stamps'[id]
        BY <2>1, <2>2 DEF Precedes
      <3>2. ASSUME NEW q \in Readers, rpc'[q] = "store", sent[pos[q]] = id
            PROVE  b < rstamp'[q]
        <4>1. CASE q = r
          BY <1>2, <1>3, <3>1, <3>2, <4>1
        <4>2. CASE q # r
          BY <1>3, <2>2, <3>2, <4>2 DEF Precedes
        <4> QED
          BY <4>1, <4>2
      <3> QED
        BY <1>1, <2>2, <3>1, <3>2 DEF Precedes, Recorded
    <2>3. ASSUME NEW p \in Producers, ppc[p] \in {"write", "end"}, NEW b, b = beg[p],
                 NEW id, id = MsgId(p)
          PROVE  Precedes(b, id)'
      <3>1. b \in Nat /\ id \in Ids /\ Precedes(b, id)
        BY <2>3, CurrentMessage DEF StampInv, Sending, TypeOK, HarnessTypeOK
      <3> QED
        BY <2>2, <3>1
    <2>4. ASSUME NEW id \in Ids, Recorded("write_begin", id), NEW b, b = records["write_begin"][id]
          PROVE  Precedes(b, id)'
      <3>1. b \in Nat /\ Precedes(b, id)
        BY <2>4 DEF StampInv, Recorded, TypeOK, HarnessTypeOK, Actions
      <3> QED
        BY <2>2, <3>1
    <2>5. \A p \in Producers : ppc'[p] \in {"write", "end"} => Precedes(beg[p], MsgId(p))'
      <3>1. \A p \in Producers : MsgId(p)' = MsgId(p)
        BY <1>1 DEF MsgId
      <3> QED
        BY <1>1, <2>3, <3>1
    <2>6. \A id \in Ids : Recorded("write_begin", id)' => Precedes(records["write_begin"][id], id)'
      BY <1>1, <2>4 DEF Recorded
    <2>7. \A id \in Ids : Recorded("read", id)' => \E s \in Ids : sent'[s] = id
      BY <1>1 DEF StampInv, Recorded
    <2> QED
      BY <2>5, <2>6, <2>7 DEF StampInv
  <1> QED
    BY <1>4, <1>5, <1>6, <1>7, <1>8, <1>9

\* The read record is one of a message that was sent, after its write began.
LEMMA StoreRecordStep ==
  ASSUME IndInv, NEW r \in Readers, StoreRecord(r)
  PROVE  IndInv'
  <1> USE DEF IndInv
  <1> DEFINE own == ring[SlotOf(pos[r])]
  <1>1. /\ rpc[r] = "store"
        /\ records' = [records EXCEPT !["read"][own] = rstamp[r]]
        /\ pos' = [pos EXCEPT ![r] = @ + 1]
        /\ rpc' = [rpc EXCEPT ![r] = IF pos[r] = last[r] THEN "release" ELSE "event"]
        /\ UNCHANGED <<loopVars, producerVars, stamps, writeVars, rstamp, last, passed>>
    BY DEF StoreRecord, NextEvent
  <1> USE DEF loopVars, producerVars, writeVars
  <1>2. /\ own \in Ids /\ sent[pos[r]] = own /\ pos[r] \in Ids /\ pos[r] \in Nat
        /\ pos[r] <= last[r] /\ last[r] \in Ids /\ last[r] \in Nat /\ last[r] < claimed
        /\ claimed \in Nat /\ claimed <= RecordCount
    <2>1. /\ pos[r] \in Ids /\ pos[r] <= last[r] /\ last[r] \in Ids /\ last[r] < claimed
          /\ sent[pos[r]] \in Ids /\ own = sent[pos[r]]
      BY <1>1, EventSent
    <2>2. claimed \in Nat /\ claimed <= RecordCount
      BY CountType DEF TypeOK
    <2> HIDE DEF own
    <2> QED
      BY <2>1, <2>2, CountType DEF Ids
  <1>3. /\ rpc'[r] \in {"release", "event"}
        /\ rpc'[r] = "release" => pos[r] = last[r]
        /\ rpc'[r] = "event" => pos[r] < last[r]
        /\ pos'[r] = pos[r] + 1
        /\ \A q \in Readers \ {r} : rpc'[q] = rpc[q] /\ pos'[q] = pos[q]
    BY <1>1, <1>2 DEF TypeOK
  <1>4. /\ rstamp[r] \in Nat
        /\ records' \in [Actions -> [Ids -> Nat \cup {NoRecord}]]
        /\ records'["write_begin"] = records["write_begin"]
        /\ records'["read"][own] = rstamp[r]
        /\ \A id \in Ids \ {own} : records'["read"][id] = records["read"][id]
    BY <1>1, <1>2 DEF TypeOK, HarnessTypeOK, Actions
  <1>5. TypeOK'
    <2>1. pos' \in [Readers -> 0 .. RecordCount]
      BY <1>1, <1>2, CountType DEF TypeOK
    <2>2. rpc' \in [Readers -> {"wait", "event", "store", "release"}]
      BY <1>1 DEF TypeOK
    <2> QED
      BY <1>1, <1>4, <2>1, <2>2 DEF TypeOK, HarnessTypeOK
  <1>6. LoopInv' /\ StartInv'
    BY <1>1 DEF LoopInv, StartInv, Sending, Finished
  <1>7. WriteInv' /\ SlotInv' /\ SentInv'
    <2>1. WriteInv'
      BY <1>1 DEF WriteInv, InHand, MsgId
    <2>2. SlotInv'
      BY <1>1 DEF SlotInv, InHand, Available, SlotOf
    <2>3. SentInv'
      BY <1>1 DEF SentInv, SentTo, Finished, IdOf
    <2> QED
      BY <2>1, <2>2, <2>3
  <1>8. ReaderInv'
    <2>1. ASSUME NEW p \in Producers, InHand(p)
          PROVE  last[r] < seq[p] /\ pos[r] + 1 <= seq[p]
      <3>1. last[r] < seq[p] /\ seq[p] \in Nat
        BY <1>1, <1>2, <2>1 DEF ReaderInv, WriteInv
      <3> QED
        BY <1>2, <3>1
    <2> QED
      BY <1>1, <1>2, <1>3, <2>1 DEF ReaderInv, InHand
  <1>9. GateHolds'
    <2>1. passed[r] < pos[r] /\ passed[r] \in Int
      BY CountType DEF GateHolds, TypeOK, Ids, NoSeq
    <2>2. passed[r] < pos[r] + 1
      BY <1>2, <2>1
    <2> QED
      BY <1>1, <1>3, <2>2 DEF GateHolds
  <1>10. EventIntact'
    <2> SUFFICES ASSUME NEW q \in Readers, rpc'[q] \in {"event", "store"}, NEW s \in pos'[q] .. last[q]
                 PROVE  sent[s] # NoSeq /\ ring[SlotOf(s)] = sent[s]
      BY <1>1 DEF EventIntact, SlotOf
    <2>1. rpc[q] \in {"event", "store"} /\ s \in pos[q] .. last[q]
      BY <1>1, <1>2, <1>3
    <2> QED
      BY <2>1 DEF EventIntact
  <1>11. StampInv'
    <2>1. ASSUME NEW b \in Nat, NEW id \in Ids, Precedes(b, id)
          PROVE  Precedes(b, id)'
      <3>1. Recorded("read", id)' => b < records'["read"][id]
        <4>1. CASE id = own
          BY <1>1, <1>2, <1>4, <2>1, <4>1 DEF Precedes
        <4>2. CASE id # own
          BY <1>4, <2>1, <4>2 DEF Precedes, Recorded
        <4> QED
          BY <4>1, <4>2
      <3>2. \A q \in Readers : rpc'[q] = "store" /\ sent[pos'[q]] = id => b < rstamp[q]
        BY <1>3, <2>1 DEF Precedes
      <3> QED
        BY <1>1, <2>1, <3>1, <3>2 DEF Precedes
    <2>2. ASSUME NEW p \in Producers, ppc[p] \in {"write", "end"}, NEW b, b = beg[p],
                 NEW id, id = MsgId(p)
          PROVE  Precedes(b, id)'
      <3>1. b \in Nat /\ id \in Ids /\ Precedes(b, id)
        BY <2>2, CurrentMessage DEF StampInv, Sending, TypeOK, HarnessTypeOK
      <3> QED
        BY <2>1, <3>1
    <2>3. ASSUME NEW id \in Ids, Recorded("write_begin", id), NEW b, b = records["write_begin"][id]
          PROVE  Precedes(b, id)'
      <3>1. b \in Nat /\ Precedes(b, id)
        BY <2>3 DEF StampInv, Recorded, TypeOK, HarnessTypeOK, Actions
      <3> QED
        BY <2>1, <3>1
    <2>4. \A p \in Producers : ppc'[p] \in {"write", "end"} => Precedes(beg[p], MsgId(p))'
      <3>1. \A p \in Producers : MsgId(p)' = MsgId(p)
        BY <1>1 DEF MsgId
      <3> QED
        BY <1>1, <2>2, <3>1
    <2>5. \A id \in Ids : Recorded("write_begin", id)' => Precedes(records["write_begin"][id], id)'
      BY <1>4, <2>3 DEF Recorded
    <2>6. \A id \in Ids : Recorded("read", id)' => \E s \in Ids : sent'[s] = id
      BY <1>1, <1>2, <1>4 DEF StampInv, Recorded
    <2> QED
      BY <2>4, <2>5, <2>6 DEF StampInv
  <1> QED
    BY <1>5, <1>6, <1>7, <1>8, <1>9, <1>10, <1>11

\* A batch is passed as a whole.
LEMMA ReleaseStep ==
  ASSUME IndInv, NEW r \in Readers, Release(r)
  PROVE  IndInv'
  <1> USE DEF IndInv
  <1>1. /\ rpc[r] = "release"
        /\ passed' = [passed EXCEPT ![r] = last[r]]
        /\ rpc' = [rpc EXCEPT ![r] = "wait"]
        /\ UNCHANGED <<harnessVars, writeVars, rstamp, pos, last>>
    BY DEF Release
  <1> USE DEF harnessVars, writeVars
  <1>2. /\ passed'[r] = last[r] /\ rpc'[r] = "wait"
        /\ \A q \in Readers \ {r} : rpc'[q] = rpc[q] /\ passed'[q] = passed[q]
    BY <1>1 DEF TypeOK
  <1>3. /\ pos[r] = last[r] + 1
        /\ pos[r] \in Nat /\ last[r] \in Int /\ passed[r] \in Int /\ claimed \in Nat
    BY <1>1, CountType DEF ReaderInv, TypeOK, Ids, NoSeq
  <1>4. TypeOK'
    BY <1>1 DEF TypeOK, HarnessTypeOK
  <1>5. LoopInv' /\ StartInv'
    BY <1>1 DEF LoopInv, StartInv, Sending, Finished
  <1>6. WriteInv' /\ SlotInv' /\ SentInv'
    <2>1. WriteInv'
      BY <1>1 DEF WriteInv, InHand, MsgId
    <2>2. SlotInv'
      BY <1>1 DEF SlotInv, InHand, Available, SlotOf
    <2>3. SentInv'
      BY <1>1 DEF SentInv, SentTo, Finished, IdOf
    <2> QED
      BY <2>1, <2>2, <2>3
  <1>7. ReaderInv'
    BY <1>1, <1>2, <1>3 DEF ReaderInv, InHand
  <1>8. GateHolds'
    <2>1. passed[r] < pos[r] /\ claimed - Capacity <= passed[r] + 1
      BY DEF GateHolds
    <2>2. last[r] < pos[r] /\ claimed - Capacity <= last[r] + 1
      BY <1>3, <2>1
    <2> QED
      BY <1>1, <1>2, <2>2 DEF GateHolds
  <1>9. EventIntact'
    BY <1>1, <1>2 DEF EventIntact, SlotOf
  <1>10. StampInv'
    <2>1. \A id \in Ids : stamps[id] \in Nat
      BY DEF TypeOK, HarnessTypeOK
    <2>2. \A q \in Readers : rpc'[q] = "store" => rpc[q] = "store"
      BY <1>2
    <2>3. \A q \in Producers : MsgId(q)' = MsgId(q)
      BY <1>1 DEF MsgId
    <2> QED
      BY <1>1, <2>1, <2>2, <2>3, StampFrame
  <1> QED
    BY <1>4, <1>5, <1>6, <1>7, <1>8, <1>9, <1>10

--------------------------------------------------------------------------------
(* The steps of the main thread.                                               *)

\* A producer is started once, and has sent nothing then.
LEMMA StartProducerStep ==
  ASSUME IndInv, StartProducer, UNCHANGED <<writeVars, readerVars>>
  PROVE  IndInv'
  <1> USE DEF IndInv
  <1>1. /\ main = "producers" /\ main' = main /\ n' = n + 1 /\ n < NumProducer
        /\ ppc' = [ppc EXCEPT ![n] = IF Count > 0 THEN "begin" ELSE "done"]
        /\ UNCHANGED <<round, i, beg, stamps, records>>
    BY DEF StartProducer, Turn, recordVars
  <1>2. n \in Nat /\ n \in Producers /\ ppc[n] = "unborn" /\ wpc[n] = "next"
    BY <1>1 DEF TypeOK, HarnessTypeOK, Producers, StartInv, WriteInv, InHand
  <1>3. /\ ppc'[n] = IF Count > 0 THEN "begin" ELSE "done"
        /\ \A q \in Producers \ {n} : ppc'[q] = ppc[q]
    BY <1>1, <1>2 DEF TypeOK, HarnessTypeOK
  <1>4. TypeOK'
    BY <1>1, <1>2 DEF TypeOK, HarnessTypeOK, writeVars, readerVars
  <1>5. round[n] = 0 /\ i[n] = 0 /\ Finished(n) = 0
    BY <1>2 DEF LoopInv, Finished
  <1>6. \A q \in Producers : MsgId(q)' = MsgId(q) /\ Finished(q)' = Finished(q)
    BY <1>1 DEF MsgId, Finished
  <1>7. LoopInv'
    <2>1. Count > 0 => TotalRounds > 0 /\ RecordPerRound > 0
      BY DEF Count
    <2>2. Count = 0 \/ Count > 0
      BY CountType
    <2> QED
      BY <1>1, <1>3, <1>5, <1>6, <2>1, <2>2 DEF LoopInv, Sending
  <1>8. StartInv'
    <2> SUFFICES ASSUME NEW q \in Producers, q >= n + 1
                 PROVE  ppc'[q] = "unborn"
      BY <1>1 DEF StartInv
    <2>1. q \in Int /\ q >= n /\ q # n
      BY <1>2 DEF Producers
    <2> QED
      BY <1>1, <1>3, <2>1 DEF StartInv
  <1>9. (WriteInv /\ SentInv /\ SlotInv /\ ReaderInv /\ GateHolds /\ EventIntact)'
    <2>1. \A q \in Producers : InHand(q) => ppc'[q] = ppc[q] /\ MsgId(q)' = MsgId(q)
      BY <1>2, <1>3, <1>6 DEF InHand
    <2>2. \A q \in Producers : SentTo(q)' = SentTo(q)
      BY <1>2, <1>3, <1>6 DEF SentTo, writeVars
    <2> QED
      BY <2>1, <2>2, RingFrame
  <1>10. StampInv'
    <2>1. \A id \in Ids : stamps[id] \in Nat
      BY DEF TypeOK, HarnessTypeOK
    <2>2. \A q \in Producers : ppc'[q] \in {"write", "end"} => ppc[q] \in {"write", "end"}
      BY <1>3
    <2> QED
      BY <1>1, <1>6, <2>1, <2>2, StampFrame DEF writeVars, readerVars
  <1> QED
    BY <1>4, <1>7, <1>8, <1>9, <1>10

\* The other steps of the main thread move it alone.
LEMMA MainFrame ==
  ASSUME IndInv, UNCHANGED <<producerVars, recordVars, writeVars, readerVars>>,
         n' \in Nat, main' = "producers" => main = "producers" /\ n' = n,
         main' \in {"producers", "joinProducers", "sleep", "report", "finished", "failed"}
  PROVE  IndInv'
  <1> USE DEF IndInv, producerVars, recordVars
  <1>1. TypeOK'
    BY DEF TypeOK, HarnessTypeOK, writeVars, readerVars
  <1>2. LoopInv' /\ StartInv'
    BY DEF LoopInv, StartInv, Sending, Finished
  <1>3. \A q \in Producers : MsgId(q)' = MsgId(q) /\ SentTo(q)' = SentTo(q)
    BY DEF MsgId, SentTo, Finished, writeVars
  <1>4. (WriteInv /\ SentInv /\ SlotInv /\ ReaderInv /\ GateHolds /\ EventIntact)'
    BY <1>3, RingFrame
  <1>5. StampInv'
    <2>1. \A id \in Ids : stamps[id] \in Nat
      BY DEF TypeOK, HarnessTypeOK
    <2> QED
      BY <1>3, <2>1, StampFrame DEF writeVars, readerVars
  <1> QED
    BY <1>1, <1>2, <1>4, <1>5

--------------------------------------------------------------------------------
(* The theorems.                                                               *)

\* Every step keeps the invariant, when there is a handler to hold producers back.
LEMMA IndStep ==
  ASSUME NumReader > 0, IndInv, [Next]_vars
  PROVE  IndInv'
  <1>0. n \in Nat /\ main \in {"producers", "joinProducers", "sleep", "report", "finished", "failed"}
    BY DEF IndInv, TypeOK, HarnessTypeOK
  <1>1. CASE StartProducer /\ UNCHANGED <<writeVars, readerVars>>
    BY <1>1, StartProducerStep
  <1>2. CASE JoinProducer /\ UNCHANGED <<writeVars, readerVars>>
    BY <1>0, <1>2, MainFrame DEF JoinProducer, Turn
  <1>3. CASE GenReport /\ UNCHANGED <<writeVars, readerVars>>
    BY <1>0, <1>3, MainFrame DEF GenReport
  <1>4. CASE NextPhase
    BY <1>0, <1>4, MainFrame DEF NextPhase, Leave
  <1>5. CASE WakeUp
    BY <1>0, <1>5, MainFrame DEF WakeUp
  <1>6. ASSUME NEW p \in Producers, Producer(p)
        PROVE  IndInv'
    BY <1>6, BeginWriteStep, ClaimStep, SetIdStep, PublishStep, FinishWriteStep DEF Producer
  <1>7. ASSUME NEW r \in Readers, Reader(r)
        PROVE  IndInv'
    BY <1>7, WaitForStep, OnEventStep, StoreRecordStep, ReleaseStep DEF Reader
  <1>8. CASE UNCHANGED vars
    BY <1>0, <1>8, MainFrame DEF vars, producerVars, recordVars, writeVars, readerVars
  <1> QED
    BY <1>1, <1>2, <1>3, <1>4, <1>5, <1>6, <1>7, <1>8 DEF Next, Main, Exited

\* With at least one handler no event is overwritten before every handler has seen
\* it, producers write into different slots, no gap stays in the ring, and no read
\* is stamped before its write began, whatever the number of threads and messages
\* and the capacity.
THEOREM RingGuarded ==
  ASSUME NumReader > 0
  PROVE  Spec => []RingInv
  <1>1. Init => IndInv
    BY IndInit
  <1>2. IndInv /\ [Next]_vars => IndInv'
    BY IndStep
  <1>3. IndInv => RingInv
    BY RingFollows
  <1> QED
    BY <1>1, <1>2, <1>3, PTL DEF Spec

--------------------------------------------------------------------------------
(* The report.                                                                 *)

\* Before anything is sent there is nothing to be recorded.
LEMMA ReportInit ==
  ASSUME Init
  PROVE  ReportInv
  <1>1. \A p \in Producers : Finished(p) = 0
    BY DEF Init, HarnessInit, Finished
  <1>2. JoinedInv
    BY DEF Init, HarnessInit, JoinedInv
  <1>3. RecordInv
    BY <1>1, CountType DEF RecordInv, Init, HarnessInit, Ids
  <1> QED
    BY <1>2, <1>3 DEF ReportInv

\* Steps that leave the records, the handlers and what was sent alone, and let no
\* producer that is done go on.
LEMMA ReportFrame ==
  ASSUME IndInv, ReportInv, UNCHANGED <<records, pos, round, i>>,
         \A s \in Ids : sent[s] # NoSeq => sent'[s] = sent[s],
         \A p \in Producers : ppc[p] = "done" => ppc'[p] = "done",
         main' = main /\ (n' = n \/ main = "producers")
  PROVE  ReportInv'
  <1>1. JoinedInv'
    BY DEF ReportInv, JoinedInv, ProducersDone
  <1>2. \A p \in Producers : Finished(p)' = Finished(p)
    BY DEF Finished
  <1>3. RecordInv'
    BY <1>2 DEF ReportInv, RecordInv, Recorded, IdOf
  <1> QED
    BY <1>1, <1>3 DEF ReportInv

\* The end of a write stores both records of its message.
LEMMA FinishWriteReports ==
  ASSUME IndInv, ReportInv, NEW p \in Producers, FinishWrite(p)
  PROVE  ReportInv'
  <1> USE DEF IndInv
  <1>1. /\ ppc[p] = "end" /\ NextMsg(p)
        /\ records' = [records EXCEPT !["write_begin"][MsgId(p)] = beg[p],
                                      !["write_end"][MsgId(p)]   = stamps[MsgId(p)]]
        /\ UNCHANGED <<main, n, sent, pos>>
    BY DEF FinishWrite, EndWrite, loopVars, writeVars, readerVars
  <1>2. MsgId(p) \in Ids /\ MsgId(p) = IdOf(p, Finished(p)) /\ Finished(p) \in Nat
    BY <1>1, CurrentMessage DEF TypeOK, Sending
  <1>3. /\ Finished(p)' = Finished(p) + 1
        /\ \A q \in Producers \ {p} : ppc'[q] = ppc[q] /\ round'[q] = round[q] /\ i'[q] = i[q]
    BY <1>1, LoopTurn DEF TypeOK
  <1>4. /\ beg[p] \in Nat /\ stamps[MsgId(p)] \in Nat
        /\ records \in [Actions -> [Ids -> Nat \cup {NoRecord}]]
    BY <1>2 DEF TypeOK, HarnessTypeOK
  <1>5. /\ records'["read"] = records["read"]
        /\ \A a \in {"write_begin", "write_end"} :
             /\ records'[a][MsgId(p)] \in Nat
             /\ \A id \in Ids \ {MsgId(p)} : records'[a][id] = records[a][id]
    BY <1>1, <1>2, <1>4 DEF Actions
  <1>6. JoinedInv'
    BY <1>1, <1>3 DEF ReportInv, JoinedInv, ProducersDone
  <1>7. ASSUME NEW q \in Producers, NEW k \in 0 .. Count - 1, NEW a \in {"write_begin", "write_end"},
               k < Finished(q)'
        PROVE  Recorded(a, IdOf(q, k))'
    <2>1. IdOf(q, k) \in Ids /\ IdOf(q, k)' = IdOf(q, k)
      BY IdOfType DEF IdOf
    <2>2. CASE IdOf(q, k) = MsgId(p)
      BY <1>5, <2>1, <2>2 DEF Recorded
    <2>3. CASE IdOf(q, k) # MsgId(p)
      <3>1. k < Finished(q)
        <4>1. CASE q = p
          <5>1. k # Finished(p)
            BY <1>2, <2>3, <4>1
          <5> QED
            BY <1>2, <1>3, <1>7, <4>1, <5>1
        <4>2. CASE q # p
          BY <1>3, <1>7, <4>2 DEF Finished
        <4> QED
          BY <4>1, <4>2
      <3>2. Recorded(a, IdOf(q, k))
        BY <3>1 DEF ReportInv, RecordInv
      <3> QED
        BY <1>5, <2>1, <2>3, <3>2 DEF Recorded
    <2> QED
      BY <2>2, <2>3
  <1>8. \A r \in Readers, s \in Ids : s < pos'[r] => sent'[s] # NoSeq /\ Recorded("read", sent[s])'
    BY <1>1, <1>5 DEF ReportInv, RecordInv, Recorded
  <1> QED
    BY <1>6, <1>7, <1>8 DEF ReportInv, RecordInv

\* A handler moves past a sequence when it has stored the record of its message.
LEMMA StoreRecordReports ==
  ASSUME IndInv, ReportInv, NEW r \in Readers, StoreRecord(r)
  PROVE  ReportInv'
  <1> USE DEF IndInv
  <1>1. /\ rpc[r] = "store"
        /\ records' = [records EXCEPT !["read"][ring[SlotOf(pos[r])]] = rstamp[r]]
        /\ pos' = [pos EXCEPT ![r] = @ + 1]
        /\ UNCHANGED <<main, n, ppc, round, i, sent>>
    BY DEF StoreRecord, NextEvent, loopVars, producerVars, writeVars
  <1>2. pos[r] \in Nat /\ sent[pos[r]] \in Ids /\ ring[SlotOf(pos[r])] = sent[pos[r]]
        /\ pos[r] \in Ids
    BY <1>1, EventSent DEF TypeOK
  <1>3. /\ rstamp[r] \in Nat
        /\ records \in [Actions -> [Ids -> Nat \cup {NoRecord}]]
        /\ pos \in [Readers -> 0 .. RecordCount]
    BY DEF TypeOK, HarnessTypeOK
  <1>4. /\ records'["write_begin"] = records["write_begin"]
        /\ records'["write_end"] = records["write_end"]
        /\ records'["read"][sent[pos[r]]] \in Nat
        /\ \A id \in Ids \ {sent[pos[r]]} : records'["read"][id] = records["read"][id]
    BY <1>1, <1>2, <1>3 DEF Actions
  <1>5. JoinedInv'
    BY <1>1 DEF ReportInv, JoinedInv, ProducersDone
  <1>6. \A id : Recorded("read", id) /\ id \in Ids => Recorded("read", id)'
    BY <1>4 DEF Recorded
  <1>7. \A q \in Producers, k \in 0 .. Count - 1, a \in {"write_begin", "write_end"} :
          k < Finished(q)' => Recorded(a, IdOf(q, k))'
    <2>1. \A q \in Producers : Finished(q)' = Finished(q)
      BY <1>1 DEF Finished
    <2> QED
      BY <1>4, <2>1 DEF ReportInv, RecordInv, Recorded, IdOf
  <1>8. ASSUME NEW q \in Readers, NEW s \in Ids, s < pos'[q]
        PROVE  sent'[s] # NoSeq /\ Recorded("read", sent[s])'
    <2>1. CASE s = pos[r]
      <3>1. sent[s] # NoSeq
        BY <1>2, <2>1, CountType DEF Ids, NoSeq
      <3> QED
        BY <1>1, <1>4, <2>1, <3>1 DEF Recorded
    <2>2. CASE s # pos[r]
      <3>1. s < pos[q]
        BY <1>1, <1>2, <1>3, <1>8, <2>2, CountType DEF Ids
      <3>2. sent[s] # NoSeq /\ Recorded("read", sent[s])
        BY <3>1 DEF ReportInv, RecordInv
      <3>3. sent[s] \in Ids
        BY <3>2 DEF TypeOK
      <3> QED
        BY <1>1, <1>6, <3>2, <3>3 DEF Recorded
    <2> QED
      BY <2>1, <2>2
  <1> QED
    BY <1>5, <1>7, <1>8 DEF ReportInv, RecordInv

\* The main thread joins the producers one by one.
LEMMA MainReports ==
  ASSUME IndInv, ReportInv, Main
  PROVE  ReportInv'
  <1> USE DEF IndInv
  <1>1. n \in Nat
    BY DEF TypeOK, HarnessTypeOK
  <1>2. CASE StartProducer /\ UNCHANGED <<writeVars, readerVars>>
    <2>1. /\ main = "producers" /\ main' = main /\ n < NumProducer
          /\ ppc' = [ppc EXCEPT ![n] = IF Count > 0 THEN "begin" ELSE "done"]
          /\ UNCHANGED <<round, i, records, sent, pos>>
      BY <1>2 DEF StartProducer, Turn, recordVars, writeVars, readerVars
    <2>2. n \in Producers /\ ppc[n] = "unborn"
      BY <1>1, <2>1 DEF StartInv, Producers
    <2>3. \A p \in Producers : ppc[p] = "done" => ppc'[p] = "done"
      BY <2>1, <2>2 DEF TypeOK, HarnessTypeOK
    <2> QED
      BY <2>1, <2>3, ReportFrame
  <1>3. ASSUME UNCHANGED <<producerVars, recordVars, writeVars, readerVars>>, JoinedInv'
        PROVE  ReportInv'
    <2>1. \A p \in Producers : Finished(p)' = Finished(p)
      BY <1>3 DEF producerVars, Finished
    <2>2. RecordInv'
      BY <1>3, <2>1 DEF ReportInv, RecordInv, Recorded, IdOf, recordVars, writeVars, readerVars
    <2> QED
      BY <1>3, <2>2 DEF ReportInv
  <1>4. CASE JoinProducer /\ UNCHANGED <<writeVars, readerVars>>
    <2>1. /\ main = "joinProducers" /\ main' = main /\ n' = n + 1 /\ ppc[n] = "done"
          /\ UNCHANGED <<producerVars, recordVars, writeVars, readerVars>>
      BY <1>4 DEF JoinProducer, Turn
    <2>2. JoinedInv'
      <3> SUFFICES ASSUME NEW p \in Producers, p < n + 1
                   PROVE  ppc[p] = "done"
        BY <2>1 DEF JoinedInv, producerVars
      <3>1. p = n \/ p < n
        BY <1>1 DEF Producers
      <3> QED
        BY <2>1, <3>1 DEF ReportInv, JoinedInv
    <2> QED
      BY <1>3, <2>1, <2>2
  <1>5. CASE GenReport /\ UNCHANGED <<writeVars, readerVars>>
    <2>1. main = "report" /\ main' \in {"failed", "finished"} /\ UNCHANGED <<producerVars, recordVars>>
      BY <1>5 DEF GenReport
    <2>2. JoinedInv'
      BY <2>1 DEF ReportInv, JoinedInv, ProducersDone, producerVars
    <2> QED
      BY <1>3, <1>5, <2>1, <2>2
  <1>6. CASE NextPhase
    <2>1. /\ UNCHANGED <<producerVars, recordVars, writeVars, readerVars>>
          /\ n = NumProducer /\ n' = 0
          /\ \/ main = "producers" /\ main' = "joinProducers"
             \/ main = "joinProducers" /\ main' = "sleep"
      BY <1>6 DEF NextPhase, Leave
    <2>2. JoinedInv'
      <3>1. CASE main = "producers"
        BY <2>1, <3>1 DEF JoinedInv, Producers
      <3>2. CASE main = "joinProducers"
        BY <2>1, <3>2 DEF ReportInv, JoinedInv, ProducersDone, Producers, producerVars
      <3> QED
        BY <2>1, <3>1, <3>2
    <2> QED
      BY <1>3, <2>1, <2>2
  <1>7. CASE WakeUp
    <2>1. /\ main = "sleep" /\ main' = "report"
          /\ UNCHANGED <<producerVars, recordVars, writeVars, readerVars>>
      BY <1>7 DEF WakeUp
    <2>2. JoinedInv'
      BY <2>1 DEF ReportInv, JoinedInv, ProducersDone, producerVars
    <2> QED
      BY <1>3, <2>1, <2>2
  <1> QED
    BY <1>2, <1>4, <1>5, <1>6, <1>7 DEF Main

\* Every step keeps what the report relies on.
LEMMA ReportStep ==
  ASSUME IndInv, ReportInv, [Next]_vars
  PROVE  ReportInv'
  <1> USE DEF loopVars, producerVars, recordVars, harnessVars, writeVars, readerVars
  <1>1. CASE Main
    BY <1>1, MainReports
  <1>2. ASSUME NEW p \in Producers, Producer(p)
        PROVE  ReportInv'
    <2>1. CASE BeginWrite(p)
      BY <2>1, ReportFrame DEF BeginWrite, StampBegin
    <2>2. CASE Claim(p)
      BY <2>2, ReportFrame DEF Claim
    <2>3. CASE SetId(p)
      <3>1. sent' = [sent EXCEPT ![seq[p]] = MsgId(p)] /\ UNCHANGED harnessVars /\ pos' = pos
        BY <2>3 DEF SetId
      <3>2. sent[seq[p]] = NoSeq
        BY <2>3 DEF SetId, IndInv, WriteInv
      <3>3. \A s \in Ids : sent[s] # NoSeq => sent'[s] = sent[s]
        BY <3>1, <3>2 DEF IndInv, TypeOK
      <3> QED
        BY <3>1, <3>3, ReportFrame
    <2>4. CASE Publish(p)
      BY <2>4, ReportFrame DEF Publish
    <2>5. CASE FinishWrite(p)
      BY <2>5, FinishWriteReports
    <2> QED
      BY <1>2, <2>1, <2>2, <2>3, <2>4, <2>5 DEF Producer
  <1>3. ASSUME NEW r \in Readers, Reader(r)
        PROVE  ReportInv'
    <2>1. CASE WaitFor(r)
      BY <2>1, ReportFrame DEF WaitFor
    <2>2. CASE OnEvent(r)
      BY <2>2, ReportFrame DEF OnEvent
    <2>3. CASE StoreRecord(r)
      BY <2>3, StoreRecordReports
    <2>4. CASE Release(r)
      BY <2>4, ReportFrame DEF Release
    <2> QED
      BY <1>3, <2>1, <2>2, <2>3, <2>4 DEF Reader
  <1>4. CASE UNCHANGED vars
    BY <1>4, ReportFrame DEF vars
  <1> QED
    BY <1>1, <1>2, <1>3, <1>4 DEF Next, Exited

\* When some handler has seen everything, all records are there.
LEMMA SeenIsRecorded ==
  ASSUME IndInv, ReportInv, main = "report", NEW r \in Readers, ~(pos[r] < RecordCount),
         NEW a \in Actions, NEW id \in Ids
  PROVE  records[a][id] # NoRecord
  <1> USE DEF IndInv
  <1>1. PICK p \in Producers, k \in 0 .. Count - 1 : id = IdOf(p, k)
    BY IdOfCovers
  <1>2. ppc[p] = "done" /\ Finished(p) = Count
    BY DEF ReportInv, JoinedInv, ProducersDone, LoopInv
  <1>3. CASE a \in {"write_begin", "write_end"}
    BY <1>1, <1>2, <1>3, CountType DEF ReportInv, RecordInv, Recorded
  <1>4. CASE a = "read"
    <2>1. k < SentTo(p)
      BY <1>2, CountType DEF SentTo
    <2>2. PICK s \in Ids : sent[s] = id
      BY <1>1, <2>1 DEF SentInv
    <2>3. s < pos[r]
      BY CountType DEF TypeOK, Ids
    <2> QED
      BY <1>4, <2>2, <2>3 DEF ReportInv, RecordInv, Recorded
  <1> QED
    BY <1>3, <1>4 DEF Actions

\* A report fails only when there is nothing to report or when it runs before any
\* handler has seen everything: what the sleep of a second is to prevent is the only
\* way in which it can fail, for every number of threads and messages.
THEOREM FailsOnlyAhead == Spec => FailsOnlyWhenAhead
  <1>1. CASE NumReader > 0
    <2>1. Init => IndInv /\ ReportInv
      BY IndInit, ReportInit
    <2>2. IndInv /\ ReportInv /\ [Next]_vars => (IndInv /\ ReportInv)'
      BY <1>1, IndStep, ReportStep
    <2>3. IndInv /\ ReportInv /\ [Next]_vars =>
            [main = "report" /\ main' = "failed" =>
               RecordCount = 0 \/ \A r \in Readers : pos[r] < RecordCount]_vars
      <3> SUFFICES ASSUME IndInv, ReportInv, Next, main = "report", main' = "failed",
                          RecordCount # 0, NEW r \in Readers
                   PROVE  pos[r] < RecordCount
        OBVIOUS
      <3>1. GenReport
        BY DEF Next, Main, StartProducer, JoinProducer, Turn, NextPhase, Leave, WakeUp, Producer,
               BeginWrite, StampBegin, Claim, SetId, Publish, FinishWrite, EndWrite, Reader, WaitFor,
               OnEvent, StoreRecord, Release, Exited, vars, harnessVars, loopVars
      <3>2. \E a \in Actions, id \in Ids : records[a][id] = NoRecord
        BY <3>1 DEF GenReport
      <3> QED
        BY <3>2, SeenIsRecorded
    <2> QED
      BY <2>1, <2>2, <2>3, PTL DEF Spec, FailsOnlyWhenAhead
  <1>2. CASE ~(NumReader > 0)
    <2>1. Readers = {}
      BY <1>2 DEF Readers
    <2>2. [Next]_vars =>
            [main = "report" /\ main' = "failed" =>
               RecordCount = 0 \/ \A r \in Readers : pos[r] < RecordCount]_vars
      BY <2>1
    <2> QED
      BY <2>2, PTL DEF Spec, FailsOnlyWhenAhead
  <1> QED
    BY <1>1, <1>2

================================================================================
