----------------------------- MODULE PipeTrans_proof -----------------------------
(*******************************************************************************)
(* Proofs about one benchmark over a pipe or a socketpair, for every number of *)
(* producers and of messages and every size of the kernel's buffer: PipeInv is *)
(* inductive, and the pipe implements Transfer.                                *)
(*                                                                             *)
(* The argument is that of a queue: the messages of a writer stand in the pipe *)
(* in their order, behind what the consumer has of them, and all that was      *)
(* written is somewhere on that way.  The end message is the last because the  *)
(* main thread writes it when no producer can write any more.                  *)
(*******************************************************************************)
EXTENDS PipeTrans, SequenceTheorems, TLAPS

\* Threads are told apart from one another, and the end from every message.
LEMMA Threads ==
  /\ Producers \subseteq Nat
  /\ MainThread = -1 /\ MainThread \notin Producers /\ MainThread \in Writers
  /\ NoOne \notin Writers
  /\ EndMsg \notin Msgs /\ EndMsg[1] = MainThread /\ EndMsg[2] = 0
  /\ \A w \in Writers : w \in Producers \/ w = MainThread
  BY PipeAssumption DEF Producers, MainThread, Writers, NoOne, EndMsg, Msgs

\* A message is a producer and a number, and the end is the main thread's first.
LEMMA MessageParts ==
  ASSUME NEW m \in Msgs \cup {EndMsg}
  PROVE  /\ m[1] \in Writers /\ m[2] \in Nat /\ m = <<m[1], m[2]>>
         /\ m \in Msgs => m[1] \in Producers /\ m[2] \in 0 .. Count - 1
         /\ m \notin Msgs => m = EndMsg
  <1>1. CASE m \in Msgs
    BY <1>1, PipeAssumption DEF Msgs, Writers, Producers
  <1>2. CASE m = EndMsg
    BY <1>2, Threads DEF EndMsg
  <1> QED
    BY <1>1, <1>2

\* What a writer has written is a number.
LEMMA WrittenNat ==
  ASSUME TypeOK, NEW w \in Writers
  PROVE  Written(w) \in Nat /\ k[w] \in Nat /\ Total(w) \in Nat
  BY PipeAssumption DEF TypeOK, Written, Total

\* A step that moves no message keeps what is said of the messages.
LEMMA MessagesStay ==
  ASSUME PipeInv, UNCHANGED <<pipe, cpc, held, got>>,
         \A w \in Writers : Written(w)' = Written(w)
  PROVE  /\ PipeInSequence' /\ HeldInSequence' /\ GotInSequence'
         /\ NothingBehindEnd' /\ ReadInOrder'
  <1> USE DEF PipeInv
  <1>1. \A a \in 1 .. Len(pipe) : pipe[a] \in Msgs \cup {EndMsg}
    BY DEF TypeOK
  <1>2. \A m \in Msgs \cup {EndMsg} : m[1] \in Writers
    BY MessageParts
  <1>3. PipeInSequence' /\ HeldInSequence' /\ GotInSequence'
    <2>1. \A a \in 1 .. Len(pipe) : Written(pipe[a][1])' = Written(pipe[a][1])
      BY <1>1, <1>2
    <2>2. \A m \in got : Written(m[1])' = Written(m[1])
      BY <1>2 DEF TypeOK
    <2>3. Written(held[1])' = Written(held[1])
      BY <1>2 DEF TypeOK
    <2> QED
      BY <2>1, <2>2, <2>3 DEF PipeInSequence, HeldInSequence, GotInSequence, Follows
  <1>4. NothingBehindEnd'
    BY Threads DEF NothingBehindEnd
  <1>5. ReadInOrder'
    BY DEF ReadInOrder, InPipe, Writers
  <1> QED
    BY <1>3, <1>4, <1>5

--------------------------------------------------------------------------------

\* Taking the spinlock.
LEMMA LockKeeps ==
  ASSUME PipeInv, NEW w \in Writers, Lock(w)
  PROVE  PipeInv'
  <1> USE DEF PipeInv
  <1>1. /\ wpc[w] = "lock" /\ lock = NoOne /\ lock' = w
        /\ wpc' = [wpc EXCEPT ![w] = "write"]
        /\ UNCHANGED <<pipe, k, cpc, held, got>>
    BY DEF Lock, consumerVars
  <1>2. TypeOK'
    BY <1>1 DEF TypeOK
  <1>3. LockHeld'
    BY <1>1, Threads DEF LockHeld, TypeOK
  <1>4. WritesLeft'
    BY <1>1, Threads DEF WritesLeft, ProducersDone, TypeOK, Total, Writers
  <1>5. \A u \in Writers : Written(u)' = Written(u)
    BY <1>1 DEF Written, TypeOK
  <1> QED
    BY <1>1, <1>2, <1>3, <1>4, <1>5, MessagesStay

\* Releasing it: the message counts as written before and after.
LEMMA UnlockKeeps ==
  ASSUME PipeInv, NEW w \in Writers, Unlock(w)
  PROVE  PipeInv'
  <1> USE DEF PipeInv
  <1>1. /\ wpc[w] = "unlock" /\ lock' = NoOne
        /\ k' = [k EXCEPT ![w] = k[w] + 1]
        /\ wpc' = [wpc EXCEPT ![w] = IF k[w] + 1 < Total(w) THEN "lock" ELSE "done"]
        /\ UNCHANGED <<pipe, cpc, held, got>>
    BY DEF Unlock, consumerVars
  <1>2. k[w] \in Nat /\ Total(w) \in Nat /\ k[w] < Total(w) /\ lock = w
    BY <1>1, WrittenNat DEF WritesLeft, LockHeld
  <1>3. TypeOK'
    BY <1>1, <1>2 DEF TypeOK
  <1>4. LockHeld'
    BY <1>1, <1>2, Threads DEF LockHeld, TypeOK
  <1>5. WritesLeft'
    <2>1. wpc'[MainThread] # "wait" => wpc[MainThread] # "wait"
      BY <1>1, Threads DEF TypeOK
    <2>2. ProducersDone => ProducersDone'
      BY <1>1 DEF ProducersDone, TypeOK, Writers
    <2>3. ASSUME NEW u \in Writers
          PROVE  /\ wpc'[u] \in {"lock", "write", "unlock"} => k'[u] < Total(u)
                 /\ wpc'[u] = "done" => k'[u] = Total(u)
                 /\ wpc'[u] = "wait" => u = MainThread /\ k'[u] = 0
      <3>1. CASE u = w
        BY <1>1, <1>2, <3>1 DEF TypeOK
      <3>2. CASE u # w
        BY <1>1, <3>2 DEF TypeOK, WritesLeft
      <3> QED
        BY <3>1, <3>2
    <2> QED
      BY <2>1, <2>2, <2>3 DEF WritesLeft, Total
  <1>6. \A u \in Writers : Written(u)' = Written(u)
    BY <1>1, <1>2 DEF Written, TypeOK
  <1> QED
    BY <1>1, <1>3, <1>4, <1>5, <1>6, MessagesStay

\* The main thread starts when the producers are done.
LEMMA CompleteKeeps ==
  ASSUME PipeInv, Complete
  PROVE  PipeInv'
  <1> USE DEF PipeInv
  <1>1. /\ wpc[MainThread] = "wait" /\ ProducersDone
        /\ wpc' = [wpc EXCEPT ![MainThread] = "lock"]
        /\ UNCHANGED <<lock, pipe, k, cpc, held, got>>
    BY DEF Complete, consumerVars
  <1>2. TypeOK'
    BY <1>1, Threads DEF TypeOK
  <1>3. LockHeld'
    BY <1>1, Threads DEF LockHeld, TypeOK
  <1>4. WritesLeft'
    BY <1>1, Threads DEF WritesLeft, ProducersDone, TypeOK, Total, Writers
  <1>5. \A u \in Writers : Written(u)' = Written(u)
    BY <1>1, Threads DEF Written, TypeOK
  <1> QED
    BY <1>1, <1>2, <1>3, <1>4, <1>5, MessagesStay

\* Writing to the pipe: no end message is there yet, and the message of w follows
\* all that w has written before.
LEMMA WriteKeeps ==
  ASSUME PipeInv, NEW w \in Writers, Write(w)
  PROVE  PipeInv'
  <1> USE DEF PipeInv
  <1> DEFINE msg == <<w, k[w]>>
             last == Len(pipe) + 1
  <1>1. /\ wpc[w] = "write" /\ Len(pipe) < Capacity
        /\ pipe' = Append(pipe, msg)
        /\ wpc' = [wpc EXCEPT ![w] = "unlock"]
        /\ UNCHANGED <<lock, k, cpc, held, got>>
    BY DEF Write, HasRoom, consumerVars
  <1>2. k[w] \in Nat /\ k[w] < Total(w) /\ lock = w
    BY <1>1, WrittenNat DEF WritesLeft, LockHeld
  <1>3. msg \in Msgs \cup {EndMsg} /\ msg[1] = w /\ msg[2] = k[w]
    <2>1. CASE w \in Producers
      BY <1>2, <2>1, PipeAssumption, Threads DEF Total, Msgs
    <2>2. CASE w = MainThread
      BY <1>2, <2>2 DEF Total, EndMsg
    <2> QED
      BY <2>1, <2>2, Threads
  <1>4. /\ pipe \in Seq(Msgs \cup {EndMsg}) /\ Len(pipe) \in Nat
        /\ pipe' \in Seq(Msgs \cup {EndMsg}) /\ Len(pipe') = last
        /\ \A a \in 1 .. Len(pipe) : pipe'[a] = pipe[a]
        /\ pipe'[last] = msg
    <2>1. pipe \in Seq(Msgs \cup {EndMsg})
      BY DEF TypeOK
    <2> HIDE DEF msg
    <2> QED
      BY <1>1, <1>3, <2>1, AppendProperties
  <1> HIDE DEF msg
  <1>5. /\ \A u \in Writers : u # w => Written(u)' = Written(u)
        /\ Written(w) = k[w] /\ Written(w)' = k[w] + 1
        /\ \A u \in Writers : Written(u) <= Written(u)'
    BY <1>1, <1>2, WrittenNat DEF Written, TypeOK
  <1>6. TypeOK'
    BY <1>1, <1>4, PipeAssumption DEF TypeOK
  <1>7. LockHeld'
    BY <1>1, <1>2 DEF LockHeld, TypeOK
  <1>8. WritesLeft'
    <2>1. CASE w = MainThread
      BY <1>1, <1>2, <2>1, Threads DEF WritesLeft, ProducersDone, TypeOK, Total, Writers
    <2>2. CASE w \in Producers
      BY <1>1, <1>2, <2>2, Threads DEF WritesLeft, ProducersDone, TypeOK, Total, Writers
    <2> QED
      BY <2>1, <2>2, Threads
  <1>9. Written(MainThread) = 0
    <2>1. CASE w = MainThread
      BY <1>2, <1>5, <2>1 DEF Total
    <2>2. CASE w \in Producers
      BY <1>1, <2>2, Threads DEF WritesLeft, ProducersDone, Written
    <2> QED
      BY <2>1, <2>2, Threads
  <1>10. \A a \in 1 .. Len(pipe) :
           pipe[a] \in Msgs /\ pipe[a][1] \in Writers /\ pipe[a][2] < Written(pipe[a][1])
    <2>1. ASSUME NEW a \in 1 .. Len(pipe)
          PROVE  pipe[a] \in Msgs /\ pipe[a][1] \in Writers
      <3>1. pipe[a] \in Msgs \cup {EndMsg} /\ pipe[a][2] < Written(pipe[a][1])
        BY <1>4 DEF PipeInSequence
      <3>2. pipe[a] # EndMsg
        BY <1>9, <3>1, Threads
      <3> QED
        BY <3>1, <3>2, MessageParts
    <2> QED
      BY <2>1 DEF PipeInSequence
  <1>11. \A m \in Msgs : m[1] \in Writers /\ m[2] \in Nat
    BY MessageParts
  <1>12. ASSUME NEW m \in Msgs, m[2] < Written(m[1])
         PROVE  m[2] < Written(m[1])' /\ Follows(m, msg)
    BY <1>2, <1>3, <1>5, <1>11, <1>12, WrittenNat DEF Follows
  <1>13. ASSUME NEW m \in Msgs, m[2] < Written(m[1]),
                \A a \in 1 .. Len(pipe) : Follows(m, pipe[a])
         PROVE  \A a \in 1 .. Len(pipe') : Follows(m, pipe'[a])
    BY <1>4, <1>12, <1>13
  <1>14. PipeInSequence'
    <2>1. ASSUME NEW a \in 1 .. Len(pipe'), NEW m, m = pipe'[a]
          PROVE  m[2] < Written(m[1])'
      <3>1. CASE a = last
        BY <1>2, <1>3, <1>4, <1>5, <2>1, <3>1
      <3>2. CASE a # last
        BY <1>4, <1>10, <1>12, <2>1, <3>2
      <3> QED
        BY <3>1, <3>2
    <2>2. ASSUME NEW a \in 1 .. Len(pipe'), NEW b \in 1 .. Len(pipe'), a < b
          PROVE  Follows(pipe'[a], pipe'[b])
      <3>1. CASE b = last
        BY <1>4, <1>10, <1>12, <2>2, <3>1
      <3>2. CASE b # last
        BY <1>4, <2>2, <3>2 DEF PipeInSequence
      <3> QED
        BY <3>1, <3>2
    <2> QED
      BY <2>1, <2>2 DEF PipeInSequence, Written, Follows
  <1>15. HeldInSequence'
    <2>1. ASSUME cpc = "record", NEW m, m = held
          PROVE  /\ m \in Msgs /\ m[2] < Written(m[1])'
                 /\ \A a \in 1 .. Len(pipe') : Follows(m, pipe'[a])
      <3>1. /\ m \in Msgs /\ m[2] < Written(m[1])
            /\ \A a \in 1 .. Len(pipe) : Follows(m, pipe[a])
        BY <2>1 DEF HeldInSequence
      <3> QED
        BY <1>12, <1>13, <3>1
    <2> QED
      BY <1>1, <2>1 DEF HeldInSequence, Written, Follows
  <1>16. GotInSequence'
    <2>1. ASSUME NEW m \in got
          PROVE  /\ m[2] < Written(m[1])'
                 /\ \A a \in 1 .. Len(pipe') : Follows(m, pipe'[a])
                 /\ cpc = "record" => Follows(m, held)
      BY <1>12, <1>13, <2>1 DEF GotInSequence, TypeOK
    <2> QED
      BY <1>1, <2>1 DEF GotInSequence, Follows
  <1>17. NothingBehindEnd'
    <2>1. cpc # "done"
      BY <1>9 DEF NothingBehindEnd
    <2>2. ASSUME NEW a \in 1 .. Len(pipe)', pipe'[a] = EndMsg
          PROVE  a = Len(pipe)'
      BY <1>4, <1>10, <2>2, Threads
    <2> QED
      BY <1>1, <2>1, <2>2 DEF NothingBehindEnd
  <1>18. ReadInOrder'
    <2>1. ASSUME NEW p \in Producers, NEW j \in 0 .. Count - 1
          PROVE  j < Written(p)' => \/ <<p, j>> \in got
                                    \/ InPipe(<<p, j>>)'
                                    \/ cpc = "record" /\ held = <<p, j>>
      <3>1. InPipe(<<p, j>>) => InPipe(<<p, j>>)'
        BY <1>4 DEF InPipe
      <3>2. CASE j < Written(p)
        BY <3>1, <3>2 DEF ReadInOrder
      <3>3. CASE p = w /\ j = k[w]
        BY <1>4, <3>3 DEF InPipe, msg
      <3>4. CASE ~(j < Written(p)) /\ ~(p = w /\ j = k[w])
        BY <1>2, <1>5, <3>4, WrittenNat, PipeAssumption DEF Writers
      <3> QED
        BY <3>2, <3>3, <3>4
    <2> QED
      BY <1>1, <2>1 DEF ReadInOrder
  <1> QED
    BY <1>6, <1>7, <1>8, <1>14, <1>15, <1>16, <1>17, <1>18

\* Reading takes the oldest message, and finds nothing behind the end.
LEMMA ReadKeeps ==
  ASSUME PipeInv, Read
  PROVE  PipeInv'
  <1> USE DEF PipeInv
  <1>1. /\ cpc = "read" /\ pipe # <<>>
        /\ held' = Head(pipe) /\ pipe' = Tail(pipe)
        /\ cpc' = IF Head(pipe) = EndMsg THEN "done" ELSE "record"
        /\ UNCHANGED <<lock, wpc, k, got>>
    BY DEF Read, writerVars
  <1>2. pipe \in Seq(Msgs \cup {EndMsg})
    BY DEF TypeOK
  <1>3. /\ Len(pipe) \in Nat \ {0} /\ held' = pipe[1]
        /\ pipe' \in Seq(Msgs \cup {EndMsg}) /\ Len(pipe') = Len(pipe) - 1
        /\ \A a \in 1 .. Len(pipe') : pipe'[a] = pipe[a + 1]
    BY <1>1, <1>2, HeadTailProperties
  <1>4. \A a \in 1 .. Len(pipe) : pipe[a] \in Msgs \cup {EndMsg}
    BY <1>2
  <1>5. TypeOK'
    BY <1>1, <1>3, <1>4, PipeAssumption DEF TypeOK
  <1>6. LockHeld' /\ WritesLeft'
    BY <1>1 DEF LockHeld, WritesLeft, ProducersDone, Total
  <1>7. \A u \in Writers : Written(u)' = Written(u)
    BY <1>1 DEF Written
  <1>8. \A m \in Msgs \cup {EndMsg} : m[1] \in Writers
    BY MessageParts
  <1>9. PipeInSequence' /\ HeldInSequence' /\ GotInSequence'
    <2>1. PipeInSequence'
      BY <1>1, <1>3 DEF PipeInSequence, Written, Follows
    <2>2. HeldInSequence'
      BY <1>1, <1>3, <1>4 DEF HeldInSequence, PipeInSequence, Written, Follows
    <2>3. GotInSequence'
      BY <1>1, <1>3 DEF GotInSequence, Written, Follows
    <2> QED
      BY <2>1, <2>2, <2>3
  <1>10. ASSUME NEW p \in Producers, NEW j \in 0 .. Count - 1, j < Written(p)
         PROVE  \/ <<p, j>> \in got
                \/ InPipe(<<p, j>>)'
                \/ cpc' = "record" /\ held' = <<p, j>>
    <2>1. CASE <<p, j>> \in got
      BY <2>1
    <2>2. CASE InPipe(<<p, j>>)
      <3>1. PICK a \in 1 .. Len(pipe) : pipe[a] = <<p, j>>
        BY <2>2 DEF InPipe
      <3>2. <<p, j>> # EndMsg
        BY Threads DEF EndMsg
      <3>3. CASE a = 1
        BY <1>1, <1>3, <3>1, <3>2, <3>3
      <3>4. CASE a # 1
        <4>1. a - 1 \in 1 .. Len(pipe') /\ pipe'[a - 1] = <<p, j>>
          BY <1>3, <3>1, <3>4
        <4> QED
          BY <4>1 DEF InPipe
      <3> QED
        BY <3>3, <3>4
    <2> QED
      BY <1>1, <1>10, <2>1, <2>2 DEF ReadInOrder
  <1>11. ReadInOrder'
    BY <1>1, <1>7, <1>10 DEF ReadInOrder, Writers
  <1>12. NothingBehindEnd'
    <2>1. ASSUME NEW a \in 1 .. Len(pipe'), pipe'[a] = EndMsg
          PROVE  a = Len(pipe')
      BY <1>3, <2>1 DEF NothingBehindEnd
    <2>2. CASE Head(pipe) = EndMsg
      <3>1. pipe[1] = EndMsg /\ Len(pipe) = 1
        <4>1. pipe[1] = EndMsg /\ 1 \in 1 .. Len(pipe)
          BY <1>1, <1>3, <2>2
        <4> QED
          BY <4>1 DEF NothingBehindEnd
      <3>2. pipe' = <<>>
        BY <1>3, <3>1
      <3>3. Written(MainThread) > 0 /\ Written(MainThread) \in Nat
        BY <1>3, <3>1, Threads, WrittenNat DEF PipeInSequence
      <3>4. Written(MainThread) = 1 /\ ProducersDone
        BY <3>3, Threads, WrittenNat DEF WritesLeft, Written, Total, TypeOK
      <3>5. ASSUME NEW p \in Producers, NEW j \in 0 .. Count - 1
            PROVE  <<p, j>> \in got
        <4>1. Written(p) = Count
          BY <3>4, Threads DEF WritesLeft, ProducersDone, Written, Total, Writers
        <4>2. ~InPipe(<<p, j>>)
          BY <1>3, <3>1, Threads DEF InPipe, EndMsg
        <4> QED
          BY <1>1, <4>1, <4>2, PipeAssumption DEF ReadInOrder
      <3>6. got = Msgs
        BY <3>5 DEF TypeOK, Msgs
      <3> QED
        BY <1>1, <1>7, <2>1, <3>2, <3>4, <3>6, Threads DEF NothingBehindEnd, Msgs
    <2>3. CASE Head(pipe) # EndMsg
      BY <1>1, <2>1, <2>3 DEF NothingBehindEnd
    <2> QED
      BY <2>2, <2>3
  <1> QED
    BY <1>5, <1>6, <1>9, <1>11, <1>12

\* Recording: all that the writer has written before it is recorded already.
LEMMA RecordKeeps ==
  ASSUME PipeInv, Record
  PROVE  PipeInv'
  <1> USE DEF PipeInv
  <1>1. /\ cpc = "record" /\ cpc' = "read" /\ got' = got \cup {held}
        /\ UNCHANGED <<lock, pipe, wpc, k, held>>
    BY DEF Record, writerVars
  <1>2. held \in Msgs /\ held[2] < Written(held[1])
    BY <1>1 DEF HeldInSequence
  <1>3. \A u \in Writers : Written(u)' = Written(u)
    BY <1>1 DEF Written
  <1>4. \A m \in Msgs \cup {EndMsg} : m[1] \in Writers
    BY MessageParts
  <1>5. TypeOK'
    BY <1>1, <1>2 DEF TypeOK
  <1>6. LockHeld' /\ WritesLeft'
    BY <1>1 DEF LockHeld, WritesLeft, ProducersDone, Total
  <1>7. PipeInSequence' /\ HeldInSequence' /\ GotInSequence'
    <2>1. PipeInSequence' /\ HeldInSequence'
      BY <1>1 DEF PipeInSequence, HeldInSequence, Written, Follows
    <2>2. GotInSequence'
      BY <1>1, <1>2 DEF GotInSequence, HeldInSequence, Written, Follows
    <2> QED
      BY <2>1, <2>2
  <1>8. NothingBehindEnd'
    BY <1>1 DEF NothingBehindEnd
  <1>9. ReadInOrder'
    <2>1. PICK q \in Producers, i \in 0 .. Count - 1 : held = <<q, i>>
      BY <1>2 DEF Msgs
    <2>2. ASSUME NEW h \in 0 .. i PROVE <<q, h>> \in got'
      <3>1. CASE h = i
        BY <1>1, <2>1, <3>1
      <3>2. CASE h # i
        <4>1. h \in 0 .. Count - 1 /\ h < i /\ h < Written(q) /\ <<q, h>> # held
          BY <1>2, <2>1, <3>2, WrittenNat, PipeAssumption DEF Writers
        <4>2. ~InPipe(<<q, h>>)
          <5> SUFFICES ASSUME NEW a \in 1 .. Len(pipe), pipe[a] = <<q, h>> PROVE FALSE
            BY DEF InPipe
          <5>1. i < h
            BY <1>1, <2>1 DEF HeldInSequence, Follows
          <5> QED
            BY <4>1, <5>1
        <4> QED
          BY <1>1, <4>1, <4>2 DEF ReadInOrder
      <3> QED
        BY <3>1, <3>2
    <2>3. ASSUME NEW p \in Producers, NEW j \in 0 .. Count - 1, <<p, j>> \in got',
                 NEW h \in 0 .. j
          PROVE  <<p, h>> \in got'
      <3>1. CASE <<p, j>> \in got
        BY <1>1, <3>1 DEF ReadInOrder
      <3>2. CASE <<p, j>> = held
        BY <2>1, <2>2, <3>2
      <3> QED
        BY <1>1, <2>3, <3>1, <3>2
    <2>4. ASSUME NEW p \in Producers, NEW j \in 0 .. Count - 1, j < Written(p)'
          PROVE  <<p, j>> \in got' \/ InPipe(<<p, j>>)'
      BY <1>1, <1>3, <2>4 DEF ReadInOrder, InPipe, Writers
    <2> QED
      BY <2>3, <2>4 DEF ReadInOrder
  <1> QED
    BY <1>5, <1>6, <1>7, <1>8, <1>9

--------------------------------------------------------------------------------

\* Nothing is written or read at first.
LEMMA InitKeeps ==
  ASSUME Init
  PROVE  PipeInv
  <1> USE Threads, PipeAssumption DEF Init
  <1>1. TypeOK
    BY DEF TypeOK, Writers
  <1>2. LockHeld /\ WritesLeft
    BY DEF LockHeld, WritesLeft, ProducersDone, Total, Writers
  <1>3. PipeInSequence /\ HeldInSequence /\ GotInSequence /\ NothingBehindEnd
    BY DEF PipeInSequence, HeldInSequence, GotInSequence, NothingBehindEnd
  <1>4. ReadInOrder
    BY DEF ReadInOrder, Written, Writers
  <1> QED
    BY <1>1, <1>2, <1>3, <1>4 DEF PipeInv

\* Every step keeps the invariant.
LEMMA StepKeeps ==
  ASSUME PipeInv, [Next]_vars
  PROVE  PipeInv'
  <1>1. CASE \E w \in Writers : Writer(w)
    BY <1>1, LockKeeps, WriteKeeps, UnlockKeeps DEF Writer
  <1>2. CASE UNCHANGED vars
    <2>1. \A w \in Writers : Written(w)' = Written(w)
      BY <1>2 DEF vars, Written
    <2>2. TypeOK' /\ LockHeld' /\ WritesLeft'
      BY <1>2 DEF vars, PipeInv, TypeOK, LockHeld, WritesLeft, ProducersDone, Total
    <2> QED
      BY <1>2, <2>1, <2>2, MessagesStay DEF vars, PipeInv
  <1> QED
    BY <1>1, <1>2, ReadKeeps, RecordKeeps, CompleteKeeps DEF Next, Exited

\* Whatever is written through the pipe is read in the order of its writer and
\* before the consumer stops, for every number of producers and of messages and
\* however few of them the kernel holds.
THEOREM NothingLostInPipe == Spec => []PipeInv
  BY InitKeeps, StepKeeps, PTL DEF Spec

--------------------------------------------------------------------------------
(* The pipe implements Transfer.                                               *)

\* How far a message has got follows from what its producer has written and from
\* what the consumer has recorded.
Known(m) ==
  IF m \in got THEN "read" ELSE IF m[2] < Written(m[1]) THEN "inflight" ELSE "unsent"

LEMMA ProgressKnown ==
  ASSUME PipeInv
  PROVE  \A m \in Msgs : Progress(m) = Known(m)
  <1> SUFFICES ASSUME NEW m \in Msgs PROVE Progress(m) = Known(m)
    OBVIOUS
  <1>1. /\ m[1] \in Producers /\ m[2] \in 0 .. Count - 1 /\ m = <<m[1], m[2]>>
    BY MessageParts
  <1>2. m[2] < Written(m[1]) => m \in got \/ InPipe(m) \/ (cpc = "record" /\ held = m)
    BY <1>1 DEF PipeInv, ReadInOrder
  <1>3. InPipe(m) \/ (cpc = "record" /\ held = m) => m[2] < Written(m[1])
    BY DEF InPipe, PipeInv, PipeInSequence, HeldInSequence
  <1> QED
    BY <1>2, <1>3 DEF Progress, Known

\* The same in the next state.
LEMMA ProgressKnownNext ==
  ASSUME PipeInv', NEW m \in Msgs
  PROVE  Progress(m)' = Known(m)'
  <1>1. m[1] \in Producers /\ m[2] \in 0 .. Count - 1 /\ m = <<m[1], m[2]>>
    BY MessageParts
  <1>2. m[2] < Written(m[1])' => m \in got' \/ InPipe(m)' \/ (cpc' = "record" /\ held' = m)
    BY <1>1 DEF PipeInv, ReadInOrder
  <1>3. InPipe(m)' => m[2] < Written(m[1])'
    BY DEF InPipe, PipeInv, PipeInSequence, Written
  <1>4. cpc' = "record" /\ held' = m => m[2] < Written(m[1])'
    BY DEF PipeInv, HeldInSequence, Written
  <1> QED
    BY <1>2, <1>3, <1>4 DEF Progress, Known

\* All messages are read when the consumer has stopped.
LEMMA DoneMeansRead ==
  ASSUME PipeInv, cpc = "done"
  PROVE  \A m \in Msgs : Progress(m) = "read"
  BY DEF PipeInv, NothingBehindEnd, Progress

\* A step in which no message moves leaves Transfer alone, or closes it.
LEMMA StayStep ==
  ASSUME PipeInv, PipeInv', ~Over, got' = got,
         \A p \in Producers : Written(p)' = Written(p)
  PROVE  T!Close \/ UNCHANGED T!vars
  <1>1. ASSUME NEW m \in Msgs
        PROVE  Progress(m)' = Progress(m)
    <2>1. m[1] \in Producers
      BY MessageParts
    <2>2. Known(m)' = Known(m)
      BY <2>1 DEF Known
    <2> QED
      BY <2>2, ProgressKnown, ProgressKnownNext
  <1>2. [m \in Msgs |-> Progress(m)]' = [m \in Msgs |-> Progress(m)]
    BY <1>1 DEF Msgs
  <1>3. CASE Over'
    <2>1. \A m \in Msgs : m \in got
      BY <1>3 DEF Over, PipeInv, NothingBehindEnd, Msgs
    <2>2. \A m \in Msgs : Progress(m) = "read"
      BY <2>1 DEF Progress
    <2> QED
      BY <1>2, <1>3, <2>2 DEF T!Close
  <1>4. CASE ~Over'
    BY <1>2, <1>4 DEF T!vars, Over
  <1> QED
    BY <1>3, <1>4

\* One message moves, all others stay.
LEMMA MoveStep ==
  ASSUME PipeInv, PipeInv', ~Over, ~Over', NEW msg \in Msgs,
         NEW from, NEW to, Known(msg) = from, Known(msg)' = to,
         \A m \in Msgs : m # msg => Known(m)' = Known(m)
  PROVE  T!Move(msg, from, to)
  <1>1. \A m \in Msgs : m # msg => Progress(m)' = Progress(m)
    BY ProgressKnown, ProgressKnownNext
  <1>2. Progress(msg) = from /\ Progress(msg)' = to
    BY ProgressKnown, ProgressKnownNext
  <1>3. [m \in Msgs |-> Progress(m)]' = [[m \in Msgs |-> Progress(m)] EXCEPT ![msg] = to]
    BY <1>1, <1>2 DEF Msgs
  <1> QED
    BY <1>2, <1>3 DEF T!Move, Over

\* Writing a producer's message sends it.
LEMMA WriteSends ==
  ASSUME PipeInv, PipeInv', NEW w \in Producers, Write(w)
  PROVE  \E m \in Msgs : T!Send(m)
  <1>1. wpc[w] = "write" /\ k' = k /\ got' = got /\ wpc' = [wpc EXCEPT ![w] = "unlock"]
    BY DEF Write, consumerVars
  <1>2. w \in Writers /\ k[w] \in Nat /\ k[w] < Count
    BY <1>1, Threads, WrittenNat DEF Writers, PipeInv, WritesLeft, Total
  <1> DEFINE msg == <<w, k[w]>>
  <1>3. msg \in Msgs /\ msg[1] = w /\ msg[2] = k[w]
    BY <1>2, PipeAssumption DEF Msgs
  <1>4. Written(w) = k[w] /\ Written(w)' = k[w] + 1
    BY <1>1, <1>2 DEF Written, PipeInv, TypeOK
  <1>5. ~Over /\ ~Over'
    BY <1>1, Threads DEF Over, PipeInv, WritesLeft, ProducersDone
  <1>6. msg \notin got
    BY <1>2, <1>3, <1>4 DEF PipeInv, GotInSequence
  <1> HIDE DEF msg
  <1>7. PICK m \in Msgs : m = msg
    BY <1>3
  <1>8. Known(m) = "unsent" /\ Known(m)' = "inflight"
    BY <1>1, <1>2, <1>3, <1>4, <1>6, <1>7 DEF Known
  <1>9. ASSUME NEW n \in Msgs, n # m
        PROVE  Known(n)' = Known(n)
    <2>1. n[1] \in Producers /\ n[2] \in Nat /\ n = <<n[1], n[2]>>
      BY MessageParts
    <2>2. CASE n[1] # w
      BY <1>1, <2>1, <2>2 DEF Known, Written, PipeInv, TypeOK, Writers
    <2>3. CASE n[1] = w
      <3>1. n[2] # k[w]
        BY <1>7, <1>9, <2>1, <2>3 DEF msg
      <3>2. n[2] < k[w] <=> n[2] < k[w] + 1
        BY <1>2, <2>1, <3>1
      <3> QED
        BY <1>1, <1>4, <2>3, <3>2 DEF Known
    <2> QED
      BY <2>2, <2>3
  <1>10. T!Move(m, "unsent", "inflight")
    BY <1>5, <1>8, <1>9, MoveStep
  <1> QED
    BY <1>10 DEF T!Send

\* Recording a message reads it.
LEMMA RecordReads ==
  ASSUME PipeInv, PipeInv', Record
  PROVE  \E m \in Msgs : T!Read(m)
  <1>1. /\ cpc = "record" /\ cpc' = "read" /\ got' = got \cup {held}
        /\ UNCHANGED <<wpc, k>>
    BY DEF Record, writerVars
  <1>2. PICK m \in Msgs : m = held /\ m[2] < Written(m[1])
    BY <1>1 DEF PipeInv, HeldInSequence
  <1>3. m[2] \in Nat
    BY MessageParts
  <1>4. m \notin got
    BY <1>1, <1>2, <1>3 DEF PipeInv, GotInSequence, Follows
  <1>5. Known(m) = "inflight" /\ Known(m)' = "read"
    BY <1>1, <1>2, <1>4 DEF Known
  <1>6. \A n \in Msgs : n # m => Known(n)' = Known(n)
    BY <1>1, <1>2 DEF Known, Written
  <1>7. T!Move(m, "inflight", "read")
    BY <1>1, <1>5, <1>6, MoveStep DEF Over
  <1> QED
    BY <1>7 DEF T!Read

LEMMA TransferInit ==
  ASSUME Init
  PROVE  T!Init
  <1>1. \A m \in Msgs : Progress(m) = "unsent"
    BY DEF Init, Progress, InPipe
  <1> QED
    BY <1>1 DEF Init, Over, T!Init

LEMMA TransferStep ==
  ASSUME PipeInv, PipeInv', [Next]_vars
  PROVE  [T!Next]_(T!vars)
  <1>1. CASE UNCHANGED vars
    <2>1. \A m : Progress(m)' = Progress(m)
      BY <1>1 DEF vars, Progress, InPipe
    <2> QED
      BY <1>1, <2>1 DEF vars, T!vars, Over, Msgs
  <1>2. ASSUME NEW w \in Writers, Lock(w) \/ Unlock(w) \/ (Write(w) /\ w = MainThread)
        PROVE  T!Close \/ UNCHANGED T!vars
    <2>1. ~Over
      BY <1>2, Threads DEF Lock, Unlock, Write, Over, PipeInv, WritesLeft, ProducersDone
    <2>2. got' = got
      BY <1>2 DEF Lock, Unlock, Write, consumerVars
    <2>3. \A p \in Producers : Written(p)' = Written(p)
      BY <1>2, Threads DEF Lock, Unlock, Write, Written, PipeInv, TypeOK, Writers
    <2> QED
      BY <2>1, <2>2, <2>3, StayStep
  <1>3. ASSUME Read \/ Complete
        PROVE  T!Close \/ UNCHANGED T!vars
    <2>1. ~Over /\ got' = got
      BY <1>3 DEF Read, Complete, Over, consumerVars, writerVars
    <2>2. \A p \in Producers : Written(p)' = Written(p)
      BY <1>3, Threads DEF Read, Complete, writerVars, Written, PipeInv, TypeOK, Writers
    <2> QED
      BY <2>1, <2>2, StayStep
  <1>4. ASSUME NEW w \in Writers, Writer(w)
        PROVE  T!Next \/ UNCHANGED T!vars
    BY <1>2, <1>4, WriteSends, Threads DEF Writer, T!Next
  <1> QED
    BY <1>1, <1>3, <1>4, RecordReads DEF Next, Exited, T!Next

\* One benchmark over the pipe implements Transfer: each message is sent once, then
\* read once, and the reports come after all.
THEOREM PipeImplementsTransfer == Spec => TransferSpec
  <1>1. Spec => T!Init
    BY TransferInit, PTL DEF Spec
  <1>2. Spec => [][T!Next]_(T!vars)
    BY NothingLostInPipe, TransferStep, PTL DEF Spec
  <1> QED
    BY <1>1, <1>2, PTL DEF TransferSpec, T!Spec

================================================================================
