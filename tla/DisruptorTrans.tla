----------------------------- MODULE DisruptorTrans -----------------------------
(*******************************************************************************)
(* One benchmark of LatencyBenchmarkDisruptor: the producers of the common     *)
(* harness write into the ring buffer of an LMAX disruptor, and every event    *)
(* handler added with handleEventsWith sees every message.  The harness has no *)
(* consumer threads here; the main thread joins the producers, sleeps one      *)
(* second and generates the report.                                            *)
(*                                                                             *)
(* The disruptor is a library and modelled as the benchmark uses it: next()    *)
(* claims the sequence after the last claimed one and waits while its slot     *)
(* still belongs to a sequence some handler has not passed; publish() makes    *)
(* the sequence available; a handler's thread takes all contiguous available   *)
(* sequences as a batch and passes them when the batch is done.                *)
(*                                                                             *)
(* The threads of the handlers are daemons, which nobody joins: they end with  *)
(* the process, when genReport throws or main returns.  When other benchmarks  *)
(* follow they go on, with a ring and records that nobody looks at any more.   *)
(* The model ends with the report.                                             *)
(*******************************************************************************)
EXTENDS ThreadTrans

CONSTANTS
  NumReader,   \* handlers of the disruptor, consumerNum of the grid
  Capacity     \* config.capacity, the size of the ring buffer

\* The library wants a power of two, of which the model needs nothing.
ASSUME RingAssumption ==
  /\ NumReader \in Nat
  /\ Capacity \in Nat \ {0}

Readers == 0 .. NumReader - 1
Slots   == 0 .. Capacity - 1
NoSeq   == -1

VARIABLES
  claimed,   \* the next sequence to claim
  wpc,       \* where each producer is in write()
  seq,       \* the sequence each producer has claimed last
  ring,      \* msg.id of the event in each slot
  avail,     \* the sequence published last in each slot
  rpc,       \* what each reader does next
  rstamp,    \* nanoTime of each reader
  pos,       \* the next sequence of each reader
  last,      \* the last sequence of each reader's batch
  passed,    \* the sequence up to which each reader has released the ring
  sent       \* history: the id written under each sequence

writeVars  == <<claimed, wpc, seq, ring, avail, sent>>
readerVars == <<rpc, rstamp, pos, last, passed>>
vars == <<main, n, ppc, round, i, beg, stamps, records,
          claimed, wpc, seq, ring, avail, rpc, rstamp, pos, last, passed, sent>>

TypeOK ==
  /\ HarnessTypeOK
  /\ main \in {"producers", "joinProducers", "sleep", "report", "finished", "failed"}
  /\ claimed \in 0 .. RecordCount
  /\ wpc \in [Producers -> {"next", "set", "publish"}]
  /\ seq \in [Producers -> Ids \cup {NoSeq}]
  /\ ring \in [Slots -> Ids \cup {0}]
  /\ avail \in [Slots -> Ids \cup {NoSeq}]
  /\ rpc \in [Readers -> {"wait", "event", "store", "release"}]
  /\ rstamp \in [Readers -> Nat]
  /\ pos \in [Readers -> 0 .. RecordCount]
  /\ last \in [Readers -> Ids \cup {NoSeq}]
  /\ passed \in [Readers -> Ids \cup {NoSeq}]
  /\ sent \in [Ids -> Ids \cup {NoSeq}]

Init ==
  /\ HarnessInit("producers")
  /\ claimed = 0
  /\ wpc = [p \in Producers |-> "next"]
  /\ seq = [p \in Producers |-> NoSeq]
  /\ ring = [s \in Slots |-> 0]
  /\ avail = [s \in Slots |-> NoSeq]
  /\ rpc = [r \in Readers |-> "wait"]
  /\ rstamp = [r \in Readers |-> 0]
  /\ pos = [r \in Readers |-> 0]
  /\ last = [r \in Readers |-> NoSeq]
  /\ passed = [r \in Readers |-> NoSeq]
  /\ sent = [s \in Ids |-> NoSeq]

SlotOf(s) == s % Capacity

Available(s) == avail[SlotOf(s)] = s

--------------------------------------------------------------------------------
(* Producer p.                                                                 *)

BeginWrite(p) == StampBegin(p) /\ UNCHANGED <<writeVars, readerVars>>

\* Fault: a slot is free when the first handler has passed it.
HasRoomForOne(s) == NumReader = 0 \/ \E r \in Readers : s - Capacity <= passed[r]

\* The slot of s is free once every handler has passed the sequence before s in it.
HasRoom(s) == \A r \in Readers : s - Capacity <= passed[r]

Claim(p) ==
  /\ ppc[p] = "write"
  /\ wpc[p] = "next"
  /\ HasRoom(claimed)
  /\ seq' = [seq EXCEPT ![p] = claimed]
  /\ claimed' = claimed + 1
  /\ wpc' = [wpc EXCEPT ![p] = "set"]
  /\ UNCHANGED <<harnessVars, ring, avail, sent, readerVars>>

SetId(p) ==
  /\ ppc[p] = "write"
  /\ wpc[p] = "set"
  /\ ring' = [ring EXCEPT ![SlotOf(seq[p])] = MsgId(p)]
  /\ sent' = [sent EXCEPT ![seq[p]] = MsgId(p)]
  /\ wpc' = [wpc EXCEPT ![p] = "publish"]
  /\ UNCHANGED <<harnessVars, claimed, seq, avail, readerVars>>

\* Fault: the newest sequence is published.
PublishNewest(p) ==
  /\ ppc[p] = "write"
  /\ wpc[p] = "publish"
  /\ avail' = [avail EXCEPT ![SlotOf(claimed - 1)] = claimed - 1]
  /\ wpc' = [wpc EXCEPT ![p] = "next"]
  /\ ppc' = [ppc EXCEPT ![p] = "end"]
  /\ UNCHANGED <<loopVars, round, i, beg, recordVars, claimed, seq, ring, sent, readerVars>>

Publish(p) ==
  /\ ppc[p] = "write"
  /\ wpc[p] = "publish"
  /\ avail' = [avail EXCEPT ![SlotOf(seq[p])] = seq[p]]
  /\ wpc' = [wpc EXCEPT ![p] = "next"]
  /\ ppc' = [ppc EXCEPT ![p] = "end"]
  /\ UNCHANGED <<loopVars, round, i, beg, recordVars, claimed, seq, ring, sent, readerVars>>

FinishWrite(p) == EndWrite(p) /\ UNCHANGED <<writeVars, readerVars>>

--------------------------------------------------------------------------------
(* The thread of handler r.                                                    *)

\* s is the last sequence of the contiguous published ones from pos[r].
BatchEnd(r, s) ==
  /\ \A t \in pos[r] .. s : Available(t)
  /\ ~Available(s + 1)

WaitFor(r) ==
  /\ rpc[r] = "wait"
  /\ \E s \in pos[r] .. claimed - 1 :
       /\ BatchEnd(r, s)
       /\ last' = [last EXCEPT ![r] = s]
  /\ rpc' = [rpc EXCEPT ![r] = "event"]
  /\ UNCHANGED <<harnessVars, writeVars, rstamp, pos, passed>>

\* The sequence is seen; the batch goes on or is over.
NextEvent(r) ==
  /\ pos' = [pos EXCEPT ![r] = @ + 1]
  /\ rpc' = [rpc EXCEPT ![r] = IF pos[r] = last[r] THEN "release" ELSE "event"]

\* No producer sends an event with id -1.
OnEvent(r) ==
  /\ rpc[r] = "event"
  /\ LET id == ring[SlotOf(pos[r])]
     IN  /\ rstamp' = [rstamp EXCEPT ![r] = stamps[id]]
         /\ stamps' = [stamps EXCEPT ![id] = @ + 1]
  /\ rpc' = [rpc EXCEPT ![r] = "store"]
  /\ UNCHANGED <<loopVars, producerVars, records, writeVars, pos, last, passed>>

\* The handlers share one record array: each overwrites what the others stored.
StoreRecord(r) ==
  /\ rpc[r] = "store"
  /\ records' = [records EXCEPT !["read"][ring[SlotOf(pos[r])]] = rstamp[r]]
  /\ NextEvent(r)
  /\ UNCHANGED <<loopVars, producerVars, stamps, writeVars, rstamp, last, passed>>

Release(r) ==
  /\ rpc[r] = "release"
  /\ passed' = [passed EXCEPT ![r] = last[r]]
  /\ rpc' = [rpc EXCEPT ![r] = "wait"]
  /\ UNCHANGED <<harnessVars, writeVars, rstamp, pos, last>>

--------------------------------------------------------------------------------
(* The main thread: no consumers to start or to join, no completed callback.   *)

NextPhase ==
  /\ \/ Leave("producers", NumProducer, "joinProducers")
     \/ Leave("joinProducers", NumProducer, "sleep")
  /\ UNCHANGED <<producerVars, recordVars, writeVars, readerVars>>

\* The second of sleep is over, whatever the handlers have seen by then.
WakeUp ==
  /\ main = "sleep"
  /\ main' = "report"
  /\ UNCHANGED <<n, producerVars, recordVars, writeVars, readerVars>>

Main ==
  \/ (StartProducer \/ JoinProducer \/ GenReport) /\ UNCHANGED <<writeVars, readerVars>>
  \/ NextPhase
  \/ WakeUp

Producer(p) == BeginWrite(p) \/ Claim(p) \/ SetId(p) \/ Publish(p) \/ FinishWrite(p)

Reader(r) ==
  /\ ~ReportOver
  /\ WaitFor(r) \/ OnEvent(r) \/ StoreRecord(r) \/ Release(r)

Exited == ReportOver /\ UNCHANGED vars

Next ==
  \/ Main
  \/ \E p \in Producers : Producer(p)
  \/ \E r \in Readers : Reader(r)
  \/ Exited

Spec == Init /\ [][Next]_vars

\* Some thread that can go on goes on.  No loop here runs without end, so nothing
\* need be said about which.
FairSpec ==
  /\ Spec
  /\ WF_vars(Main \/ (\E p \in Producers : Producer(p)) \/ (\E r \in Readers : Reader(r)))

--------------------------------------------------------------------------------
(* Properties.                                                                 *)

\* The event a handler is about to see, or works on, is the one its sequence was
\* claimed for: no producer overwrites a slot that some handler has not released.
EventIntact ==
  \A r \in Readers : rpc[r] \in {"event", "store"} =>
    \A s \in pos[r] .. last[r] : sent[s] # NoSeq /\ ring[SlotOf(s)] = sent[s]

\* Producers that write at the same time write into different slots.
SlotsDistinct ==
  \A p, q \in Producers :
    /\ wpc[p] # "next" /\ wpc[q] # "next"
    /\ SlotOf(seq[p]) = SlotOf(seq[q])
    => p = q

\* A handler never passes what it has not seen, and never falls more than the
\* ring behind what has been claimed.
GateHolds ==
  \A r \in Readers : passed[r] < pos[r] /\ claimed - Capacity <= passed[r] + 1

\* A sequence that was claimed first may be published last, and hides later ones
\* until then.  When all producers are done no such gap is left: a handler that
\* has not seen everything finds its next sequence.
GapsClosed ==
  ProducersDone =>
    \A r \in Readers : pos[r] < RecordCount => Available(pos[r])

\* The read record of a message is that of some handler, stamped after the
\* message's write began, however late the other handlers overwrite it.
ReadAfterBegin ==
  \A id \in Ids :
    Recorded("read", id) /\ Recorded("write_begin", id)
      => records["write_begin"][id] < records["read"][id]

\* The ring as the producers and the handlers share it, and what the report reads.
RingInv ==
  /\ TypeOK
  /\ EventIntact
  /\ SlotsDistinct
  /\ GateHolds
  /\ GapsClosed
  /\ ReadAfterBegin

\* The report fails only when it runs ahead of every handler for some message,
\* or when there is nothing to report.
FailsOnlyWhenAhead ==
  [][main = "report" /\ main' = "failed" =>
       RecordCount = 0 \/ \A r \in Readers : pos[r] < RecordCount]_vars

\* Every handler sees every message, unless the report is over before and its thread
\* may die: producers that wait for handlers and handlers that wait for a sequence
\* which is claimed and not yet published do not end up waiting for each other.
AllSeenUnlessOver == <>((\A r \in Readers : pos[r] = RecordCount) \/ ReportOver)

\* "wait consumer completed" (line 136): the sleep outlasts the handlers.
ConsumersCompleted ==
  main \in {"report", "finished", "failed"} => \A r \in Readers : pos[r] = RecordCount

--------------------------------------------------------------------------------
(* The inductive invariant behind these.                                       *)

InHand(p) == wpc[p] # "next"

\* How many of its messages producer p has written into the ring.
SentTo(p) ==
  IF ppc[p] = "end" \/ wpc[p] = "publish" THEN Finished(p) + 1 ELSE Finished(p)

\* A producer that is still to be started has done nothing.
StartInv == main = "producers" => \A p \in Producers : p >= n => ppc[p] = "unborn"

\* A sequence is in the hands of one producer between claim and publish.
WriteInv ==
  /\ \A p \in Producers :
       /\ InHand(p) => ppc[p] = "write" /\ seq[p] \in 0 .. claimed - 1
       /\ wpc[p] = "set" => sent[seq[p]] = NoSeq
       /\ wpc[p] = "publish" => sent[seq[p]] = MsgId(p)
  /\ \A p, q \in Producers : InHand(p) /\ InHand(q) /\ seq[p] = seq[q] => p = q

\* Sequences are claimed in their order, and a message is sent under one of them.
SentInv ==
  /\ \A s \in Ids :
       s < claimed <=> sent[s] # NoSeq \/ \E p \in Producers : wpc[p] = "set" /\ seq[p] = s
  /\ \A s, t \in Ids : sent[s] = sent[t] /\ sent[s] # NoSeq => s = t
  /\ \A p \in Producers, k \in 0 .. Count - 1 :
       k < SentTo(p) <=> \E s \in Ids : sent[s] = IdOf(p, k)

\* The slots of the last Capacity sequences hold them, unless a producer does.
SlotInv ==
  /\ \A s \in Ids : s < claimed /\ claimed <= s + Capacity =>
       /\ sent[s] # NoSeq => ring[SlotOf(s)] = sent[s]
       /\ Available(s) \/ \E p \in Producers : InHand(p) /\ seq[p] = s
  /\ \A l \in Slots : avail[l] # NoSeq =>
       /\ avail[l] < claimed
       /\ sent[avail[l]] # NoSeq
       /\ \A p \in Producers : InHand(p) => seq[p] # avail[l]

\* A handler is behind every sequence that is in the hands of a producer.
ReaderInv ==
  \A r \in Readers :
    /\ pos[r] <= claimed
    /\ rpc[r] = "wait" => pos[r] = passed[r] + 1
    /\ rpc[r] \in {"event", "store"} => pos[r] <= last[r]
    /\ rpc[r] = "release" => pos[r] = last[r] + 1
    /\ rpc[r] # "wait" => last[r] < claimed
    /\ \A p \in Producers : InHand(p) => pos[r] <= seq[p] /\ (rpc[r] # "wait" => last[r] < seq[p])

\* Stamp b of message id is before all that follow.
Precedes(b, id) ==
  /\ b < stamps[id]
  /\ Recorded("read", id) => b < records["read"][id]
  /\ \A r \in Readers : rpc[r] = "store" /\ sent[pos[r]] = id => b < rstamp[r]

\* The stamp with which a write began does, and what a handler has read is sent.
StampInv ==
  /\ \A p \in Producers : ppc[p] \in {"write", "end"} => Precedes(beg[p], MsgId(p))
  /\ \A id \in Ids :
       /\ Recorded("write_begin", id) => Precedes(records["write_begin"][id], id)
       /\ Recorded("read", id) => \E s \in Ids : sent[s] = id

\* With at least one handler these are inductive, and RingInv follows from them.
IndInv ==
  /\ TypeOK
  /\ LoopInv
  /\ StartInv
  /\ WriteInv
  /\ SentInv
  /\ SlotInv
  /\ ReaderInv
  /\ GateHolds
  /\ EventIntact
  /\ StampInv

\* The producers that the main thread has joined are done.
JoinedInv ==
  /\ main = "joinProducers" => \A p \in Producers : p < n => ppc[p] = "done"
  /\ main \in {"sleep", "report", "finished", "failed"} => ProducersDone

\* What a producer has finished has both of its records, and what a handler has seen
\* the third.
RecordInv ==
  /\ \A p \in Producers, k \in 0 .. Count - 1, a \in {"write_begin", "write_end"} :
       k < Finished(p) => Recorded(a, IdOf(p, k))
  /\ \A r \in Readers, s \in Ids :
       s < pos[r] => sent[s] # NoSeq /\ Recorded("read", sent[s])

\* With these the report fails for no other reason than FailsOnlyWhenAhead names.
ReportInv == JoinedInv /\ RecordInv

================================================================================
