------------------------------- MODULE PipeTrans -------------------------------
(*******************************************************************************)
(* One benchmark of c/benchmark/pipe, and of c/benchmark/unix_socketpair, which *)
(* is the same program over a stream socket: producers and, at the end, the    *)
(* main thread write pointers under a spinlock into a kernel buffer of bounded *)
(* size; one consumer polls the other end.                                     *)
(*                                                                             *)
(* A pointer is below PIPE_BUF, so it is written and read as a whole.  write() *)
(* blocks while the buffer is full, and its caller holds the spinlock then.    *)
(* read() does not block: a turn of its loop that finds nothing changes        *)
(* nothing.  The harness that calls write and read is in a submodule; it is    *)
(* modelled as these programs use it: it joins the producers, calls            *)
(* producer_complete_cb, and joins the consumer, which stops at the message    *)
(* with id UINT64_MAX.                                                         *)
(*******************************************************************************)
EXTENDS Integers, Sequences

CONSTANTS
  NumProducer,   \* config.producer
  Count,         \* messages of each producer
  Capacity       \* pointers the kernel buffers

ASSUME PipeAssumption ==
  /\ NumProducer \in Nat
  /\ Count \in Nat
  /\ Capacity \in Nat \ {0}

Producers == 0 .. NumProducer - 1
MainThread == -1
Writers == Producers \cup {MainThread}

NoOne  == -2
EndMsg == <<MainThread, 0>>
Msgs   == Producers \X (0 .. Count - 1)

VARIABLES
  lock,    \* the writer that holds spinlock
  pipe,    \* the pointers in the kernel's buffer
  wpc,     \* what each writer does next
  k,       \* messages each writer has written
  cpc,     \* what the consumer does next
  held,    \* the message the consumer has read last
  got      \* the messages the consumer has recorded

writerVars   == <<wpc, k>>
consumerVars == <<cpc, held, got>>
vars == <<lock, pipe, wpc, k, cpc, held, got>>

TypeOK ==
  /\ lock \in Writers \cup {NoOne}
  /\ pipe \in Seq(Msgs \cup {EndMsg})
  /\ Len(pipe) <= Capacity
  /\ wpc \in [Writers -> {"wait", "lock", "write", "unlock", "done"}]
  /\ k \in [Writers -> Nat]
  /\ cpc \in {"read", "record", "done"}
  /\ held \in Msgs \cup {EndMsg}
  /\ got \subseteq Msgs

Init ==
  /\ lock = NoOne
  /\ pipe = <<>>
  /\ wpc = [w \in Writers |-> IF w = MainThread THEN "wait"
                              ELSE IF Count > 0 THEN "lock" ELSE "done"]
  /\ k = [w \in Writers |-> 0]
  /\ cpc = "read"
  /\ held = EndMsg
  /\ got = {}

--------------------------------------------------------------------------------
(* Writer w.                                                                   *)

Lock(w) ==
  /\ wpc[w] = "lock"
  /\ lock = NoOne
  /\ lock' = w
  /\ wpc' = [wpc EXCEPT ![w] = "write"]
  /\ UNCHANGED <<pipe, k, consumerVars>>

HasRoom == Len(pipe) < Capacity

\* Fault: the new pointer comes out first.
WriteFront(w) ==
  /\ wpc[w] = "write"
  /\ HasRoom
  /\ pipe' = <<<<w, k[w]>>>> \o pipe
  /\ wpc' = [wpc EXCEPT ![w] = "unlock"]
  /\ UNCHANGED <<lock, k, consumerVars>>

Write(w) ==
  /\ wpc[w] = "write"
  /\ HasRoom
  /\ pipe' = Append(pipe, <<w, k[w]>>)
  /\ wpc' = [wpc EXCEPT ![w] = "unlock"]
  /\ UNCHANGED <<lock, k, consumerVars>>

Total(w) == IF w = MainThread THEN 1 ELSE Count

\* Fault: the spinlock is not released after the last message.
UnlockButLast(w) ==
  /\ wpc[w] = "unlock"
  /\ lock' = IF k[w] + 1 < Total(w) THEN NoOne ELSE lock
  /\ k' = [k EXCEPT ![w] = @ + 1]
  /\ wpc' = [wpc EXCEPT ![w] = IF k[w] + 1 < Total(w) THEN "lock" ELSE "done"]
  /\ UNCHANGED <<pipe, consumerVars>>

Unlock(w) ==
  /\ wpc[w] = "unlock"
  /\ lock' = NoOne
  /\ k' = [k EXCEPT ![w] = @ + 1]
  /\ wpc' = [wpc EXCEPT ![w] = IF k[w] + 1 < Total(w) THEN "lock" ELSE "done"]
  /\ UNCHANGED <<pipe, consumerVars>>

Writer(w) == Lock(w) \/ Write(w) \/ Unlock(w)

--------------------------------------------------------------------------------
(* The consumer.                                                               *)

Read ==
  /\ cpc = "read"
  /\ pipe # <<>>
  /\ held' = Head(pipe)
  /\ pipe' = Tail(pipe)
  /\ cpc' = IF Head(pipe) = EndMsg THEN "done" ELSE "record"
  /\ UNCHANGED <<lock, writerVars, got>>

Record ==
  /\ cpc = "record"
  /\ got' = got \cup {held}
  /\ cpc' = "read"
  /\ UNCHANGED <<lock, pipe, writerVars, held>>

--------------------------------------------------------------------------------
(* The main thread.                                                            *)

\* Fault: the callback runs when the first producer is done.
ProducersDoneEarly == NumProducer = 0 \/ \E p \in Producers : wpc[p] = "done"

ProducersDone == \A p \in Producers : wpc[p] = "done"

\* The producers have been joined; producer_complete_cb writes end_msg.
Complete ==
  /\ wpc[MainThread] = "wait"
  /\ ProducersDone
  /\ wpc' = [wpc EXCEPT ![MainThread] = "lock"]
  /\ UNCHANGED <<lock, pipe, k, consumerVars>>

\* Both joins are over: the report is generated and the descriptors are closed.
Over == wpc[MainThread] = "done" /\ cpc = "done"

Exited == Over /\ UNCHANGED vars

Next ==
  \/ \E w \in Writers : Writer(w)
  \/ Read
  \/ Record
  \/ Complete
  \/ Exited

Spec == Init /\ [][Next]_vars

\* Every thread is scheduled again and again.  Nothing more is assumed of the
\* spinlock: who waits for it may be overtaken, but only by the finitely many
\* messages of the others.
Fairness ==
  /\ \A w \in Writers : WF_vars(Writer(w))
  /\ WF_vars(Read \/ Record)
  /\ WF_vars(Complete)

FairSpec == Spec /\ Fairness

--------------------------------------------------------------------------------
(* Properties.                                                                 *)

InPipe(m) == \E l \in 1 .. Len(pipe) : pipe[l] = m

\* The messages that writer w has put into the pipe.
Written(w) == IF wpc[w] = "unlock" THEN k[w] + 1 ELSE k[w]

\* Who writes holds the spinlock, and only one does.
LockHeld == \A w \in Writers : lock = w <=> wpc[w] \in {"write", "unlock"}

\* A writer stops when it has written all, and the main thread starts then.
WritesLeft ==
  /\ wpc[MainThread] # "wait" => ProducersDone
  /\ \A w \in Writers :
       /\ wpc[w] \in {"lock", "write", "unlock"} => k[w] < Total(w)
       /\ wpc[w] = "done" => k[w] = Total(w)
       /\ wpc[w] = "wait" => w = MainThread /\ k[w] = 0

Follows(m, n) == m[1] = n[1] => m[2] < n[2]

\* What is in the pipe was written, and each writer's messages in their order.
PipeInSequence ==
  /\ \A a \in 1 .. Len(pipe) : pipe[a][2] < Written(pipe[a][1])
  /\ \A a, b \in 1 .. Len(pipe) : a < b => Follows(pipe[a], pipe[b])

\* The consumer holds a message that stood before all of its writer in the pipe.
HeldInSequence ==
  cpc = "record" =>
    /\ held \in Msgs
    /\ held[2] < Written(held[1])
    /\ \A a \in 1 .. Len(pipe) : Follows(held, pipe[a])

\* So did every message that it has recorded, and before the one that it holds.
GotInSequence ==
  \A m \in got :
    /\ m[2] < Written(m[1])
    /\ \A a \in 1 .. Len(pipe) : Follows(m, pipe[a])
    /\ cpc = "record" => Follows(m, held)

\* The consumer stops at the end message: no message may come behind it, and
\* none may be on its way when the consumer has stopped.
NothingBehindEnd ==
  /\ \A l \in 1 .. Len(pipe) : pipe[l] = EndMsg => l = Len(pipe)
  /\ cpc = "done" => pipe = <<>> /\ got = Msgs /\ Written(MainThread) = 1

\* What the consumer has of a producer is a prefix of what the producer wrote,
\* and what is missing of it is in the pipe or in the consumer's hands.
ReadInOrder ==
  \A p \in Producers, j \in 0 .. Count - 1 :
    /\ <<p, j>> \in got => \A h \in 0 .. j : <<p, h>> \in got
    /\ j < Written(p) => \/ <<p, j>> \in got
                         \/ InPipe(<<p, j>>)
                         \/ cpc = "record" /\ held = <<p, j>>

\* The spinlock, what is in the pipe, and what the consumer has of it.  The parts
\* rest on one another: together they are inductive.
PipeInv ==
  /\ TypeOK
  /\ LockHeld
  /\ WritesLeft
  /\ PipeInSequence
  /\ HeldInSequence
  /\ GotInSequence
  /\ NothingBehindEnd
  /\ ReadInOrder

\* Every benchmark ends: a writer may block in write() while it holds the spinlock
\* and all others spin, but the consumer, which takes no lock, lets it out.
Terminates == <>Over

Progress(m) ==
  IF m \in got THEN "read"
  ELSE IF InPipe(m) \/ (cpc = "record" /\ held = m) THEN "inflight" ELSE "unsent"

\* The pipe implements the transfer that every transport promises.
T == INSTANCE Transfer WITH
       status <- [m \in Msgs |-> Progress(m)],
       closed <- Over

TransferSpec == T!Spec

================================================================================
