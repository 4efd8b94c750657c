------------------------------- MODULE TicketRing -------------------------------
(*******************************************************************************)
(* The lock-free writers of c/gbenchmark/muggle_thread_trans_write (CAS): a    *)
(* thread takes a ticket from next, writes the ring slot of the ticket, and    *)
(* publishes it by moving cursor from the ticket to the ticket's successor     *)
(* with a weak compare-and-exchange.  The CAS benchmarks of muggle_atomic and  *)
(* std_atomic are the same loop without the ring.                              *)
(*                                                                             *)
(* A weak compare-and-exchange may fail although cursor is the ticket.  The    *)
(* loop takes the value it has read back for the reason of the failure, and    *)
(* ends: the ticket is then never published.  Spurious says whether the        *)
(* target's compare-and-exchange has such failures.                            *)
(*                                                                             *)
(* next, cursor and pos are 32-bit integers that wrap around.  Here they count *)
(* on, and all that the code sees of a count k is Low(k).                      *)
(*******************************************************************************)
EXTENDS Fixtures

CONSTANT Spurious   \* a weak compare-and-exchange can fail for no reason

ASSUME TicketAssumption ==
  /\ NumThread \in Nat
  /\ Iterations \in Nat \ {0}
  /\ Capacity \in Nat \ {0}
  /\ Modulus \in Nat \ {0}
  /\ Modulus % Capacity = 0
  /\ NumThread < Modulus
  /\ Spurious \in BOOLEAN

Slots   == 0 .. Capacity - 1

VARIABLES
  next,      \* the next ticket
  cursor,    \* the next ticket to be published
  pos,       \* the ticket of each thread
  dropped    \* history: the tickets that were given up

ticketVars == <<next, cursor, pc, pos, left, ring, dropped>>

TicketType ==
  /\ next \in Nat
  /\ cursor \in Nat
  /\ pc \in [AllThreads -> {"take", "write", "publish", "done"}]
  /\ pos \in [AllThreads -> Nat]
  /\ left \in [AllThreads -> 0 .. Iterations]
  /\ ring \subseteq Slots
  /\ dropped \subseteq Nat

\* The threads meet in a barrier between SetUp and their first iteration.
TicketInit ==
  /\ next = 0
  /\ cursor = 0
  /\ pc = [t \in AllThreads |-> "take"]
  /\ pos = [t \in AllThreads |-> 0]
  /\ left = [t \in AllThreads |-> Iterations]
  /\ ring = {}
  /\ dropped = {}

Low(k) == k % Modulus

\* Fault: the ticket is not masked.
SlotOfNoMask(k) == Low(k)

\* MUGGLE_IDX_IN_POW_OF_2_RING
SlotOf(k) == Low(k) % Capacity

\* Fault: next is loaded and stored instead of added to, and an addition is lost.
TakeNotAdded(t) ==
  /\ pc[t] = "take"
  /\ pos' = [pos EXCEPT ![t] = next]
  /\ next' \in {next, next + 1}
  /\ pc' = [pc EXCEPT ![t] = "write"]
  /\ UNCHANGED <<cursor, left, ring, dropped>>

Take(t) ==
  /\ pc[t] = "take"
  /\ pos' = [pos EXCEPT ![t] = next]
  /\ next' = next + 1
  /\ pc' = [pc EXCEPT ![t] = "write"]
  /\ UNCHANGED <<cursor, left, ring, dropped>>

Write(t) ==
  /\ pc[t] = "write"
  /\ ring' = ring \cup {SlotOf(pos[t])}
  /\ pc' = [pc EXCEPT ![t] = "publish"]
  /\ UNCHANGED <<next, cursor, pos, left, dropped>>

\* Fault: the loop ends one iteration early.
FinishEarly(t) ==
  /\ left' = [left EXCEPT ![t] = @ - 1]
  /\ pc' = [pc EXCEPT ![t] = IF left[t] <= 2 THEN "done" ELSE "take"]

Finish(t) ==
  /\ left' = [left EXCEPT ![t] = @ - 1]
  /\ pc' = [pc EXCEPT ![t] = IF left[t] = 1 THEN "done" ELSE "take"]

\* Fault: the cursor is moved on whatever it is.
MyTurnAlways(t) == TRUE

MyTurn(t) == Low(cursor) = Low(pos[t])

Publish(t) ==
  /\ pc[t] = "publish"
  /\ MyTurn(t)
  /\ cursor' = pos[t] + 1
  /\ Finish(t)
  /\ UNCHANGED <<next, pos, ring, dropped>>

GiveUp(t) ==
  /\ Spurious
  /\ pc[t] = "publish"
  /\ MyTurn(t)
  /\ dropped' = dropped \cup {pos[t]}
  /\ Finish(t)
  /\ UNCHANGED <<next, cursor, pos, ring>>

Exited == AllDone /\ UNCHANGED ticketVars

TicketNext ==
  \/ \E t \in AllThreads : Take(t) \/ Write(t) \/ Publish(t) \/ GiveUp(t)
  \/ Exited

TicketSpec == TicketInit /\ [][TicketNext]_ticketVars

\* A thread that yields is scheduled again.
TicketFairSpec == TicketSpec /\ \A t \in AllThreads : WF_ticketVars(Take(t) \/ Write(t) \/ Publish(t) \/ GiveUp(t))

--------------------------------------------------------------------------------
(* Properties.                                                                 *)

Active(t) == pc[t] \in {"write", "publish"}

\* No two threads work on one ticket, and no ticket is published before the
\* cursor has come to it.
TicketsInWindow ==
  /\ \A t \in AllThreads : Active(t) => pos[t] \in cursor .. next - 1
  /\ \A t, u \in AllThreads : Active(t) /\ Active(u) /\ pos[t] = pos[u] => t = u

\* While the threads are no more than the slots, no two of them ever write the
\* same slot: a thread that is ahead waits for the slowest one.
SlotsDistinct ==
  NumThread <= Capacity =>
    \A t, u \in AllThreads :
      Active(t) /\ Active(u) /\ SlotOf(pos[t]) = SlotOf(pos[u]) => t = u

\* What is published has been written: the slots of all tickets below the cursor
\* hold data.
TicketsWritten == \A k \in 0 .. cursor - 1 : SlotOf(k) \in ring

\* The cursor moves one ticket at a time, and after a ticket is given up never
\* again.
CursorSteps ==
  [][/\ cursor' \in {cursor, cursor + 1}
     /\ dropped # {} => cursor' = cursor]_ticketVars

\* A ticket that is given up is the one the cursor waits for: no second one can
\* be given up after it, and no thread that waits behind it is ever released.
GivenUpBlocks == dropped \subseteq {cursor}

\* At the end nothing is lost: every ticket has been published, unless one was
\* given up.
NoTicketLost ==
  AllDone => \/ cursor = next /\ next = NumThread * Iterations
             \/ dropped # {}

\* The inductive invariant behind the safety properties: no ticket between
\* cursor and next is forgotten, so there are no more of them than threads, and
\* the low bits of cursor tell a thread whether its turn has come.
NoneForgotten ==
  \A k \in cursor .. next - 1 :
    k \in dropped \/ \E t \in AllThreads : Active(t) /\ pos[t] = k

GivenUpIsOver ==
  \A k \in dropped : k < next /\ \A t \in AllThreads : Active(t) => pos[t] # k

WrittenBeforePublish == \A t \in AllThreads : pc[t] = "publish" => SlotOf(pos[t]) \in ring

IterationsLeft == \A t \in AllThreads : pc[t] # "done" => left[t] > 0

IndInv ==
  /\ TicketType
  /\ IterationsLeft
  /\ cursor <= next
  /\ TicketsInWindow
  /\ NoneForgotten
  /\ GivenUpBlocks
  /\ GivenUpIsOver
  /\ WrittenBeforePublish
  /\ TicketsWritten

\* Every thread finishes, or a ticket was given up (and the others spin).
FinishesUnlessGivenUp == <>(AllDone \/ dropped # {})

================================================================================
