--------------------------------- MODULE Fixtures ---------------------------------
(*******************************************************************************)
(* What TicketRing and Microbenchmarks have in common: threads that repeat one *)
(* operation on what they share, a given number of times each.                 *)
(*******************************************************************************)
EXTENDS Integers

CONSTANTS
  NumThread,    \* ->Threads(..) of the benchmark, the threads of loop_increment
  Iterations,   \* iterations in each thread
  Capacity,     \* RING_CAPACITY
  Modulus       \* 2^32

VARIABLES
  pc,      \* what each thread does next
  left,    \* iterations left to each thread
  ring     \* the slots that were written

AllThreads == 1 .. NumThread

AllDone == \A t \in AllThreads : pc[t] = "done"

================================================================================
