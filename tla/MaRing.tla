--------------------------------- MODULE MaRing ---------------------------------
(*******************************************************************************)
(* The benchmark of muggle_ma_ring: every thread writes numbered records into  *)
(* a ring of its own, and a backend thread hands the records of all rings to   *)
(* fn_write, which appends them to one file.                                   *)
(*                                                                             *)
(* muggle_ma_ring is a library and modelled as the benchmark uses it: a ring   *)
(* is made with the capacity set before; alloc returns a slot that may be      *)
(* written, so it waits while all are full; move shows that slot to the        *)
(* backend; after cleanup the backend still empties the ring.  The process may *)
(* end before that.                                                            *)
(*******************************************************************************)
EXTENDS Harness, Sequences

CONSTANTS
  MaCapacity,   \* CAP_SIZE
  NoRecord      \* what a slot holds before it is written

ASSUME MaAssumption == MaCapacity \in Nat \ {0} /\ NoRecord \notin Nat

VARIABLES
  once,        \* how far call_once of SetUp is: the statement it has come to
  caller,      \* the thread that executes it
  fp,          \* the file is open
  configured,  \* callback, data size and capacity are set
  backend,     \* the backend runs
  number,      \* s_u32 of each thread
  ctx,         \* the ring that each thread has made in each run
  logged       \* what fn_write has written from each ring

maVars == <<once, caller, fp, configured, backend, number, ctx, logged>>

Ids == AllThreads \X (1 .. Runs)

MySlots == 0 .. MaCapacity - 1

\* No ring; and a new one.
NoRing  == [made |-> FALSE, slots |-> [s \in MySlots |-> NoRecord], w |-> 0, r |-> 0]
NewRing == [NoRing EXCEPT !.made = TRUE]

MaType ==
  /\ once \in {"first", "open", "set", "run", "over", "exited"}
  /\ caller \in 0 .. NumThread
  /\ fp \in BOOLEAN
  /\ configured \in BOOLEAN
  /\ backend \in BOOLEAN
  /\ number \in [AllThreads -> Nat]
  /\ ctx \in [Ids -> [made : BOOLEAN, slots : [MySlots -> Nat \cup {NoRecord}], w : Nat, r : Nat]]
  /\ logged \in [Ids -> Seq(Nat \cup {NoRecord})]

MaInit ==
  /\ once = "first"
  /\ caller = 0
  /\ fp = FALSE
  /\ configured = FALSE
  /\ backend = FALSE
  /\ number = [t \in AllThreads |-> 0]
  /\ ctx = [id \in Ids |-> NoRing]
  /\ logged = [id \in Ids |-> <<>>]

Mine(t) == <<t, run>>

--------------------------------------------------------------------------------
(* SetUp: call_once, then the context of the thread.                           *)

EnterOnce(t) ==
  /\ bench = "maRing"
  /\ pc[t] = "setUp"
  /\ once = "first"
  /\ once' = "open"
  /\ caller' = t
  /\ UNCHANGED <<harnessVars, fp, configured, backend, number, ctx, logged>>

OpenLog ==
  /\ once = "open"
  /\ fp' = TRUE
  /\ once' = "set"
  /\ UNCHANGED <<harnessVars, caller, configured, backend, number, ctx, logged>>

\* exit(EXIT_FAILURE)
OpenLogFails ==
  /\ once = "open"
  /\ once' = "exited"
  /\ pc' = [t \in AllThreads |-> "done"]
  /\ UNCHANGED <<bench, run, left, caller, fp, configured, backend, number, ctx, logged>>

SetCtx ==
  /\ once = "set"
  /\ configured' = TRUE
  /\ once' = "run"
  /\ UNCHANGED <<harnessVars, caller, fp, backend, number, ctx, logged>>

RunBackend ==
  /\ once = "run"
  /\ backend' = TRUE
  /\ once' = "over"
  /\ UNCHANGED <<harnessVars, caller, fp, configured, number, ctx, logged>>

\* Fault: a thread goes on while another initialises.
OnceBegun == once # "first"

\* call_once returns when the function has been called, by whichever thread.
OnceOver == once = "over"

InitCtx(t) ==
  /\ bench = "maRing"
  /\ pc[t] = "setUp"
  /\ OnceOver
  /\ ctx' = [ctx EXCEPT ![Mine(t)] = NewRing]
  /\ Goto(t, "start")
  /\ UNCHANGED <<bench, run, left, once, caller, fp, configured, backend, number, logged>>

--------------------------------------------------------------------------------
(* An iteration.                                                               *)

HasRoom(c) == c.w - c.r < MaCapacity

Alloc(t) ==
  /\ bench = "maRing"
  /\ pc[t] = "work"
  /\ HasRoom(ctx[Mine(t)])
  /\ Goto(t, "fill")
  /\ UNCHANGED <<bench, run, left, maVars>>

Fill(t) ==
  /\ pc[t] = "fill"
  /\ LET c == ctx[Mine(t)]
     IN  ctx' = [ctx EXCEPT ![Mine(t)].slots[c.w % MaCapacity] = number[t]]
  /\ number' = [number EXCEPT ![t] = @ + 1]
  /\ Goto(t, "move")
  /\ UNCHANGED <<bench, run, left, once, caller, fp, configured, backend, logged>>

Move(t) ==
  /\ pc[t] = "move"
  /\ ctx' = [ctx EXCEPT ![Mine(t)].w = @ + 1]
  /\ EndIteration(t)
  /\ UNCHANGED <<bench, run, once, caller, fp, configured, backend, number, logged>>

CleanUpCtx(t) ==
  /\ bench = "maRing"
  /\ pc[t] = "tearDown"
  /\ Goto(t, "done")
  /\ UNCHANGED <<bench, run, left, maVars>>

MaStep(t) ==
  \/ EnterOnce(t) \/ InitCtx(t)
  \/ Alloc(t) \/ Fill(t) \/ Move(t) \/ CleanUpCtx(t)
  \/ caller = t /\ (OpenLog \/ OpenLogFails \/ SetCtx \/ RunBackend)

\* s_u32 is thread-local, so only the main thread counts on.
MaNextRun ==
  /\ number' = [t \in AllThreads |-> IF t = 1 THEN number[t] ELSE 0]
  /\ UNCHANGED <<once, caller, fp, configured, backend, ctx, logged>>

--------------------------------------------------------------------------------

\* The backend hands a record to fn_write.
WriteRecord(id) ==
  /\ backend
  /\ once # "exited"
  /\ ctx[id].r < ctx[id].w
  /\ logged' = [logged EXCEPT ![id] = Append(@, ctx[id].slots[ctx[id].r % MaCapacity])]
  /\ ctx' = [ctx EXCEPT ![id].r = @ + 1]
  /\ UNCHANGED <<harnessVars, once, caller, fp, configured, backend, number>>

Backend == \E id \in Ids : WriteRecord(id)

--------------------------------------------------------------------------------
(* Properties.                                                                 *)

\* Whichever thread comes first, no thread makes a ring, and no record comes to
\* fn_write, before the file is open and the settings are made.
ReadyWhenUsed ==
  \A id \in Ids : ctx[id].made => fp /\ configured /\ backend

\* A record is not read before it is filled nor overwritten before it is read:
\* the lines of a thread have consecutive numbers.
LinesConsecutive ==
  \A id \in Ids : \A k \in 2 .. Len(logged[id]) : logged[id][k] = logged[id][k - 1] + 1

\* The line numbers of a new thread begin with 0, those of the main thread go on.
LinesBegin ==
  \A id \in Ids :
    logged[id] # <<>> => Head(logged[id]) = IF id[1] = 1 THEN (id[2] - 1) * Iterations ELSE 0

\* A ring never holds more than it has slots for.
RingsBounded == \A id \in Ids : ctx[id].r <= ctx[id].w /\ ctx[id].w <= ctx[id].r + MaCapacity

\* The initialisation, the rings and the file.
LogInv ==
  /\ MaType
  /\ ReadyWhenUsed
  /\ LinesConsecutive
  /\ LinesBegin
  /\ RingsBounded

--------------------------------------------------------------------------------
(* The inductive invariant, from which LogInv follows.                         *)

\* The statements inside call_once that are done.
OnceInv ==
  /\ once # "first" => bench = "maRing"
  /\ once \in {"set", "run", "over"} => fp
  /\ once \in {"run", "over"} => configured
  /\ once = "over" => backend
  /\ once = "exited" => AllDone
  /\ \A t \in Threads : pc[t] \in {"fill", "move"} => bench = "maRing"

\* The number of the first record in a ring.
FirstNumber(id) == IF id[1] = 1 THEN (id[2] - 1) * Iterations ELSE 0

\* What stands in a ring, and what was written from it.
RingOf(id) ==
  LET c == ctx[id]
  IN  /\ ~c.made => c = NoRing /\ logged[id] = <<>>
      /\ c.made => once = "over"
      /\ c.r <= c.w /\ c.w <= c.r + MaCapacity
      /\ Len(logged[id]) = c.r
      /\ \A k \in 1 .. c.r : logged[id][k] = FirstNumber(id) + k - 1
      /\ \A k \in c.r .. c.w - 1 : c.slots[k % MaCapacity] = FirstNumber(id) + k

\* Which rings there are, and the number of the next record of thread t.
WriterOf(t) ==
  LET c == ctx[Mine(t)]
  IN  /\ \A r \in run + 1 .. Runs : ~ctx[<<t, r>>].made
      /\ c.made <=> pc[t] # "setUp"
      /\ c.w = Done(t)
      /\ number[t] = FirstNumber(Mine(t)) + c.w + (IF pc[t] = "move" THEN 1 ELSE 0)
      /\ pc[t] \in {"fill", "move"} => HasRoom(c)
      /\ pc[t] = "move" => c.slots[c.w % MaCapacity] = FirstNumber(Mine(t)) + c.w
      /\ pc[t] = "done" => left[t] = 0

MaInd ==
  /\ MaType
  /\ OnceInv
  /\ \A id \in Ids : RingOf(id)
  /\ bench = "maRing" /\ once # "exited" => \A t \in AllThreads : WriterOf(t)

================================================================================
