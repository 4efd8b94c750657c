# A TLA+ model of latency-benchmark

The repository measures how long it takes to hand a message from one thread,
goroutine or process to another: through queues, rings, channels, pipes and
websockets, in Java, Go, C and C++. A benchmark's numbers mean something only if
every message is carried exactly once, if the report is written after the last
message has been read, and if the programs come to an end. That depends on
interleavings that the few tests of the repository do not control. These modules
state it, TLC checks it on small instances, and TLAPS proves the core of it for
every value of the constants.

## 1. The system

| Component | State it keeps | Operations | Interacts by |
|---|---|---|---|
| Java thread-transfer harness (`LatencyBenchmarkThreadTrans*.java`) | main thread's phase and loop, producers' loops, three record arrays | start, stamp begin / write / stamp end, read and record, join, report | threads and joins; unsynchronised record arrays; write, completed and consumer callbacks of the transport |
| `ArrayBlockingQueue` transport | one bounded queue | `put`, `take`, one message with id -1 per consumer | blocking |
| Disruptor transport | ring, claimed and published sequences, the sequences of the handlers | `next`, set, `publish`, `onEvent`; sleep instead of a join | waiting for sequences |
| Go channel benchmark (`thread_trans_channel/main.go`) | two unbuffered channels, `consumer_ready`, completion counters | announce, send, receive, signal, nil, report | rendezvous; numbers with a double meaning on `c_signal` |
| Pipe and socketpair benchmarks | kernel buffer, spinlock | locked `write`, polling `read`, end message | blocking while holding a lock |
| Ring writers, lock-free (`muggle_thread_trans_write.cpp`, CAS; `muggle_atomic`, `std_atomic`) | `next`, `cursor`, ring | take a ticket, write, publish by weak compare-and-exchange | atomics |
| Ring writers under a lock (the same file; `muggle_mutex`, `muggle_spin_lock`, `muggle_sync`, `std_mutex`) | lock, `cursor`, ring, all in one fixture that every thread sets up | `SetUp`, locked write, `TearDown` | lock, barriers of the library |
| malloc/free over a ring (`benchmark_c_malloc_free.cpp`) | ring, read position, state of the memory | `malloc`, write, read, `free`, null message | a ring that never makes its writers wait |
| Go websocket server and client | connections, `Idx` and `Elapsed` of the server, the clients' arrays | `OnActive`, `OnRead`, `OnInactive`, send and receive loops, `os.Exit` | messages; goroutines that share `Idx` without a lock |
| C++ websocket server and client | connections, `elapsed_array_`, `cnt_` | the handlers of two hubs, `WsHandle` | messages; one thread per hub |
| Latency reports (Java, Go, C++) | array of latencies, sorted in place; rows | head, row by message, row by latency | index arithmetic in floating point |
| `loop_increment` | one counter, a spinlock | unlocked, locked and compare-and-exchange loops, one thread or two | atomics, joins |
| `muggle_ma_ring` | a `call_once` flag, a ring per thread, one file | initialise, allocate, move, write from a backend thread | rings of the library; the callback `fn_write` |
| Benchmarks that walk through an array (`time_elapsed_measure`, `c_write_va_to_file`, `strcpy`) | an index, an array, a file | `SetUp`, use one entry per iteration, wrap around, `TearDown` | the benchmark library, which runs one fixture object many times |
| C++ configuration files and main programs (`ws_config.cpp`, `thread_trans_config.cpp`, `benchmark_config.cpp`) | an uninitialised record, a file, a buffer | open, read, parse, assign member by member, clean up | the return value that the programs look at |
| C microbenchmarks of single operations, Java configuration and launchers | - | - | not modelled, see section 8 |

What makes each part correct:

- **Transports**: a message is sent once, read once, and in no two places in
  between; the end marker is the last thing sent; the report comes after the
  last read; nobody waits for ever.
- **Ring writers**: no ticket and no slot is shared, nothing is published
  before it is written, no increment is lost.
- **Websocket programs**: what is reported is what was sent, as far as the
  connection lasted; no entry counts twice; all processes end.
- **Fixtures**: what one run leaves in a fixture, or one thread sets up late,
  does not falsify the next; every index stays inside its array.
- **Configurations**: no program goes on with a setting that its file did not
  give, and every way out of a loader releases what it holds.
- **Reports**: every cell is the quantile its label says; no index is out of
  range.

The behaviours that are hard are listed with their lines under `hazards` in
`PROJECT.json`.

## 2. Modules

```
Transfer                      what every transport promises
  ^ implemented by
ThreadTrans --- BlockingQueueTrans --- BlockingQueueTrans_proof
            \-- DisruptorTrans ------- DisruptorTrans_proof
ChannelTrans --- ChannelTrans_proof
PipeTrans    --- PipeTrans_proof

Fixtures                      threads that repeat an operation
  ^ extended by
TicketRing ------------------------------------ Fixtures_proof
Harness --- SharedCounter --\                   /
        --- ArrayWalk --------- Microbenchmarks
        --- MaRing ---------/
ConfigLoad --\
FreeRing ------ CppPrograms --- CppPrograms_proof
Websockets                    configurations, connections, how a process ends
  ^ extended by
MCWsTrans --- WsTrans ---\
MCWsHub   --- WsHub ------- Websockets_proof
LatencyReport -----------/
Cells                         arithmetic that the proofs share
```

- **Transfer**: the abstract specification. A message is `unsent`, `inflight`
  or `read`, moves forward by one step at a time, and the benchmark closes only
  when all have been read. `BlockingQueueTrans`, `ChannelTrans` and `PipeTrans`
  instantiate it with a refinement mapping (`T == INSTANCE Transfer WITH ...`,
  property `TransferSpec`). The Disruptor does not: every handler sees every
  message, and its report does not wait.
- **ThreadTrans**: the harness that both Java transports extend: one action per
  turn of each loop of `run()`, one per statement group of a producer (begin
  stamp; transport; end stamp with both records and the advance of the loops),
  and `genReport`, which fails on a null record or an empty array.
- **BlockingQueueTrans**: put, take, record, the messages with id -1, the
  phases of the main thread. `Consumer` splits `take()` by what comes out.
- **DisruptorTrans**: `write()` is three steps (`Claim`, `SetId`, `Publish`); a
  handler's thread takes the contiguous published sequences as a batch, sees
  each (`OnEvent`, `StoreRecord`) and releases them together. The library is
  external and modelled from its use.
- **ChannelTrans**: a rendezvous is one step of both sides. `Signal(v)` is all
  that the main goroutine does with a number from `c_signal`, so each sender's
  action includes it. `late` is a history variable: the consumers of which the
  main goroutine had not heard when it stopped listening for them.
- **PipeTrans**: lock, `write`, unlock are three steps, so a writer blocks in
  `write` with the spinlock held. The harness is in a submodule and external.
- **TicketRing**: take, write, publish or give up. The counters run on and the
  code sees only their low bits (`Low`), so a wrap-around is in reach.
  `GiveUp` is the spurious failure of a weak compare-and-exchange: the loop
  reads back the value it expected, takes it for success and ends without
  having published.
- **Fixtures**: the constants and variables that `TicketRing` and `Harness` have
  in common: the threads, where each is, how many iterations it has left, and the
  slots that were written. One proof module speaks of both.
- **Harness**: what the benchmark library does with a fixture: `SetUp` in every
  thread, a barrier, the iterations, a barrier, `TearDown`, and all of it again
  in the next run. Thread 1 is the main thread of the process and the others are
  new in every run, which a thread-local variable can tell. `loop_increment`
  has no fixture; its threads are started and joined.
- **SharedCounter**: the benchmarks of `muggle_thread_trans_write` under a lock,
  `muggle_spin_lock`, `muggle_mutex`, `muggle_sync`, `std_mutex`, the stores and
  fetch-adds of `muggle_atomic` and `std_atomic`, and the four loops of
  `loop_increment`. The load and the store of a counter are two steps. `loopCas`
  and `loopCasTruth` are the two values that the library's compare-and-exchange
  may return.
- **ArrayWalk**: the three fixtures with an index. `idx` of `strcpy` starts with
  whatever was in its memory.
- **MaRing**: the statements inside `call_once` one by one, since the thread that
  does not execute them must wait; a ring per thread, numbered records, the
  backend and `fn_write`.
- **Microbenchmarks**: one process that runs one of all these.
- **ConfigLoad**: the three loaders, which differ in their members only. Of a
  file they can tell whether it is there, comes in full, is JSON, is an object,
  and which members are good.
- **CppPrograms**: what the programs do with the result, and of `c_malloc_free`
  the three calls of `Benchmark_wr`, whose numbers of producers come from
  `hardware_concurrency`.
- **FreeRing**: the memory of each block is `none`, `allocated`, `freed`,
  `freedTwice` or `failed`; `lapped` records that a read came too late.
- **Websockets**: the state that both websocket benchmarks have. The server and
  the clients each load a configuration, and some clients may be given another
  url than the server; `conf` is any such pair.
- **WsTrans**: a call of `OnRead` is up to five steps, one for each access to
  `Idx` or `Elapsed`, because the peers' goroutines interleave. `OnInactive` is
  one step, although it reads `Idx` more than once. The library's connections and
  hub are external.
- **WsHub**: a handler is one step, because a hub has one thread.
- **LatencyReport**: the loops of the three implementations, which agree, with
  steps from 0 to beyond the last column. The
  set `Indices` has both values that the product may be truncated to. Its proofs
  stand before those of the websocket programs, which write such a report.
- **MCWsTrans, MCWsHub** give `Confs` its value: pairs of configurations that a
  `.cfg` cannot write. All other modules are checked directly.
- Operators commented `\* Fault:` are not part of a specification. Each stands
  before the definition it is a faulty form of, and shows that a property can
  tell the two apart (`mutants` in `PROJECT.json`).

`map` in `PROJECT.json` gives the lines of every definition. Names follow the
code where it has one.

### Abstractions

- **Time.** A report only subtracts stamps of one message, so `nanoTime` is a
  counter per message: a stamp is the number of calls made for it before. Two
  calls that return the same nanosecond are not modelled.
- **Payloads** are ids; Elapsed holds the message that an entry was computed
  from instead of the difference.
- **A grid of benchmarks** is run one after the other by each program; a
  specification is one cell of the grid, whose size is in its constants.
- **A client with another url**: its dial fails in Go, where the server routes by
  the url, and the process ends; in C++ the server accepts and terminates it.
- **A process that exits or a connection that breaks** loses any suffix of what
  is still on its way (C++) or everything on its way (Go, after a break).
- **The Go server's local variables** are reset when `OnRead` returns, so that
  states which differ in nothing are the same state.
- **Clocks** of `ArrayWalk` count ticks, and are not set back while a benchmark
  runs. A timespec keeps its whole seconds and the rest apart.
- **Which files there are**: one per set of good members, and one for each other
  way to be bad.
- **A report without a step** writes labels for ever; `MaxLabels` bounds them.
  `MaxCounter` bounds the counter of `loopCasTruth` in the same way. Both are
  more than any other run of the loops reaches, and the specifications stop
  there in an action of their own (`RunsAway`).
- **A double free** may abort the process or be unnoticed. The state of the
  memory after it is not modelled beyond that it happened.

## 3. Runs

| Run | Instance | Distinct states | What it shows |
|---|---|---|---|
| `blocking_queue` | 2 producers, 2 consumers, 2 rounds of 1, capacity 2 | 30 thousand | `InOrder`, `ReportComplete`, the inductive invariant `IndInv` (with `OnePlace`), refinement of `Transfer`, termination |
| `disruptor` | 3 producers of one message, 2 handlers, ring of 2 | 1.7 million | `RingInv` (slots distinct, gate holds, no event overwritten, no gap is left, read after begin), `FailsOnlyWhenAhead`, and `AllSeenUnlessOver`: every handler comes to see every message, unless the report is over before |
| `disruptor_sleep` | 1 producer, 1 handler | violation | the report may run before the handler (finding) |
| `channel` | 2 producers, 4 consumers, 2 loops of 1 block | 580 thousand | `ChannelInv`, `JoinedAllUnlessLate`, refinement of `Transfer`, termination |
| `channel_early_report` | 1 producer, 2 consumers | violation | the report may run before the goroutines are joined (finding) |
| `pipe` | 3 producers of 2 messages, buffer of 2 | 2400 | `PipeInv`, refinement of `Transfer`, termination |
| `ticket_ring` | 3 threads, 4 iterations, ring of 4, tickets modulo 8, spurious failures | 41 thousand | `SlotsDistinct`, `NoTicketLost`, `IndInv`, `CursorSteps`, `FinishesUnlessGivenUp` |
| `microbenchmarks` | 17 benchmarks, 3 threads, 2 iterations, 2 runs, arrays of 4, rings of 2 and 1 | 72 thousand | `LockInv`, `NothingLost`, `ArrayInv`, `LogInv`, termination |
| `cpp_programs` | 5 programs with every file; 0 to 2 processors, 2 loops of 3 blocks, ring of 4, failing allocations | 144 thousand | `ConfigInv`, `FreeInv`, `ReportExactUnlessLapped`, termination |
| `ws_golang` | 2 clients, 9 pairs of configurations | 180 thousand | `ElapsedInv`, `LoneReportExact`, `ClientReportExact`, `AllEnd` |
| `ws_cpp` | 3 clients, one of them refused, 6 pairs of configurations | 72 thousand | `HubInv`, `LeaverReported`, `LeaverGotAll`, `HubAllEnd` |
| `latency_report` | all arrays of up to 5 latencies, 5 report steps | 60 thousand | `IndexInv` (with `ByIdxIsOriginal` and `RowsAlignUnlessUnread`), `QuantileUnderLabel`, `ReportEnds` |

Why the bounds are enough for the cases that matter:

- `blocking_queue`: the load (4 messages, 2 end messages) is larger than the
  queue, so producers, consumers and the main thread all block; two rounds make
  an offset that forgets the rounds visible.
- `disruptor`: three sequences in two slots, so a slot is reused; three
  producers make gaps in what is published; two handlers hold batches of
  different lengths and one of them is the slower.
- `channel`: a number above 2 exists and can be late, so all of "counted as a
  producer", "counted as a consumer" and "dropped" happen; four consumers and
  two blocks leave consumers that read nothing. One block for two producers
  makes a slice empty.
- `pipe`: three writers and a buffer of two; two writers spin while the third
  blocks with the lock.
- `ticket_ring`: 12 tickets go three times around the ring and beyond the
  modulus, with a give-up at every one.
- `microbenchmarks`: the second run starts from what the first left behind, with
  one old thread and two new ones; a ring of two is written three times over by
  six iterations, an array of four is walked through with steps of one and two,
  and `idx` of `strcpy` may start anywhere below its modulus. With one slot a
  ring of `MaRing` makes its writer wait, and the process may exit before the
  backend has emptied it. A second has three ticks, so a difference of two
  readings has to borrow.
- `cpp_programs`: every set of good members is a file. 6 blocks and a null
  message in 4 slots: the consumer can be lapped, or not; two producers of three
  blocks per loop, and four with less than one each, make the rest of the
  division; no processor makes no producer.
- `ws_golang`, `ws_cpp`: counts on both sides of the array's size, in both
  directions, and both ways to configure server and clients differently. Two
  clients of the Go server already lose an increment, leave an entry out and
  move `Idx` past the end; no client, one or both have another url. In C++ the
  third client carries it.
- `latency_report`: steps that divide 100, one that does not, one beyond 100 and
  none; ties and unread messages; with step 25 and 4 latencies the exact product
  is an integer in every column.

**Deadlock** is checked except in two runs, where the program really stops.
`channel`: a late consumer can leave the main goroutine sending nil to consumers
that are themselves sending (section 5). `ticket_ring`: behind a ticket that was
given up, every other thread spins for ever.

## 4. Fairness

Liveness is stated under weak fairness of each thread, goroutine, process or hub
taken as a whole, and of nothing else: an operating system or a Go scheduler
runs whoever can run again and again. In particular

- no lock is assumed to be fair: in `PipeTrans` and `Microbenchmarks` a thread
  can be overtaken, but only by the finitely many iterations of the others;
- connections never have to break and `malloc` never has to fail (`Break` and
  `MallocFails` have no fairness);
- in `ChannelTrans` a goroutine that waits on a channel can go on when its
  partner comes, which is what weak fairness of its send or receive says;
- a spurious failure never has to happen and never has to stop;
- `DisruptorTrans` asks for less: that some thread which can go on goes on. None
  of its threads can run without end while the others stand still, so nothing
  need be said about which. Nothing is asked of the handlers once the report is
  over: their threads are daemons (`LatencyBenchmarkDisruptor.java:111`) and may
  be gone.

Where a program may hang, the property says when: `AllEnd` and `HubAllEnd` exclude
a server and clients that are all configured to receive, and the next-state
relations have an action `Hangs`, or `HubHangs`, for that state; `AllEnd` needs a
client that reaches the server besides, because nothing else stops it; `TerminatesUnlessLate` and `FinishesUnlessGivenUp` exclude the
two cases above; `AllSeenUnlessOver` excludes handlers that the report does not
wait for, `Terminates` of `Microbenchmarks` excludes `loopCasTruth`; and
`ReportEnds` says that a step of 0 is the one with which a report does not end.

## 5. Where the code does not do what it says

- **`channel_early_report`.** `benchmark_wr` stops waiting for consumers when it
  has received the largest number, whichever consumers that leaves out. Their
  numbers arrive later on the same channel as the completion signals, where a 1
  is counted as a complete producer (`main.go:130`). In the counterexample the
  main goroutine hears 2 first, takes the late 1 for its only producer, sends nil
  to both consumers and leaves the join loop ("// join go routine",
  `main.go:125`) while the producer has sent nothing: the report is generated from
  times that were never taken. It may also send nil while everyone else sends to
  it, and the benchmark hangs. With three consumers or more a 2 can be late as
  well, and is counted as a complete consumer (line 137); the run has two, and
  `channel` has four. `JoinedAllUnlessLate` and `TerminatesUnlessLate` show there
  that nothing goes wrong without a late number.
- **`disruptor_sleep`.** "// wait consumer completed"
  (`LatencyBenchmarkDisruptor.java:136`) stands over a sleep of one second.
  Nothing bounds how long a handler takes, and the report then meets null
  records. `FailsOnlyWhenAhead` shows that a report fails in no other way: some
  message has been passed by no handler, or there is nothing to report.

Seen while modelling, without a run of its own:

- With one processor `hc / 2` is 0, and the Java report of such a benchmark
  fails on an empty array or on null records (theorem `FailureOnlyWhenEmpty`:
  only then). `hardware_concurrency` may return 0, and two of the three
  benchmarks of `c_malloc_free` then report everything as lost
  (`ReportExactUnlessLapped`).
- A lapped consumer of `FreeRing` may read as many messages as were written, and
  the loss is not reported.
- A report step of 0 passes all loaders and makes the first loop of every report
  endless (`ReportEnds`).
- `loop_increment.cpp:72` compares what the compare-and-exchange returns with the
  value it expected. If the library's macro returns a truth value, as the
  benchmarks of `muggle_atomic` take it to, the loop does not end
  (`loopCasTruth`).
- `muggle_mutex.cpp:17`: no `SetUp` initialises the mutex; the benchmark relies
  on a lock whose memory happens to be good. `MutexAlive` speaks of the fixture
  of `muggle_thread_trans_write` only, which does initialise its mutex.
- `ws_config.cpp:102` copies `dir` with the size of `host`, which is larger.

## 6. Proofs

Each `X_proof` module holds the theorems about `X` or, when `X` is a base module,
about the two that extend it. Where the proofs of both Java transports need the
same facts of a producer (which ids it owns, what a turn of its loops does), each
has them as lemmas at its beginning. `Cells` has lemmas on `r * width + k` (a cell has one row and one
column, equal remainders less than the modulus apart are equal, masking twice is
masking once) and on a range that is divided into equal slices of which the last
takes the rest, as the Go channel benchmark and `c_malloc_free` do.

### BlockingQueueTrans

For all producers, consumers, rounds, records per round and capacities that
satisfy `ConfigAssumption` and `QueueAssumption`. `OnePlace` is not inductive:
that a message is not put twice needs to know which messages a producer has
still to send. `IndInv` adds, in the order in which the proof uses them,

1. *BaseInv*: `TypeOK`, `LoopInv` (the loop variables of a producer in each
   state), `ProducerPhaseInv` (what the phase and the index of the main thread's
   loop say of the producers), `HeldInv`;
2. *StopInv*: `ConsumerPhaseInv` (the same for the consumers) and `PoisonInv`:
   an id -1 is queued only after all producers were joined, nothing stands
   behind one that is not one, and a consumer that has stopped leaves only
   such ids;
3. *PlaceInv*: `OnePlace` and `SentInv`: the k-th message of a producer is
   queued, held or read exactly when the producer has sent k + 1 messages. That
   two producers' ids differ is `CellUnique`, that every id has a producer
   `CellExists`;
4. *TimeInv*: `RecordInv` (the write records are there exactly for finished
   messages), `StampInv` and `LatencyPositive`.

Each layer is preserved by every action given the layers before it; there is one
step per action. From `IndInv` follow `TypeCorrect`, `ExactlyOnePlace`,
`PoisonIsLast`, `LatenciesPositive`; `ReportsComplete` (all consumers done leaves
a queue of ids -1, so by `SentInv` all messages are read); `FailureOnlyWhenEmpty`;
`RecordsKept` (no record is written a second time); and `ImplementsTransfer`:
every step of the benchmark maps to a step of `Transfer` or changes nothing in
it, assuming at least one consumer (without one the benchmark reports what
nobody has read, which the code does too). `MessagesInOrder`: that no later
message of a producer overtakes an earlier one is kept by every step once
`SentInv` and `OnePlace` are known; only `put` and `take` can disturb it.

### TicketRing

For all numbers of threads below the modulus, and every ring size that divides
the modulus (`TicketAssumption`: the code takes 2^32 and a power of two), with
and without spurious failures. The heart is that a thread compares only the low
bits of `cursor` with its ticket. `NoneForgotten` says that every ticket between
`cursor` and `next` is held by a thread or was given up, `TicketsInWindow` that no
two threads hold the same, and `GivenUpBlocks` that the only ticket given up is
`cursor` itself. So the window has no more tickets than threads that are at work,
and one that was given up; a pigeonhole argument on an injection into the threads
bounds it, and `RemainderUnique` turns equal low bits into equal tickets.
`Publish` therefore moves the cursor by one (`CursorMovesByOne`), from a
written slot (`PublishedIsWritten`), and after a give-up never (`GivenUpIsLast`).
`SlotsNeverShared`: with no more threads than slots, no slot is written by two.
`NothingIsLost` (property `NoTicketLost`) counts the tickets that were taken as a set of pairs of a thread
and an iteration, whose cardinality is a product, and compares it with `cursor`.

### Microbenchmarks

`LockSafe`, `CounterExact`, `WalkSafe` and `LogExact`: the four invariants of the
run, for every set of the benchmarks and all numbers of threads, runs and
iterations and sizes of arrays and rings that satisfy the assumptions of the five
modules. A benchmark of the process uses its own variables and leaves the
others as they are (`ThreadKeeps`), so `MicroInd` has one part for each module:

1. *HarnessInd*: how many iterations a thread has left, where it is (`LeftOf`),
   and that the barriers keep the threads together (`Together`): all are before
   the iterations, all in them, or all behind. This is what makes `SetUp` and
   `TearDown` harmless although every thread runs them on the same fixture: none
   of them is in an iteration then.
2. *CounterInd*: which benchmark has threads where (`CounterPlaces`), what `SetUp`
   has left behind (`FreshCounter`), and that a thread between its load and its
   store has the value that the counter still has (`CounterInHand`), because it
   is the only one there: it holds the lock, or is the only thread. The sum of
   the iterations is the cardinality of a set of pairs of a thread and a number
   (`Additions`), to which an iteration adds one pair, so that an addition needs
   no induction over the threads. `StoresCounted` says what a plain store last
   stored.
3. *ArrayInd*: what is held (`HeldInRun`), and for each of the three walks how often
   each entry was used, as a function of where the index stands: `LogPlace` and
   `StrPlace` are the places of an entry on the walk, and an entry was used once
   more than the next one exactly when the walk has passed it in this round.
   `VisitedEvenly` follows. The times of `time_elapsed_measure` rise because each
   is the clock since `origin`, which the quotient and the remainder of a
   timespec add up to.
4. *MaInd*: which statements of `call_once` are done (`OnceInv`); for each ring, that
   the lines written are its first records and the slots between the backend and
   the writer hold the next ones (`RingOf`); and where the writer of each ring
   stands (`WriterOf`). A slot that is filled is not one the backend has still to
   read, by `RemainderUnique`.

### DisruptorTrans

`RingGuarded`: `RingInv` for all producers, messages and capacities, and at least
one handler. Without a handler nothing gates the producers and they overwrite
one another, so the theorem needs it. The window of the last `Capacity` sequences
has distinct slots (`WindowDistinct`), what is in the hands of a producer and what
a handler has not passed both lie in it (`InHandInWindow`, `AheadInWindow`), and a
handler is behind everything that is in hand. `IndInv` says so, in `WriteInv`,
`SentInv`, `SlotInv` and `ReaderInv`: which producer holds which sequence, that
claimed sequences are sent or in hand, what the slots of the window hold, and
where the handlers are. `Claim` waits until every handler has released the
sequence that was in the slot before, and `GateHolds` keeps this for as long as
the sequence is in use.

`FailsOnlyAhead`: `FailsOnlyWhenAhead` for the same instances and those without a
handler. `ReportInv` adds to `IndInv` that the producers were joined before the
report (`JoinedInv`), and which of the three records of a message are there
(`RecordInv`): the producer's from the end of its turn, a handler's as soon as it
has passed the message. A report that fails has met a record that is missing, so
no handler has passed that message, or there was none to meet.

### ChannelTrans

`ChannelsExact`: `ChannelInv` for all producers, consumers, loops and blocks. It is
inductive: `LoopInv` and `StampsFollow` tie the times of a block to the place of its
producer in its loops, `PhaseInv` and `NumbersInv` the counters of the main
goroutine to the goroutines that have announced themselves, were sent nil or
signalled. The slices of the producers partition the blocks of a loop
(lemmas of `Cells`), so each block has one producer, and what was
counted is a cardinality of a set of goroutines that a step changes by one. For
a benchmark with no late consumer, that all were counted means that all have
signalled (`JoinedUnlessLate`), and every step maps to a step of `Transfer` or
changes nothing in it (`ChannelImplementsTransfer`).

### PipeTrans

`NothingLostInPipe`: `PipeInv` is inductive for all producers, messages and sizes
of the buffer. `LockHeld` says which states hold the spinlock; `PipeInSequence`,
`HeldInSequence` and `GotInSequence` that the messages of a writer stand in the
pipe in their order behind what the consumer has of them, and that all which
were written are somewhere on that way. `NothingBehindEnd` then only needs that
the main thread writes when no producer can. `PipeImplementsTransfer` follows
with the same mapping that TLC checks.

### CppPrograms

`SettingsAlwaysComplete`: `ConfigInv` for every set of programs and every file. It
is an induction over the members that are assigned: what `config` holds is what
stands before `key`.

`FreedOnce` and `ReportExact`: `FreeInv` and `ReportExactUnlessLapped` for every
number of processors, loops, blocks per loop and slots, with and without failing
allocations. A turn of a producer is about one block, no two turns are about the
same one, and every block has a turn if there is a producer (`TurnIsBlock`,
`TurnUnique`, `TurnCovers`, from the slices of `Cells`). `RingInd` says with it
whose a block is while the consumer was not lapped: untouched before its turn
(`Taken`, `InHand`), in a producer's hands, in one slot of the window from `pos`
to `cursor`, in the consumer's hands, or freed (`OwnerInv`, `WindowInv`).
`WindowInv` speaks only of a window that fits into the ring: a writer may be about
to lap the consumer, and the read that finds it out sets `lapped`. `PositionInv`
bounds what is read by what was written and what is written by the cardinality
of `Taken`, lapped or not, which is why `cnt` never exceeds the number of blocks.
At the report the window is empty and all turns are over, so nothing is left
allocated, and `cnt` is the cardinality of the freed blocks.

### Websockets

For every set of clients and every set of configurations, also those in which
the two sides differ.

`NoEntryTwice`, `LoneClientExact` and `ClientReportsExact`: `ElapsedInv`,
`LoneReportExact` and `ClientReportExact` of `WsTrans`. The goroutines of several
peers read and write `Idx` in any order, so nothing can be said of where an entry
is written; that none is written twice follows from where a message is instead.
`WsInd` adds: `LinkInv` (what the state of a connection says of the goroutines at
its two ends), `SendInv` (the loops that send), `UpInv` (the messages of a client
stand in its connection in their order, behind those its peer has got, and the
one in hand is not stored), `StoredInv` (what is stored was got), `LoneInv` (with
one client only, `Idx` counts what was stored), `DownInv` and `ReportInv` (the same
for the messages of the server and what a client has kept of them).

`HubArrayExact`, `LeaverIsReported` and `LeaverHasAll`: `HubInv`, `LeaverReported`
and `LeaverGotAll` of `WsHub`. `HubInd` adds what the two ends of a connection have
done (`HubLinkInv`), that what a client has in the array and what is on its way is
all of its messages unless the array is full (`HubUpInv`, with the cardinality of
`EntriesOf`), the same for the messages of the server (`HubDownInv`), and that a
server which has ended was ended by one client (`LeaverInv`).

### LatencyReport

For every number of latencies, all latencies below the mark and every report
step that is not negative; in `Websockets_proof`.

`ReportIndexed` and `QuantilesExact`: `IndexInv` and `QuantileUnderLabel`. That
an index is inside the array follows from where its loop is: `ReportInd` says that
the labels are the multiples of the step below 100, and 100 (`LabelInv`), that a
row has a cell under each label that its loop has passed (`LengthInv`), and that
the first row is read from the array as it was measured, the second from the
sorted one (`SourceInv`). `IndexUnderLabel` then bounds both values that the
truncated product may have, and an empty array is the only one for which an index
may be outside.

The quantile needs to know what `Sorted` returns, a CHOOSE of a function that
rises and has as many entries of each value as the array. `SortExists` shows that
there is one: by exchanging the largest entry for the last one and sorting what
stands before it. The library's induction takes an operator as a parameter, which
the provers cannot instantiate, but an induction over the numbers in a set does
not: `LeastElement` gets it from the well-foundedness of strict inclusion of
finite sets, `NatSetInduction` follows, and `SortExists` and `NeverFalls` use it.
`SameInSet` then carries the counts of single values over to sets of values, so
that `QuantileOf` can count the entries below a cell in the sorted array, where
they stand before it.

## 7. Only model-checked

- Liveness, because it rests on fairness and ENABLED, which the proof system
  does not handle.
- That the sort of each library returns what `Sorted` says, which is taken from how
  the programs use it.

Every invariant, action property and refinement that a passing run checks is stated by a
theorem.

Seven inductive invariants stand behind theorems and in no run: `IndInv` and
`ReportInv` of `DisruptorTrans`, `RingInd` of `FreeRing`, `MicroInd` of
`Microbenchmarks`, `WsInd` of `WsTrans`, `HubInd` of `WsHub` and `ReportInd` of
`LatencyReport`. TLC was used on
them while the proofs were written, on the instances of the runs and on others.
The runs check what follows from them and says something of the code.

## 8. Not modelled

- C microbenchmarks of single operations: one thread times one operation on data
  of its own, through a harness in a submodule. There is no shared state and no
  index.
- Java configuration and launchers: getters, setters and the command line. The
  sizes they set are the constants of the other modules.
- The Go loaders: input and output only. What can differ between two
  configurations of the websocket programs (direction, count, url) is in `Confs`.
- The average of the Java report, the dump of its raw records, file names, open
  modes and formatting of all reports.
- The number of records is a product of three ints
  (`LatencyBenchmarkThreadTrans.java:76`), which can overflow for loads far above
  those of the programs; the model takes it to be exact.
- A negative report step: the loop variable would wrap around after billions of
  labels.
- What the handlers of a Disruptor do after the report: with the process they end;
  when another benchmark follows, what they still do meets nothing that it uses.
- uWS closes a socket by force when the other end does not answer in time; in
  `WsHub` an end that does not answer is a broken connection.

## 9. Plan

Done, in this order: `Transfer`, `ThreadTrans` with `BlockingQueueTrans` and its
theorems; the other transports; the ring writers and the theorems of
`TicketRing`; the websocket programs; the reports; the fixtures, `loop_increment`
and the configuration files; the theorems of `PipeTrans`, `ChannelTrans`,
`DisruptorTrans` and `CppPrograms`, the latter with the ring of `FreeRing`; those of
`WsTrans` and `WsHub`; those of `Microbenchmarks`; those of `LatencyReport`.

To come: that no reachable state of `BlockingQueueTrans`, `ChannelTrans` and
`PipeTrans` is one in which everyone waits, for every value of the constants; it can
be stated by the guards of the actions, without ENABLED.

## 10. Running

In this directory:

```
tlc -workers 2 -config BlockingQueueTrans.cfg BlockingQueueTrans.tla
tlapm BlockingQueueTrans_proof.tla
```

Every `X.cfg` belongs to the module that `runs` in `PROJECT.json` names.
