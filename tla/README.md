# Verification of hi-perf-cmp

hi-perf-cmp compares high-performance code for state-machine replication in Rust, Go and
Java. Its programs are benchmarks, but the code they time is real: an order book with a
free list and intrusive queues, a copy-on-write variant of it whose snapshots are serialised
by another thread, the same book over a store with versions, lock-free rings, a condvar
mailbox, channels, atomic slots with a backoff ladder, SBE codecs, durable appends, echo
round trips over a network, and the harness that builds, runs and judges them. This directory holds TLA+ models of that code, the TLC
configurations that check them and TLAPS proofs about them. The Rust sources are the
reference; Go and Java are ports of the same programs.

Run a check with `tlc -config X.cfg M` and a proof with `tlapm M.tla`, in this directory.
`PROJECT.json` lists every run with its properties, the source lines of every definition,
the hazards, and for every property a faulty variant of the code (operators commented
"Faulty variant") under which TLC finds it violated.

## 1. Inventory

| component | state it keeps | operations | interacts with | what makes it correct |
|---|---|---|---|---|
| order book (`smr-collections/common/src/book.rs`) | slot pool, free list, id map, two ladders of price levels, best prices | insert, update, cancel, fill | workload, churn driver, codec | no slot lost or handed out twice, queues in arrival order, aggregates and best prices exact |
| copy-on-write book (`cowbook.rs`) | the same in chunks stamped with the generation they were born in | the same, capture | serializer thread | a captured Root never changes; same results as the flat book |
| snapshot codec (`snapshot.rs`, `cowsnap.rs`) | an image | encode, restore | both books | the image fits its counters; a restored book goes on like the original |
| churn driver (`churn.rs`) | live ids, op index, random state | next_op, prebuild, apply | both books | its list is the book's; the pool suffices |
| live drivers (`live_mvcc`, `live_mvcc_churn`) | busy flag, channel, durations | capture, hand off, skip, join | serializer thread | images are points in time, the writer never blocks, the report is complete |
| `live_stw`, `live_stw_churn` | the same in one thread | encode between operations | codec | |
| ultima book (`ultima-common`) | three tables in a store with versions (external), an id map beside it | insert, update, cancel, fill, one or many per transaction, pin_current, encode_at, restore_ultima | ultima_db | the same book as the flat one, at every commit and after a restore |
| ultima programs (`live_ultima*`, `ultima_batch_*`) | pinned versions in a channel, durations | commit, pin, hand off, join | serializer thread, store | a pinned version stays readable and its image is the book at the pin |
| SPSC ring (`thread-handoff/ring`, `handoff-compare`) | slots, head, tail, cached indices | push, pop, batch_publish, drain | one producer, one consumer | FIFO, no overwrite, everything delivered |
| MPSC ring (`handoff-compare/src/mpsc.rs`) | slots, availability rounds, claim cursor, head | batch_publish, drain | many producers, one consumer | every claim delivered once, in sequence order |
| condvar mailbox (`thread-handoff/condvar`) | slot, full flag, mutex, condition variable | send, recv | timer, responder | no lost wake-up, no token twice |
| atomic slots and backoff ladder (`thread-handoff/spin`, `backoff`) | req and resp; spins, yields, park time | request, respond, idle | timer, responder | no token erased; the ladder restarts after work |
| channel hand-off (`thread-handoff/channel`) | two queues (std), spin counters | send, spin_recv | timer, responder | one token in flight, nobody waits for ever |
| hand-off benchmarks (`handoff-compare/benches`) | start flags, stop flags, sink | start, poll, publish, drain, reset, stop, join | MPSC ring | an iteration measures its own tokens; every thread is joined |
| SBE codecs (`booksnap-sbe`, `aeron_sbe`, `bench-common/src/serial.rs`) | buffer, cursor, journal and frames | put and get of fields, groups, variable data | snapshot program, journal driver | what is decoded is what was encoded, in a reused buffer that is large enough |
| durable append (`bench-common/src/fswrite.rs`, `filesystem-write`) | file, samples | open, sync the directory, preallocate, append, sync | file system | what was synced survives a power loss |
| network round trips (`network-rtt`, `rpc-roundtrip`) | socket, round | serve, round_trip | network | a round is ended by its own echo |
| autobench (`autobench/src`) | verdict, series of samples, server child | build, correctness, microbench, tests | every cell | one verdict, earned by the samples; no server left behind |
| journal tool (`tools/journal`) | result files | compare, render | | |

The hard behaviours: two threads that share memory with no lock (rings, slots, the book and
its serializer), decisions on stale cached values (cached head and tail, the busy flag, the
readiness flag, the cached best price), stores published late or out of order, notifications
that arrive after their token is gone, an operation of several writes observed in between,
resources at their limit (ring full, pool exhausted, 16-bit group counters, buffers), a power
loss between a write and its sync, lost datagrams, servers, stages and artifacts that die
or hang, and shutdown with work in flight. `PROJECT.json` lists each at its line.

## 2. Modules

| module | models | extends / used by |
|---|---|---|
| `FifoChannel` | abstract: a bounded FIFO channel | refined by `SpscRing`, `MpscRing` |
| `SpscRing` | both SPSC rings and the ring experiment's barriers | `ThreadHandoff` |
| `Mailbox` | the condvar experiment, both threads | `ThreadHandoff` |
| `SlotHandoff` | the spin and backoff experiments, both threads, and the ladder | `ThreadHandoff` |
| `ChannelHandoff` | the channel experiment, both threads | `ThreadHandoff` |
| `ThreadHandoff`, `ThreadHandoff_proofs` | composition: the thread-handoff programs, one per behaviour | |
| `MpscRing` | the MPSC ring | `MpscBench` |
| `MpscBench`, `MpscBench_proofs` | composition: the ring, and the baseline, under the benchmark driver | |
| `AbstractBook` | abstract: queues of orders in arrival order | refined by `OrderBook` |
| `BookOps`, `BookOps_proofs` | the operations of `book.rs` as functions on a book, and what they do to its lists | `OrderBook`, `BookSnapshot`, `CowBook` |
| `OrderBook`, `MCOrderBook` | a book under arbitrary legal operations | `FlatBook_proofs` |
| `BookSnapshot` | encode and restore | `Churn`, `LiveMvcc`, `UltimaBook` |
| `Churn`, `FlatBook_proofs` | churn driver, book, and a second book restored from a snapshot; the proofs about it and about `OrderBook` | |
| `CowBook` | the copy-on-write book and its Roots | `LiveMvcc` |
| `LiveMvcc`, `LiveMvcc_proofs` | composition: the two-thread live programs over `CowBook` | |
| `UltimaBook` | the operations of `ultima-common` as functions on the tables of a transaction | `LiveUltima` |
| `LiveUltima`, `LiveUltima_proofs` | composition: writer, store, serializer, flat book and a restored replica | |
| `SbeLayout` | offsets and widths of the generated codecs, and buffers of bytes | `Sbe` |
| `Sbe` | the encoders and decoders at work in the snapshot and journal programs | `Records_proofs` |
| `DurableAppend`, `Records_proofs` | the four durable append programs over a page cache; the proofs about them and about `Sbe` | |
| `NetCell` | echo server and client over TCP, UDP and QUIC | `RunIter` |
| `TaskSpec` | the task registry of autobench | `RunIter` |
| `RunIter`, `RunIter_proofs` | composition: the harness with the cells it runs | |

### State and actions

*SpscRing.* `head` and `tail` are the shared atomics; `cachedHead` and `cachedTail` the
snapshots each side keeps. `BatchPublish` is the entry of push or batch_publish, up to the
decision by the cached index; `RefreshHead` a turn of the spin loop; `StoreSlot` a Relaxed
slot store, in any order; `PublishTail` the Release store. `Pop`, `Drain`, `RefreshTail`,
`LoadSlot`, `PublishHead` mirror it. The warm-up barrier of main is a guard of `BatchPublish`.
Index overflow (2^64 tokens) is out of reach and left out.

*MpscRing.* `Claim` is the fetch_add with the check against the cached head, `RefreshHead` the
backpressure loop, `StoreSlot` and `Publish` the slot and availability stores, `StartDrain`,
`FindToken`, `LoadSlot` and `EndDrain` a drain. `FifoChannel`'s queue is the contiguous
published prefix: the store that closes a gap sends several tokens at once.

*Mailbox.* One action per step under or outside the lock. `Notify` comes after the unlock.
`Park` releases the lock and joins the waiters in one step, which is what a condition variable
promises. `SpuriousWake` is always possible. The `if let` of recv's fast path has a dead
branch with one receiver per mailbox; it is shown dead (`FastPathNeverMisses`) and has no action.

*SlotHandoff.* Stores wait in a buffer per thread: a Release store takes effect after all
stores before it, a Relaxed one only after those to the same slot. A spin on an empty slot
changes nothing; the responder's `Idle` climbs the ladder.

*ChannelHandoff.* `Send` appends to an unbounded queue or finds the receiver gone; `SpinMiss` is
a failed try_recv; `Receive` is a successful try_recv or recv, which blocks once the polls are
used up. What a side does when its peer is gone is in `Gone` and in the next label.

*ThreadHandoff.* `program` is chosen at the start; only the variables of that program change.

*MpscBench.* A producer thread is `Poll` (compare_exchange of its start flag, or its stop flag),
the burst (`BeginBurst`, the steps of `MpscRing`, or `BaseAdd`) and `EndBurst`; the consumer
`DrainRing`, `AddToSink`, `LeaveDrainLoop`; main `StoreSize`, `ResetSink`, `StartProducer` per
producer, `SinkFull`, then `StopProducer` and `JoinProducer` one after the other. Program
`free` has the ring's producers publish bursts of any size whenever they like.

*BookOps, OrderBook.* A book is a record of pool, lanes, high-water mark, best prices, head
of the free list and id map. `alloc_slot`, `free_slot`, `unlink` and `repair_best` are
operators of their own; insert, update, cancel and fill are composed of them as in the code.
An insert into a full pool panics before it writes (`InsertPanics`) and ends the run.

*BookSnapshot.* Which fields travel (every slot below the high-water mark, freed ones too, and
the head of the free list), that restore rebuilds the id map, and what becomes of a group that
outgrows its counter (`Wrapped`, `Group`, `GroupPanics`). The refusals of restore (checksum and schema are in `Sbe`) are left out: images here are
intact and restored under the configuration they were taken in.

*Churn.* The driver's book is `primary`. Inserts at even op indices and departures at odd ones; prices, sides, victims and
fill-or-cancel, which the code draws at random, are arbitrary. `TakeSnapshot` may come at any
op boundary after the prebuild; the restored book then applies the same operations.

*CowBook.* A chunk has a reference in `heap` and its birth generation; the book and every Root
hold a table of references; a reference nobody holds is freed (`Reclaim`, the Arc). An
operation queues the cell writes the code performs, in its order, and `WriteCell` performs one:
copy if the chunk is older than the generation, then write in place. The scalars and the id map
are private to the writer and change at once. Indexing out of bounds, a panic in the code, is a
guard of `WriteCell` and `ReadCell`, and `TypeOK` shows that no write runs into it.

*LiveMvcc.* `k` is the timed iteration. The writer is `Prebuild`, `WarmupOp`, the handshake
(`StartHandshake`, `AwaitHandshake`), then per iteration `NoTrigger`, `SkipTrigger` or
`TakeTrigger` with `Send`, the operation (`BeginOp`, `Write`, `EndIteration`), and at the end
`CloseChannel` and `Join`. The serializer is `Recv`, `ReadCell`, `RecordDuration`, `ClearBusy`,
`DropCurrent`, `ExitLoop`. A cell is read in one step; a torn read would need the cell to
change, which `RootsFrozen` excludes. `ImageOf` is what encode_root has put in the buffer.
Order ids count up from 1 without the gaps the code leaves, which nothing depends on. A failing
encode is left to `Churn`, where the limits are checked.

*UltimaBook.* A book is the tables `levels`, `orders` and `meta` of a transaction and the id map
beside them. Rows are numbered from 1 and never recycled; slots on the wire are row - 1.
`ApplyInsert`, `ApplyUpdate`, `ApplyCancel` and their `Mt` forms (tables opened once per batch),
`RescanBest`, `EncodeAt`, `RestoreUltima` and both digests follow the code.

*LiveUltima.* A transaction is `Begin`, one `ApplyCommand` per command, `Commit`; the store is a
map from version to tables, and `Commit` collects versions outside the window that no pin holds.
`StartHandshake`, `TakeTrigger`, `SkipTrigger`, `Send`, `EndLoop`, `Join` and the serializer's
`Recv`, `OpenRead`, `EncodeView`, `ClearBusy`, `DropPin`, `ExitLoop` are as in `LiveMvcc`.
`JoinReplica` restores a second book from an image of the current version; the commands after it
are applied to both.

*SbeLayout, Sbe.* A buffer maps offsets to bytes, and a byte is a part of a named value, so a
field that is overlapped, skipped or read at the wrong place is seen. The cursor actions
(`EncodeBlock`, `EncodeGroup`, `EncodeElem`, `EndGroup`, and the same to decode) move a limit as
wrap, advance and parent do; an index out of bounds panics. A snapshot ends with its checksum
(`EncodeTrailer`), which `RestoreRefuses` compares. `NextMessage` and `NextPass` are the
loops of the programs.

*DurableAppend.* `cache` is the file as the program sees it, `disk` what the last sync made
durable, `dirty` the offsets written since; a `Crash` leaves any part of the dirty bytes and may
lose a directory entry that was not synced. `OpenTruncate`, `SyncFile`, `SyncDir`, `WriteZeros`,
`SyncZerosAndSeek`, then `BeginBatch`, `WriteEntry`, `SyncBatch` for warm-up and measured entries.

*NetCell, RunIter.* `port` says who has bound the port. Units in flight carry the round they
belong to, which the code cannot see, since all payloads are equal. The harness is `Main`,
`StageExits`, `StageTimesOut` and `JoinReaders` for build and tests, and per sample `SpawnServer`,
the readiness probes (`ProbeReady`; `ProbeBind` and `ProbeRelease` for QUIC, where the harness
binds the port itself), `NotReady` with `DrainStderr`, `StartClient` and `ClientExits`, or
`StartLocal` and `LocalExits` for a local cell, and `Check`. `KillOnDrop` is part of every step
that leaves run_network_once. The artifact, a client or a local cell, may stop going on at any time
(`ArtifactHangs`); `output()`, which waits for it, has no budget. A client's write or read may fail
at any time (`SocketError`).

## 3. Runs

| run | shows | bounds and why they are enough |
|---|---|---|
| `handoff` | ring: no slot is overwritten, the inductive invariant, the barrier, refinement of `FifoChannel`; mailbox and channel: flag and slot agree, one token in flight; slots: no token erased, the ladder exact; all: the program ends | a ring of 3 taken round four times by bursts and drains of 1 to 3, warm-up 4 is no multiple of 3; 5 round trips, so that a notification of one meets the parking of the next; park limit 6 between 4 and 8, as 1 000 000 lies between 512 000 and 1 024 000 |
| `mpsc` | in-order delivery without overwriting and with unambiguous rounds (`Inv`), refinement, every claim delivered, iterations exact, the benchmark ends | 2 producers (as in the benchmark), 4 slots, 8 claims: a producer can be a full round ahead, gaps of both, two rounds; 2 iterations |
| `book` | slots accounted for, links, id map (`Sound`), best prices, aggregates, refinement of `AbstractBook` | 3 slots, 2 levels a side, 4 inserts of 3, fills of 2: first, interior, last and only orders, recycled slots, the second fill capped |
| `churn` | driver and book agree, pool recycled and sufficient, every accepted configuration encodable, the restored book follows | counters of 2 bits for 16 (the limit is odd in both), a pool of 4, 9 operations, every accepted `steady` |
| `churn_constant` | *violation*: see findings | even `steady` |
| `live_mvcc` | Roots frozen, current-generation chunks unshared, reads frozen, images are points in time and the book equals a flat book with the same history, send never blocks, at most three versions, the run ends with a full report | both programs; a trigger at each of 2 iterations after the handshake: taken, skipped, taken while the last Root is being dropped; 3 slots in chunks of 2, so a chunk holds a slot being read and one being recycled |
| `live_ultima` | pinned versions readable, images are the pinned book, same book as the flat one, replica stays the same book, the run ends | all five programs, one or two commands per transaction, both table modes; the store keeps 2 versions (10 by default), fewer than the writer can commit while a message is in the channel |
| `sbe` | what is decoded is what was encoded, the snapshot buffer suffices | every book size up to 4 orders on 4 levels, records of up to 3 entries with texts of up to 2 bytes; one record does not fit the scratch buffer |
| `run_iter` | own echo, no server left, a pass is earned, a verdict unless run-iter waits for a process that does not end | every task; up to 3 samples for even and odd medians; payloads of 2 units arrive in parts |
| `run_iter_hang` | *violation*: see findings | one sample |
| `run_iter_no_budget` | *violation*: see findings | one sample |
| `fs` | acknowledged entries survive a power loss at any step; a sample measures its own batch | batches up to 3 over up to 2 warm-up and 4 measured entries: full, short and only batches in both parts; zero chunks that end inside an entry |

Deadlock checking is off (`CHECK_DEADLOCK FALSE`) in the book and churn runs only, where the
bound on ids or operations ends a behaviour, or the program has panicked. All other runs end in
an explicit final step.

### Fairness

* `SpscRing`, `MpscRing`, `MpscBench`: weak fairness of each thread. They spin, they never park,
  so the scheduler keeps running them. Nobody is obliged to claim in the free MPSC ring.
* `Mailbox`: weak fairness of each thread's steps, and strong fairness of acquiring a mutex: a
  thread that finds it free again and again gets it. Spurious wake-ups have no fairness.
* `SlotHandoff`: weak fairness of the steps that make headway, since both threads look at their
  slots for ever, and of the store buffers, since hardware does not hold a store back for ever.
* `ChannelHandoff`: weak fairness of each thread; a blocked recv is woken by the token.
* `LiveMvcc`, `LiveUltima`: weak fairness of writer and serializer, threads of one process.
* `RunIter`: weak fairness of the harness, of a bound server's echo, of a client and of a local
  artifact while they do not hang, and strong fairness of the ten-second deadline, which passes
  however often the probe alternates. `ArtifactHangs` ends what fairness obliges the artifact to,
  and nothing obliges it to hang or a socket to fail. Nothing makes a server bind, a stage exit
  other than by its budget, or an orphan go away.

### Findings

* **Churn overshoots by one** (`churn_constant`). `docs/superpowers/specs/2026-07-30-smr-collections-cancel-churn-design.md:105`
  says "Alternating insert/departure holds the live set **exactly** constant". `next_op`
  (churn.rs:85) alternates on the op index counted from the prebuild: with an even `steady` the
  first churn op is an insert and the set swings between steady and steady + 1. A pool of exactly
  `steady` slots, which `from_env` accepts, is then exhausted. `PoolSuffices` states the
  bound that does hold.
* **A server that is alive and not ready hangs run-iter** (`run_iter_hang`). After ten seconds
  `run_network_once` reads the server's stderr to its end (sampling.rs:263) before the drop guard
  is reached; the pipe of a live server has no end, so there is no verdict and the server is
  not killed. sampling.rs:235 says "The server child is ALWAYS killed via a drop guard", and
  run-iter.rs:6 "It emits exactly one JSON `Verdict` on stdout and ALWAYS exits 0".
* **An artifact that never exits hangs run-iter** (`run_iter_no_budget`). `run_local_once`
  (sampling.rs:217) and `run_network_once` (sampling.rs:282) wait in `output()` without a budget;
  only build and tests have one. `docs/superpowers/specs/2026-06-27-autobench-local-design.md:123`
  says of a handoff without synchronisation that it "tends to deadlock → the stage exceeds its
  timeout → `Timeout`/reject", and `2026-06-25-autobench-design.md:79` (same directory) that the stages are
  "hard-timeout-bounded"; `autobench/tasks/rust-thread-handoff-spin/program.md:65` says what the
  code does, that it "will hang this stage", and puts an external timeout around run-iter.

`VerdictOrBlocked` states what does hold: run-iter comes to a verdict, or it waits for ever for one
of four processes: an orphaned test binary that holds the pipes of a killed stage, a server that is
not ready, a client, or a local artifact.

## 4. Proofs

Proved for every value of the constants that satisfies the assumptions named in the modules
(`CapAssumption`, `TotalAssumption`, `BurstAssumption`, `RingAssumption`, `HandoffAssumption` and
their like in each module; for the book `BookConfig`, the checks of `from_env`, and
`BookWorkload`, that quantities are numbers). Each invariant below is inductive, and TLC
checked it on the instance of the run before it was proved.

* **ThreadHandoff_proofs**, the ring: `SpecInv`, and from it `SpecTypeOK`, `SpecNoOverwrite`,
  `SpecFifoDelivery`, `SpecTimedExcludesWarmup`. FIFO delivery is not inductive: a step that
  reads a slot needs to know what the slot holds (`Contents`), that needs that no store hits an
  unread slot, and that needs how far the cached indices may lag (`Lag`): the room judged by
  `cachedHead` is room by `head`, because `cachedHead <= head`. The arithmetic core is a lemma:
  two sequence numbers less than `Cap` apart never share a slot. `WarmupDrained` adds the
  barrier in terms of the index the producer polls. `RingRefinesFifo`: every step is a step of
  `FifoChannel` or changes nothing of it.
* **MpscBench_proofs**: `RingSound` for the free ring. In-order delivery rests on which slot
  holds which token (`NoOverwrite`), that on every stored token lying within one round of the
  ring (`Window`), and that on what each producer had checked before it stored (`Claims`).
  `RoundsUnambiguous` is why a flag of an earlier round is never taken for a token. For the
  program, `AccountsKept` adds a balance (`BenchInv`): what the producers have still to publish,
  what is in the ring and what the sink has make up the iteration; `BenchRingSound`,
  `IterationsExact` and `BenchRefinesFifo` follow. The refinement needs that a store that closes
  a gap moves the end of the published prefix over several tokens, and no other store moves it.
* **ThreadHandoff_proofs**, the latency programs: the two threads of each latency program hand one token round. The
  invariants say where it is (`InBox` and `RoundPhase` of `Mailbox`, their counterparts in
  `SlotHandoff` and `ChannelHandoff`): which thread has it, or which box, slot, store buffer or
  queue, and what the flags around it are then. `BlockingSound` and `SlotsAreSound` follow for
  every number of round trips, spin budget and ladder, every spurious wake-up and every order of
  buffered stores. `SlotsSound` includes the ladder (`LadderExact`): its rung is a closed form
  of the idle calls since the last request. The history counts them up to `MaxIdles`, which
  `HistoryAssumption` takes large enough for the park period to have reached its limit. `RingAmongPrograms` lifts the ring's theorems into the composition.
* **BookOps_proofs, FlatBook_proofs**, the book: `BookSound`, `AggregatesAreExact`, `BestAlwaysExact`,
  `BookRefinesAbstract`. None of `Sound`'s parts is inductive, and walking the links says little
  about a book whose links are being changed. The invariant (`IInv`) says that there *exist*
  queues `q` and a free list `f` which the book holds (`Holds`): its links spell them out in both
  directions, no slot occurs twice, their members are the slots in use, count and quantity of a
  level are those of its list, the id map and the cached best agree with them. Each operation has
  a lemma that gives its book field by field and a lemma that names the new lists: insert appends
  to one queue, cancel and fill cut a slot out of one and put it before the free list
  (`InsertHolds`, `UpdateHolds`, `LeftHolds`). `HoldsIsRead` then says that the walk of the
  properties (`Chain`, which could run into a cycle) returns these lists, and the same lists are
  the queues of `AbstractBook`.
* **FlatBook_proofs**, the churn driver: `DriverMatches`, `EveryConfigEncodes`, `PoolIsEnough`, `ReplicaStaysSame`. The
  invariant (`IInv`) joins the book (`Kept`: it holds lists, and slots never used are as
  `Book::new` made them), the driver (`Matches`: its list names the orders of the id map, each
  once) and the clock (`LiveCount`: how many orders rest follows from the parity of the op index).
  An insert is due only while fewer orders rest than ever may; if no slot is free, every slot
  below the high-water mark holds an order of the list (`FullBook`), so there is room for one
  more. The occupied levels are no more than the orders either, since each has a head
  (`LevelsFit`). `RestoreOfEncode` (in `BookOps_proofs`, for every book that is `Intact`) says that `restore` undoes `encode` when both groups fit their
  counters: every used slot, every occupied level (the elements are counted off in order,
  `NthEnumerates`) and the id map are found again, the rest was never written. What is about
  panics and the image assumes `CountersSuffice`: the largest `steady` fits the counter and the
  counter's limit is odd (65535 for both in the code), since an even `steady` has one order more
  than `steady` at rest. With an even limit it is false: TLC finds `SnapshotEncodable` violated in
  the `churn` instance with `GroupMax = 2`.
* **LiveMvcc_proofs**: first the copy-on-write book. `SpecEpoch` proves `EpochInv`, the argument
  of the SAFETY comment of `order_mut`: no chunk of the book is younger than the generation,
  every chunk of a Root is strictly older, so the chunk written in place is in no Root.
  `SpecRootsFrozen` and `SpecCurrentGenUnshared` follow; `RootsFrozen` alone is not inductive, as
  it says nothing of ages. `SpecMemoryExact`: exactly the chunks that are held are allocated.
  Then the programs. `LiveImplementsCowBook`: every step is a step of `CowBook` or leaves it
  unchanged, so the theorems about the book hold in them; the step that needs an argument is the
  serializer's drop, which must be of a Root that is alive. `FlightInv`, inductive together with
  `EpochInv`, says where every Root is. From it `LiveSendNeverBlocks`; with frozen Roots
  `LiveReadsFrozen`; with `MemoryExact` `LiveAtMostThreeVersions`.
  `SpecLockstep` compares the chunked book with a flat one that has the same history. Both are
  equal only between operations, so the invariant (`LockInv`) looks ahead: every cell holds what
  the flat book has there, or a write of it is still queued and the last such write brings it;
  the queue stays within the chunk table, so no `WriteCell` is out of bounds. It assumes
  `CowWorkload`, that the quantities a book is fed are numbers. From it
  `LiveImageIsPointInTime`: a Root is never changed (`RootsIntact`), the cells read so far are
  those of the book at the capture (`ReadWhole`), and what all reads make up is `Encode` of that
  book, of which `RestoreOfEncode` speaks. Its hypothesis `CountersSuffice` is that of the churn
  driver, and `CountInv` counts the orders as `LiveCount` does there.
* **LiveUltima_proofs**: first the operators of `UltimaBook`. `Same(u, b)` says that the tables u
  are the flat book b with its links translated: a slot of the pool to the row the id map names
  for the order in it. Rows and slots are numbered apart, since rows are never recycled, so the
  relation is stated over ids. `InsertSame`, `UpdateSame` and `DepartSame` (with the rescan
  for the best price) keep it, for every queue an order may stand in; `SameDigest` shows that
  digests do not see slots, with the walk of `IdsFrom` on both sides; `RestoreSame` that what
  `restore_ultima` makes of an image is the same book again. `Plain` adds, for programs without
  departures, that row and slot are numbered alike, whence equal images (`PlainImage`). Then the
  programs: `SpecPinned`, `SpecImage`, `SpecSame` and `SpecReplica` follow from `SafeInv`, which
  has five parts: the books are the same (`BookInv`, in a transaction too, between
  any two commands); how many orders rest after how many commands, so that there is room
  (`CountInv`); which versions the store has (`StoreInv`); that the version of every message is
  among them and is the book the message was made of (`PinInv`), which `Commit` keeps because a
  version in `Held` is never collected; and where the serializer is (`SerInv`). The hypotheses:
  `FlatBookFits`, that the flat book of the comparison has room for the orders that rest (`Cap`
  is about that book alone; `from_env` and, for `ultima_batch_insert`,
  `require_bump_capacity` demand as much, except that an even `steady` needs one slot more, see
  Findings); `CountersSuffice` as above; and for `SpecReplica` `ImageFits`, that the group counters
  count every order of an image, which `CountersSuffice` gives for all programs but
  `ultima_batch_insert`, whose number of orders the configuration does not limit to 65535 (it
  takes no snapshot).
* **Records_proofs**: first the codecs. `Table` says that no two fields of an accessor table
  overlap and none leaves its block, so `PutFields` leaves each field in the buffer (`PutHolds`)
  and its counterpart reads it (`GetHeld`), whatever the buffer held before. `CodecInv` says what
  lies behind each cursor: the encoder's limit is where the message so far ends
  (`Start`, `ElemsEnd`, computed from the sizes of the groups), and all of the message up to there
  is in the buffer; frame k of the journal holds message `Warmup + k`; a snapshot is whole before
  its checksum is put behind it; what the decoder has is the message up to its limit.
  `DecodedIsEncoded` alone is not inductive: it speaks of the decoder's last step only.
  `SpecDecoded` follows for every size of a book or record and every length of a text, and
  `SpecFits`, since no image is longer than 8 + 40 + 4 + 25 per level + 4 + 45 per order + 4 bytes
  (`EndFits`), of at most 2 levels a tick, and the checksum the image ends with is the one restore
  computes.
  Then the durable log: `LogSound`, an invariant that says which bytes the file has as the
  program sees it, which of them are on disk and where in a batch the program is; from it
  `AckedSurvives`, for a power loss at any step that keeps any part of the bytes not synced, and
  `SamplesAreExact`. The number of samples is a matter of division with remainder (`Quotient`).
* **RunIter_proofs**: `RunSound`, an invariant in parts: who holds the port, what travels between
  a client and its server, which step of the harness has which children, what the series hold.
  From it `EchoesAreOwn`, `ServersAreKilled` and `PassesAreEarned`. The last needs that the lower
  median has fewer than half of the samples below it and at least half not above it
  (`MedianIsMiddle`), and that a sorted arrangement exists at all (`SortingExists`).

The theorems are about the modules the runs check as they stand. Induction over data cannot be
stated with an operator parameter here; where a recursive function had to be known for every
argument (sums along a list, walks along the links, sorting) the lemmas take the least
counterexample instead, from `LeastNumber`, which follows from the well-foundedness of finite sets.

Only model-checked:
* every liveness property (`AllComplete`, `ClaimedIsDelivered`, `BenchEnds`, `EndsWithFullReport`,
  `RunEnds`, `VerdictOrBlocked`) and `ENABLED`, which the prover does not have. So `RefinesFifo`
  is stated without fairness.

Every safety invariant and every action property that a passing run checks is a theorem.

## 5. Not modelled

* disruptor hand-off, and the crossbeam and disruptor cells of the hand-off benchmarks: the
  protocol is inside the crates; the SPSC driver is the MPSC driver with one producer;
* `live_stw`: one thread that encodes between operations; encode and restore at an op boundary
  are in `Churn`;
* bincode and sbe_gen: calls into crates; the Java and Go codecs;
* `rpc-roundtrip`: a UDP round trip as in `NetCell` around a codec as in `Sbe`;
* loopback mode of the network cells (client and server of `NetCell` in one process), TLS and
  quinn, duplicated datagrams, which the code cannot tell from the next echo;
* the stores below the code: ultima_db, std's channels and the kernel are modelled from how they
  are used, and marked external in `PROJECT.json`;
* the Go and Java ports. One limit differs: the Java `BookSnapshotEncoder` (line 930) refuses a
  group of 65535 elements, which its configuration and the plan
  (`docs/superpowers/plans/2026-07-15-smr-collections.md:19`) accept;
* result lines, percentiles, histograms, memory sampling, the journal tool's tables,
  provisioning scripts.

## 6. Plan

Done, in this order: rings and their abstract channel; the book and its abstract queues; codec
and churn; the copy-on-write book; the live programs; mailbox; slots; durable append; the ultima
book and its programs; SBE codecs; the network cells and the harness; the benchmark driver;
channels, and the composition of the thread-handoff programs; the proofs of section 4.

What is left to model, in the order of what it would say: the `live_stw` programs beside the two
live ones, to compare where an image is taken; the RPC round trips, as `NetCell` with the cursors
of `Sbe` on both sides; the journal tool, whose tables are a fold over result lines.
What is left to prove is liveness, which needs rules the prover does not have.
