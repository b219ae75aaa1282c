--------------------------- MODULE DurableAppend ---------------------------
(***************************************************************************)
(* The durable-append harness (rust/bench-common/src/fswrite.rs) and its   *)
(* four programs (rust/filesystem-write/{fsync,fdatasync,prealloc,batch}): *)
(* create or truncate the log, make its existence durable, optionally fill *)
(* it with zeros, then append warm-up and measured entries with one sync   *)
(* per batch.                                                              *)
(*                                                                         *)
(* The kernel is modelled from how the harness uses it: `cache` is the     *)
(* file as the program sees it, `disk` as the last sync left it, `dirty`   *)
(* the bytes written since.  A dirty byte may reach the disk at any time,  *)
(* so a crash leaves any subset of them.  sync_all and sync_data both make *)
(* the data and the size durable; the timestamps that tell them apart are  *)
(* no part of a recovered log.                                             *)
(*                                                                         *)
(* A log of an earlier run may be there: its entries are the same byte     *)
(* 0xAB, so only the truncation tells it from this run's.                  *)
(***************************************************************************)
EXTENDS Integers, Sequences, FiniteSets

CONSTANTS
    MaxWarmup,      \* warm-up entries, from FSW_WARMUP
    MaxIterations,  \* measured entries, from FSW_ITERATIONS
    MaxBatch,       \* entries per group commit, from FSW_BATCH
    EntryBytes,     \* FSW_ENTRY_BYTES
    ZeroChunk       \* bytes of zeros written at once (1 MiB)

\* FsConfig::from_env refuses zero for each of them.
ASSUME FsAssumption ==
    /\ {MaxWarmup, MaxIterations, MaxBatch} \subseteq Nat \ {0}
    /\ {EntryBytes, ZeroChunk} \subseteq Nat \ {0}

VARIABLES
    program,    \* which of the four programs runs
    cfg,        \* its FsConfig: warmup, iterations, batch
    exists,     \* the directory entry: "no", "cached", "durable"
    cache,      \* the bytes of the file, as a reader of the machine sees them
    disk,       \* the bytes a crash certainly leaves
    dirty,      \* offsets written since the last sync
    pos,        \* the file offset
    pc,         \* the step of run_durable_append to take next
    remaining,  \* bytes still to pre-write, or entries of this run_entries
    count,      \* entries of this batch still to write
    samples,    \* per timed sync: what it had to make durable
    acked,      \* entries whose sync has returned
    report,     \* samples counted by emit_fs, -1 before
    image       \* after a crash: is the file found, and with which bytes

vars == <<program, cfg, exists, cache, disk, dirty, pos, pc, remaining, count,
          samples, acked, report, image>>

Zero == "0"
Entry == "e"        \* the byte 0xAB

Programs == {"fsync", "fdatasync", "prealloc", "batch"}
Prealloc == program \in {"prealloc", "batch"}
BatchSize == IF program = "batch" THEN cfg.batch ELSE 1

Least(a, b) == IF a < b THEN a ELSE b

Repeat(b, n) == [i \in 1..n |-> b]

\* The file is absent, or an earlier run's log of two entries.
Init ==
    /\ program \in Programs
    /\ cfg \in [warmup : 1..MaxWarmup, iterations : 1..MaxIterations, batch : 1..MaxBatch]
    /\ program # "batch" => cfg.batch = 1
    /\ \/ exists = "no" /\ disk = <<>>
       \/ exists = "durable" /\ disk = Repeat(Entry, 2 * EntryBytes)
    /\ cache = disk
    /\ dirty = {} /\ pos = 0
    /\ pc = "open" /\ remaining = 0 /\ count = 0
    /\ samples = <<>> /\ acked = 0 /\ report = -1
    /\ image = [found |-> FALSE, bytes |-> <<>>]

-----------------------------------------------------------------------------
(* The file.                                                               *)

\* write_all of n bytes b at the offset; it extends the file if it must.
WriteAll(b, n) ==
    /\ cache' = [i \in 1..(IF pos + n > Len(cache) THEN pos + n ELSE Len(cache)) |->
                    IF i \in (pos + 1)..(pos + n) THEN b ELSE cache[i]]
    /\ dirty' = dirty \cup (pos + 1)..(pos + n)
    /\ pos' = pos + n

\* sync_all or sync_data has returned.
Synced == disk' = cache /\ dirty' = {}

\* What a crash may leave: the size on disk is the synced one or the cached
\* one, a dirty byte was written back or not, and a byte of a grown file that
\* was not is zero.
CrashImages ==
    UNION {{[i \in 1..size |->
                IF i \in kept /\ i <= Len(cache) THEN cache[i]
                ELSE IF i <= Len(disk) THEN disk[i] ELSE Zero] :
            kept \in SUBSET dirty} : size \in {Len(disk), Len(cache)}}

-----------------------------------------------------------------------------
(* run_durable_append.                                                     *)

OpenTruncate ==
    /\ pc = "open"
    /\ exists' = IF exists = "no" THEN "cached" ELSE exists
    /\ cache' = <<>>
    /\ pc' = "sync_file"
    /\ UNCHANGED <<program, cfg, disk, dirty, pos, remaining, count, samples, acked, report, image>>

SyncFile ==
    /\ pc = "sync_file"
    /\ Synced
    /\ pc' = "sync_dir"
    /\ UNCHANGED <<program, cfg, exists, cache, pos, remaining, count, samples, acked, report, image>>

\* Faulty variant: the zeros cover the measured entries only.
PreallocBytesMeasured == cfg.iterations * EntryBytes

PreallocBytes == (cfg.warmup + cfg.iterations) * EntryBytes

\* Faulty variant: the directory is not synced.
SyncDirNot ==
    /\ pc = "sync_dir"
    /\ IF Prealloc
       THEN pc' = "zeros" /\ remaining' = PreallocBytes
       ELSE pc' = "warmup" /\ remaining' = cfg.warmup
    /\ UNCHANGED <<program, cfg, exists, cache, disk, dirty, pos, count, samples, acked, report, image>>

SyncDir ==
    /\ pc = "sync_dir"
    /\ exists' = "durable"
    /\ IF Prealloc
       THEN pc' = "zeros" /\ remaining' = PreallocBytes
       ELSE pc' = "warmup" /\ remaining' = cfg.warmup
    /\ UNCHANGED <<program, cfg, cache, disk, dirty, pos, count, samples, acked, report, image>>

WriteZeros ==
    /\ pc = "zeros"
    /\ remaining > 0
    /\ LET n == Least(remaining, ZeroChunk)
       IN  WriteAll(Zero, n) /\ remaining' = remaining - n
    /\ UNCHANGED <<program, cfg, exists, disk, pc, count, samples, acked, report, image>>

SyncZerosAndSeek ==
    /\ pc = "zeros"
    /\ remaining = 0
    /\ Synced
    /\ pos' = 0
    /\ pc' = "warmup" /\ remaining' = cfg.warmup
    /\ UNCHANGED <<program, cfg, exists, cache, count, samples, acked, report, image>>

-----------------------------------------------------------------------------
(* run_entries: phase is "warmup" or "timed"; "<phase>_sync" is the point   *)
(* where the batch is written and not yet synced.                          *)

SyncPoint(phase) == IF phase = "warmup" THEN "warmup_sync" ELSE "timed_sync"

BatchCount == Least(remaining, BatchSize)

BeginBatch(phase) ==
    /\ pc = phase
    /\ remaining > 0
    /\ count' = BatchCount
    /\ pc' = SyncPoint(phase)
    /\ UNCHANGED <<program, cfg, exists, cache, disk, dirty, pos, remaining, samples, acked, report, image>>

WriteEntry(phase) ==
    /\ pc = SyncPoint(phase)
    /\ count > 0
    /\ WriteAll(Entry, EntryBytes)
    /\ count' = count - 1
    /\ UNCHANGED <<program, cfg, exists, disk, pc, remaining, samples, acked, report, image>>

\* The sync, its sample when the phase is timed, and the loop's bookkeeping.
SyncBatch(phase) ==
    /\ pc = SyncPoint(phase)
    /\ count = 0
    /\ Synced
    /\ samples' = IF phase = "timed"
                  THEN Append(samples, [bytes |-> Cardinality(dirty),
                                        grows |-> Len(cache) > Len(disk)])
                  ELSE samples
    /\ acked' = pos \div EntryBytes
    /\ remaining' = remaining - BatchCount
    /\ pc' = phase
    /\ UNCHANGED <<program, cfg, exists, cache, pos, count, report, image>>

EndWarmup ==
    /\ pc = "warmup"
    /\ remaining = 0
    /\ pc' = "timed" /\ remaining' = cfg.iterations
    /\ UNCHANGED <<program, cfg, exists, cache, disk, dirty, pos, count, samples, acked, report, image>>

EmitFs ==
    /\ pc = "timed"
    /\ remaining = 0
    /\ report' = Len(samples)
    /\ pc' = "reported"
    /\ UNCHANGED <<program, cfg, exists, cache, disk, dirty, pos, remaining, count, samples, acked, image>>

Batching == pc \in {"warmup_sync", "timed_sync"}

\* Any call may return an error: the run ends without result lines.  A write
\* of an entry or of zeros may have got part of the way.
IoError ==
    /\ Batching \/ pc \in {"open", "sync_file", "sync_dir", "zeros"}
    /\ pc' = "failed"
    /\ UNCHANGED <<program, cfg, exists, cache, disk, dirty, pos, remaining, count, samples, acked, report, image>>

WriteError ==
    /\ \/ Batching /\ count > 0 /\ \E n \in 1..(EntryBytes - 1) : WriteAll(Entry, n)
       \/ pc = "zeros" /\ \E n \in 1..(Least(remaining, ZeroChunk) - 1) : WriteAll(Zero, n)
    /\ pc' = "failed"
    /\ UNCHANGED <<program, cfg, exists, disk, remaining, count, samples, acked, report, image>>

\* The machine stops, during the run or after it.
Crash ==
    /\ pc # "crashed"
    /\ \/ exists # "no" /\ image' \in [found : {TRUE}, bytes : CrashImages]
       \/ exists # "durable" /\ image' = [found |-> FALSE, bytes |-> <<>>]
    /\ pc' = "crashed"
    /\ UNCHANGED <<program, cfg, exists, cache, disk, dirty, pos, remaining, count, samples, acked, report>>

Next ==
    \/ OpenTruncate \/ SyncFile \/ SyncDir
    \/ WriteZeros \/ SyncZerosAndSeek
    \/ \E phase \in {"warmup", "timed"} : BeginBatch(phase) \/ WriteEntry(phase) \/ SyncBatch(phase)
    \/ EndWarmup \/ EmitFs
    \/ IoError \/ WriteError \/ Crash
    \/ pc = "crashed" /\ UNCHANGED vars

Spec == Init /\ [][Next]_vars

-----------------------------------------------------------------------------
(* Properties.                                                             *)

Labels == {"open", "sync_file", "sync_dir", "zeros", "warmup", "warmup_sync",
           "timed", "timed_sync", "reported", "failed", "crashed"}

\* Every variable has its type.
TypeOK ==
    /\ program \in Programs /\ pc \in Labels
    /\ cfg \in [warmup : 1..MaxWarmup, iterations : 1..MaxIterations, batch : 1..MaxBatch]
    /\ exists \in {"no", "cached", "durable"}
    /\ cache \in Seq({Zero, Entry}) /\ disk \in Seq({Zero, Entry})
    /\ dirty \subseteq 1..Len(cache)
    /\ pos \in 0..Len(cache)
    /\ remaining \in Nat /\ count \in 0..MaxBatch
    /\ acked \in 0..(cfg.warmup + cfg.iterations)
    /\ samples \in Seq([bytes : Nat, grows : BOOLEAN])

\* The entries run_durable_append has begun to write.
Begun == (pos + EntryBytes - 1) \div EntryBytes

\* A crash at any point keeps what was acknowledged and invents nothing: once
\* an entry's sync has returned, the log is found under its name and holds
\* the whole entry, and no byte of an entry is found where this run has not
\* written one, be it zeros, a hole or the log of an earlier run.
CrashKeepsAcked ==
    pc = "crashed" /\ acked > 0 =>
        /\ image.found
        /\ Len(image.bytes) >= acked * EntryBytes
        /\ \A i \in 1..Len(image.bytes) :
              /\ i <= acked * EntryBytes => image.bytes[i] = Entry
              /\ i > Begun * EntryBytes => image.bytes[i] = Zero

\* What the result lines are about: one sample per batch of the measured
\* entries, the last one short if it must be; each timed sync writes the
\* entries of its own batch and nothing left over from the warm-up or the
\* zeros, and in a preallocated file it never has to extend the file.
SamplesMeasureOwnBatch ==
    /\ TypeOK
    /\ \A k \in 1..Len(samples) :
          /\ samples[k].bytes = EntryBytes * Least(BatchSize, cfg.iterations - (k - 1) * BatchSize)
          /\ samples[k].grows = ~Prealloc
    /\ pc = "reported" =>
          /\ report = (cfg.iterations + BatchSize - 1) \div BatchSize
          /\ acked = cfg.warmup + cfg.iterations
          /\ disk = cache

-----------------------------------------------------------------------------
(* The inductive invariant.                                                *)

\* The length of the file before the first entry.
Reserved == IF Prealloc THEN PreallocBytes ELSE 0

\* A log of n bytes of entries, in a file that was reserved or that grows.
HoldsEntries(bytes, n) ==
    /\ Len(bytes) = IF n > Reserved THEN n ELSE Reserved
    /\ \A i \in 1..Len(bytes) : bytes[i] = IF i <= n THEN Entry ELSE Zero

\* Until the first entry: an earlier log is gone before the directory is
\* synced, and the zeros are written in order.
SetUp ==
    /\ pc \in {"open", "sync_file", "sync_dir", "zeros"} => acked = 0 /\ samples = <<>>
    /\ pc \in {"open", "sync_file", "sync_dir"} => dirty = {} /\ pos = 0
    /\ pc \in {"sync_file", "sync_dir"} => cache = <<>>
    /\ pc \in {"sync_dir", "zeros"} => disk = <<>>
    /\ pc = "zeros" => /\ Prealloc /\ exists = "durable" /\ dirty = 1..pos
                       /\ Len(cache) = pos /\ pos + remaining = PreallocBytes
                       /\ \A i \in 1..Len(cache) : cache[i] = Zero

\* The file as the program sees it holds the entries written, the disk those
\* acknowledged, and the dirty bytes are the ones between.
LogFollows ==
    pc \in {"warmup", "warmup_sync", "timed", "timed_sync", "reported"} \/ acked > 0 =>
        /\ exists = "durable"
        /\ acked * EntryBytes <= pos
        /\ HoldsEntries(cache, pos)
        /\ HoldsEntries(disk, acked * EntryBytes)
        /\ dirty = (acked * EntryBytes + 1)..pos

\* Where run_entries is: what is acknowledged and what remains add up, and a
\* batch that is being written has its entries in the file but for `count`.
InPhase ==
    /\ pc \in {"warmup", "warmup_sync"} =>
          acked + remaining = cfg.warmup /\ samples = <<>>
    /\ pc \in {"timed", "timed_sync", "reported"} =>
          acked + remaining = cfg.warmup + cfg.iterations /\ remaining <= cfg.iterations
    /\ pc \in {"warmup", "timed"} => pos = acked * EntryBytes
    /\ pc \in {"warmup_sync", "timed_sync"} =>
          /\ remaining > 0 /\ count <= BatchCount
          /\ pos = (acked + (BatchCount - count)) * EntryBytes
    /\ pc = "reported" => remaining = 0 /\ pos = acked * EntryBytes /\ report = Len(samples)

\* One sample per batch, and each about its own.
SamplesSoFar ==
    /\ \A k \in 1..Len(samples) :
          /\ samples[k].bytes = EntryBytes * Least(BatchSize, cfg.iterations - (k - 1) * BatchSize)
          /\ samples[k].grows = ~Prealloc
    /\ pc \in {"timed", "timed_sync", "reported"} =>
          /\ (Len(samples) - 1) * BatchSize < cfg.iterations
          /\ remaining = IF cfg.iterations > Len(samples) * BatchSize
                         THEN cfg.iterations - Len(samples) * BatchSize ELSE 0

Inv == TypeOK /\ SetUp /\ LogFollows /\ InPhase /\ SamplesSoFar /\ CrashKeepsAcked
=============================================================================
