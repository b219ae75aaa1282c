------------------------------ MODULE LiveMvcc ------------------------------
(***************************************************************************)
(* The live snapshot programs over the copy-on-write book                  *)
(* (rust/smr-collections/live_mvcc and live_mvcc_churn, main.rs).  The     *)
(* writer applies operations and, every SnapEvery of them, captures a Root *)
(* and sends it over a sync_channel(1) to the serializer thread, unless    *)
(* the `busy` flag says that the previous one is still being encoded.  The *)
(* serializer reads the Root cell by cell (encode_root, cowsnap.rs) while  *)
(* the writer goes on writing, records the duration, clears the flag and   *)
(* only then drops the Root.                                               *)
(*                                                                         *)
(* Durations are modelled by the iteration they belong to.  The random     *)
(* draws of the operation stream (tick, side, order, fill or cancel) are   *)
(* arbitrary.                                                              *)
(***************************************************************************)
EXTENDS CowBook, BookSnapshot

CONSTANTS
    Steady,         \* orders inserted before the run (SMRC_STEADY)
    Warmup,         \* untimed operations before the handshake (SMRC_WARMUP)
    LiveIters,      \* timed iterations (SMRC_LIVE_ITERS)
    SnapEvery       \* a trigger every so many iterations (SMRC_SNAP_EVERY)

ASSUME LiveAssumption ==
    /\ Steady \in 1..Cap
    /\ Warmup \in Nat
    /\ LiveIters \in Nat
    /\ SnapEvery \in Nat \ {0}

Handshake == -1     \* in place of an iteration: the capture before the loop
NoMessage == [root |-> [gen |-> 0], at |-> Handshake]

VARIABLES
    program,    \* "live_mvcc" (updates) or "live_mvcc_churn"
    wpc,        \* where the writer is
    k,          \* iteration of the timed loop; the warmup counts up to 0
    pending,    \* the message about to be sent: a Root and its iteration
    busy,       \* the AtomicBool
    chan,       \* sync_channel(1): the Roots sent, with their iteration
    closed,     \* tx was dropped
    spc,        \* where the serializer is
    cur,        \* the message it works on
    got,        \* the cells it has read so far
    durations,  \* the durations it has recorded
    accepted,   \* history: iterations whose trigger sent a Root
    skipped     \* iterations whose trigger met a busy serializer

writerVars == <<wpc, k, pending, accepted, skipped>>
serVars == <<spc, cur, got, durations>>
vars == <<cowVars, program, writerVars, serVars, busy, chan, closed>>

LiveInit ==
    /\ Init
    /\ program \in {"live_mvcc", "live_mvcc_churn"}
    /\ wpc = "prebuild" /\ k = -Warmup /\ pending = NoMessage
    /\ busy = FALSE /\ chan = <<>> /\ closed = FALSE
    /\ spc = "recv" /\ cur = NoMessage /\ got = <<>>
    /\ durations = <<>> /\ accepted = <<>> /\ skipped = 0

-----------------------------------------------------------------------------
(* The writer.                                                             *)

Goto(pc) == wpc' = pc

\* prebuild: Steady inserts, before anything is timed.
Prebuild(t, qty, side) ==
    /\ wpc = "prebuild"
    /\ lastId < Steady
    /\ BeginInsert(t, qty, side)
    /\ UNCHANGED <<writerVars, serVars, busy, chan, closed>>

\* One operation of the stream: an update, or the churn stream's insert at
\* even op indices and departure at odd ones.
ChurnInsertDue == (Steady + Warmup + k) % 2 = 0 \/ DOMAIN scalars.idmap = {}

StreamOp ==
    IF program = "live_mvcc"
    THEN \E id \in DOMAIN scalars.idmap : \E fillQty \in FillQuantities :
            BeginUpdate(id, fillQty)
    ELSE IF ChurnInsertDue
    THEN \E t \in Ticks, qty \in Quantities, side \in Sides : BeginInsert(t, qty, side)
    ELSE \E id \in DOMAIN scalars.idmap : BeginCancel(id) \/ BeginFill(id)

WarmupOp ==
    /\ wpc = "prebuild" /\ lastId >= Steady /\ k < 0
    /\ StreamOp
    /\ k' = k + 1
    /\ UNCHANGED <<wpc, pending, accepted, skipped, serVars, busy, chan, closed>>

\* The warm handshake: one capture goes through the serializer.
StartHandshake ==
    /\ wpc = "prebuild" /\ lastId >= Steady /\ k = 0
    /\ Capture
    /\ pending' = [root |-> RootOf(gen), at |-> Handshake]
    /\ busy' = TRUE
    /\ Goto("send")
    /\ UNCHANGED <<k, accepted, skipped, serVars, chan, closed>>

\* The writer spins until the serializer has cleared the flag.
AwaitHandshake ==
    /\ wpc = "await"
    /\ ~busy
    /\ Goto("trigger")
    /\ UNCHANGED <<cowVars, k, pending, accepted, skipped, serVars, busy, chan, closed>>

TriggerDue == k % SnapEvery = 0

NoTrigger ==
    /\ wpc = "trigger" /\ k < LiveIters
    /\ ~TriggerDue
    /\ Goto("op")
    /\ UNCHANGED <<cowVars, k, pending, accepted, skipped, serVars, busy, chan, closed>>

SkipTrigger ==
    /\ wpc = "trigger" /\ k < LiveIters
    /\ TriggerDue /\ busy
    /\ skipped' = skipped + 1
    /\ Goto("op")
    /\ UNCHANGED <<cowVars, k, pending, accepted, serVars, busy, chan, closed>>

\* Faulty variant: the flag is not consulted.
TakeTriggerAlways ==
    /\ wpc = "trigger" /\ k < LiveIters
    /\ TriggerDue
    /\ busy' = TRUE
    /\ Capture
    /\ pending' = [root |-> RootOf(gen), at |-> k]
    /\ accepted' = Append(accepted, k)
    /\ Goto("send")
    /\ UNCHANGED <<k, skipped, serVars, chan, closed>>

TakeTrigger ==
    /\ wpc = "trigger" /\ k < LiveIters
    /\ TriggerDue /\ ~busy
    /\ busy' = TRUE
    /\ Capture
    /\ pending' = [root |-> RootOf(gen), at |-> k]
    /\ accepted' = Append(accepted, k)
    /\ Goto("send")
    /\ UNCHANGED <<k, skipped, serVars, chan, closed>>

\* tx.send blocks while the channel holds a message.
Send ==
    /\ wpc = "send"
    /\ chan = <<>>
    /\ chan' = <<pending>>
    /\ pending' = NoMessage
    /\ Goto(IF pending.at = Handshake THEN "await" ELSE "op")
    /\ UNCHANGED <<cowVars, k, accepted, skipped, serVars, busy, closed>>

BeginOp ==
    /\ wpc = "op"
    /\ StreamOp
    /\ Goto("writes")
    /\ UNCHANGED <<k, pending, accepted, skipped, serVars, busy, chan, closed>>

\* A cell write of the current operation, before or in the timed loop.
Write ==
    /\ WriteCell
    /\ UNCHANGED <<writerVars, serVars, busy, chan, closed>>

EndIteration ==
    /\ wpc = "writes" /\ todo = <<>>
    /\ k' = k + 1
    /\ Goto("trigger")
    /\ UNCHANGED <<cowVars, pending, accepted, skipped, serVars, busy, chan, closed>>

\* drop(tx).
CloseChannel ==
    /\ wpc = "trigger" /\ k = LiveIters
    /\ closed' = TRUE
    /\ Goto("join")
    /\ UNCHANGED <<cowVars, k, pending, accepted, skipped, serVars, busy, chan>>

\* join, then the first duration is removed.
Join ==
    /\ wpc = "join" /\ spc = "done"
    /\ durations' = IF durations = <<>> THEN durations ELSE Tail(durations)
    /\ Goto("done")
    /\ UNCHANGED <<cowVars, k, pending, accepted, skipped, spc, cur, got, busy, chan, closed>>

WriterStep ==
    /\ \/ \E t \in Ticks, qty \in Quantities, side \in Sides : Prebuild(t, qty, side)
       \/ WarmupOp \/ StartHandshake \/ AwaitHandshake
       \/ NoTrigger \/ SkipTrigger \/ TakeTrigger
       \/ Send \/ BeginOp \/ Write \/ EndIteration \/ CloseChannel \/ Join
    /\ UNCHANGED program

-----------------------------------------------------------------------------
(* The serializer.                                                         *)

Recv ==
    /\ spc = "recv" /\ chan # <<>>
    /\ cur' = Head(chan)
    /\ chan' = Tail(chan)
    /\ got' = <<>>
    /\ spc' = "read"
    /\ UNCHANGED <<cowVars, writerVars, durations, busy, closed>>

LevelCells ==
    [i \in 1..(2 * Levels) |->
        LevelCell(IF i <= Levels THEN BID ELSE ASK, (i - 1) % Levels)]

\* encode_root walks both ladders to count, walks them again to write the
\* occupied levels, and then walks the slots below the high-water mark.
Plan(root) ==
    LevelCells \o LevelCells \o [i \in 1..root.scalars.hwm |-> OrderCell(i - 1)]

\* One cell; indexing the Root out of bounds would panic.
ReadCell ==
    /\ spc = "read"
    /\ Len(got) < Len(Plan(cur.root))
    /\ Plan(cur.root)[Len(got) + 1] \in Cells
    /\ got' = Append(got, ReadVia(cur.root.table, Plan(cur.root)[Len(got) + 1]))
    /\ UNCHANGED <<cowVars, writerVars, spc, cur, durations, busy, chan, closed>>

RecordDuration ==
    /\ spc = "read"
    /\ Len(got) = Len(Plan(cur.root))
    /\ durations' = Append(durations, cur.at)
    /\ spc' = "clear"
    /\ UNCHANGED <<cowVars, writerVars, cur, got, busy, chan, closed>>

ClearBusy ==
    /\ spc = "clear"
    /\ busy' = FALSE
    /\ spc' = "drop"
    /\ UNCHANGED <<cowVars, writerVars, cur, got, durations, chan, closed>>

\* Faulty variant: the Root is leaked.
DropCurrentNot ==
    /\ spc = "drop"
    /\ spc' = "recv"
    /\ UNCHANGED <<cowVars, writerVars, cur, got, durations, busy, chan, closed>>

\* The end of the loop body drops the Root.
DropCurrent ==
    /\ spc = "drop"
    /\ DropRoot(cur.root)
    /\ spc' = "recv"
    /\ cur' = NoMessage
    /\ got' = <<>>
    /\ UNCHANGED <<writerVars, durations, busy, chan, closed>>

\* Faulty variant: a message still in the channel is abandoned.
ExitLoopEarly ==
    /\ spc = "recv" /\ closed
    /\ spc' = "done"
    /\ UNCHANGED <<cowVars, writerVars, cur, got, durations, busy, chan, closed>>

\* The iterator ends when the channel is empty and has no sender.
ExitLoop ==
    /\ spc = "recv" /\ closed /\ chan = <<>>
    /\ spc' = "done"
    /\ UNCHANGED <<cowVars, writerVars, cur, got, durations, busy, chan, closed>>

SerializerStep ==
    /\ Recv \/ ReadCell \/ RecordDuration \/ ClearBusy \/ DropCurrent \/ ExitLoop
    /\ UNCHANGED program

-----------------------------------------------------------------------------

Finished == wpc = "done" /\ UNCHANGED vars

LiveNext == WriterStep \/ SerializerStep \/ Finished

\* Both are threads of one process; neither waits for an outside event.
LiveSpec ==
    /\ LiveInit
    /\ [][LiveNext]_vars
    /\ WF_vars(WriterStep) /\ WF_vars(SerializerStep)

-----------------------------------------------------------------------------
(* Properties.                                                             *)

\* What encode_root makes the image of: the levels as its second pass read
\* them (the first only counted), and the slots below the high-water mark.
ReadBook(root, reads) ==
    LET n == 2 * Levels
    IN  [lane     |-> [side \in Sides |-> [t \in Ticks |->
                          reads[n + (IF side = BID THEN t + 1 ELSE Levels + t + 1)]]],
         pool     |-> [s \in 0..(root.scalars.hwm - 1) |-> reads[2 * n + s + 1]],
         hwm      |-> root.scalars.hwm,
         best     |-> root.scalars.best,
         freeHead |-> root.scalars.freeHead]

\* The image, once encode_root has read everything.
ImageOf(root, reads) == Encode(ReadBook(root, reads))

\* The book at the moment of the capture.
BookAt(root) ==
    [pool     |-> [s \in Slots |-> root.frozen[OrderCell(s)]],
     lane     |-> [side \in Sides |-> [t \in Ticks |-> root.frozen[LevelCell(side, t)]]],
     hwm      |-> root.scalars.hwm,
     best     |-> root.scalars.best,
     freeHead |-> root.scalars.freeHead,
     idmap    |-> root.scalars.idmap]

\* A snapshot taken while the writer runs on is a point in time: the image
\* holds as many levels as its first pass counted (the group header), and a
\* book restored from it is the book at the capture, however the writer's
\* copy-on-write stores fell between the serializer's reads; and the book
\* itself is, between two operations, a flat book with the same history.
ImageIsPointInTime ==
    /\ Lockstep
    /\ spc = "clear" =>
        /\ Cardinality({i \in 1..(2 * Levels) : got[i].head # NIL})
             = Len(ImageOf(cur.root, got).levels)
        /\ Restore(ImageOf(cur.root, got)) = BookAt(cur.root)

\* What the serializer has read so far is what the capture saw, with the
\* writer in the middle of any operation (no torn read in encode_root).
ReadsFrozen ==
    spc \in {"read", "clear"} =>
        /\ got \in Seq(Range(got))
        /\ \A i \in 1..Len(got) : got[i] = cur.root.frozen[Plan(cur.root)[i]]

\* The busy flag admits one message at a time, so the send inside a timed
\* iteration never waits for the serializer.
SendNeverBlocks == wpc = "send" => chan = <<>>

\* Where the Roots are: each is with the writer, in the channel or with the
\* serializer.
WithWriter == IF wpc = "send" THEN {pending.root} ELSE {}
InChannel == IF chan = <<>> THEN {} ELSE {Head(chan).root}
WithSerializer == IF spc \in {"read", "clear", "drop"} THEN {cur.root} ELSE {}

\* The protocol of the busy flag: while it is up there is one Root on its way
\* from the capture to the end of its encoding, and no other but the one the
\* serializer is dropping; no Root is leaked, none is dropped twice.  (The
\* handover in main.rs; inductive.)
FlightInv ==
    /\ \A r \in roots : r.gen \in Nat /\ r.gen < gen
    /\ spc \in {"recv", "read", "clear", "drop", "done"}
    /\ closed => wpc \in {"join", "done"}
    /\ spc = "done" => closed /\ chan = <<>>
    /\ wpc = "prebuild" => ~busy
    /\ wpc = "send" => busy /\ chan = <<>> /\ spc \in {"recv", "drop"} /\ pending.root \in roots
    /\ chan # <<>> =>
          busy /\ spc \in {"recv", "drop"} /\ Head(chan).root \in roots /\ Tail(chan) = <<>>
    /\ spc \in {"read", "clear"} => busy
    /\ spc \in {"read", "clear", "drop"} => cur.root \in roots
    /\ spc = "drop" => cur.root \notin WithWriter \cup InChannel
    /\ roots = WithWriter \cup InChannel \cup WithSerializer

\* The memory of the versions: every table leads to allocated chunks and
\* nothing else is allocated (MemoryExact).  The flag is cleared before the Root is
\* dropped, so a second Root may be alive, but never a third: at most three
\* versions of a chunk exist.
AtMostThreeVersions ==
    /\ MemoryExact
    /\ Cardinality(roots) <= 2
    /\ Cardinality(Held(table, roots)) <= 3 * Cardinality(Chunks)

\* The report of a finished run: one duration per trigger that was not
\* skipped, in order and without the handshake; every trigger was taken or
\* skipped.
ReportIsComplete ==
    /\ durations = accepted
    /\ Len(accepted) + skipped = Cardinality({i \in 0..(LiveIters - 1) : i % SnapEvery = 0})

\* The handshake is encoded before the timed loop starts, and the run ends:
\* the last snapshot is drained, the threads are joined, no Root is left and
\* nothing is missing from the report.
EndsWithFullReport ==
    /\ [](wpc \in {"trigger", "op", "writes", "join"} => durations # <<>>)
    /\ <>(wpc = "done" /\ roots = {} /\ ReportIsComplete)
=============================================================================
