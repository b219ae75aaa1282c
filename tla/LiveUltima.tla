----------------------------- MODULE LiveUltima -----------------------------
(***************************************************************************)
(* The programs over the ultima book (rust/smr-collections): live_ultima   *)
(* and live_ultima_churn, in which a serializer thread encodes a pinned    *)
(* version while the writer goes on committing, and the batch programs     *)
(* (ultima_batch_insert, _update, _churn), which apply several commands in *)
(* one write transaction.                                                  *)
(*                                                                         *)
(* The store is a library (ultima_db), modelled from its use here: begin   *)
(* a write transaction on a private copy of the latest version, publish it *)
(* under an explicit version number on commit, keep the last Retention     *)
(* versions and the pinned ones, open a committed version for reading (an  *)
(* error when it is gone).  A VersionPin travels inside its message and    *)
(* lives as long as the message.                                           *)
(*                                                                         *)
(* `flat` is a flat book to which the same commands are applied.  In the   *)
(* batch programs a replica may join: a second book restored from an image *)
(* of the current version, to which the later commands are applied too.    *)
(***************************************************************************)
EXTENDS UltimaBook

CONSTANTS
    Quantities,     \* of new orders
    FillQuantities, \* of partial fills
    Steady,         \* orders inserted before the run (SMRC_STEADY)
    Warmup,         \* untimed commands (SMRC_WARMUP)
    Iters,          \* timed commands (SMRC_LIVE_ITERS, SMRC_ITERS)
    SnapEvery,      \* a trigger every so many iterations (SMRC_SNAP_EVERY)
    ApplyBatch,     \* commands per transaction (SMRC_APPLY_BATCH)
    Retention       \* versions the store keeps (10 by default)

\* The workload draws quantities from 1..1000 and fills from 1..100.
ASSUME UltimaAssumption ==
    /\ Quantities \subseteq Nat /\ FillQuantities \subseteq Nat
    /\ Steady \in 1..Cap
    /\ Warmup \in Nat /\ Iters \in Nat
    /\ SnapEvery \in Nat \ {0} /\ ApplyBatch \in Nat \ {0} /\ Retention \in Nat \ {0}

LivePrograms == {"live_ultima", "live_ultima_churn"}
BatchPrograms == {"ultima_batch_insert", "ultima_batch_update", "ultima_batch_churn"}

VARIABLES
    program,
    multi,      \* SMRC_MULTI_TABLE: tables opened once per batch
    wpc,        \* where the writer is
    n,          \* commands applied so far (the op index of the churn stream)
    left,       \* commands still to be applied in the open transaction
    version,    \* of the UltimaBook: the last one begun
    ids,        \* order id -> row id, kept outside the transaction
    wtx,        \* the tables of the open write transaction
    store,      \* committed version -> tables
    pending,    \* the message about to be sent
    busy, chan, closed,
    spc,        \* where the serializer is
    cur,        \* the message it works on
    view,       \* the tables its read transaction sees
    image,      \* what it has encoded
    durations, accepted, skipped,
    flat,       \* the flat book
    joined, replica

writerVars == <<wpc, n, left, version, ids, wtx, pending, accepted, skipped>>
serVars == <<spc, cur, view, image, durations>>
commVars == <<busy, chan, closed>>
bookVars == <<flat, joined, replica>>
vars == <<program, multi, store, writerVars, serVars, commVars, bookVars>>

IsLive == program \in LivePrograms
Handshake == -1
NoMessage == [version |-> 0, at |-> Handshake, seen |-> <<>>]
NoImage == <<>>

\* UltimaBook::new seeds the tables in version 1.
Init ==
    /\ program \in LivePrograms \cup BatchPrograms
    /\ multi \in IF program \in BatchPrograms THEN BOOLEAN ELSE {FALSE}
    /\ wpc = "begin" /\ n = 0 /\ left = 0
    /\ version = 1 /\ store = [v \in {1} |-> NewTables] /\ wtx = NewTables /\ ids = NewUltima.ids
    /\ pending = NoMessage /\ busy = FALSE /\ chan = <<>> /\ closed = FALSE
    /\ spc = "recv" /\ cur = NoMessage /\ view = NewTables /\ image = NoImage
    /\ durations = <<>> /\ accepted = <<>> /\ skipped = 0
    /\ flat = NewBook /\ joined = FALSE /\ replica = NewUltima

-----------------------------------------------------------------------------
(* The command stream: prebuild, warmup, timed loop.                       *)

Batch == IF IsLive THEN 1 ELSE ApplyBatch
Prebuilt == IF program = "ultima_batch_insert" THEN 0 ELSE Steady
LoopStart == Prebuilt + (Warmup \div Batch) * Batch
LoopEnd == LoopStart + (Iters \div Batch) * Batch
k == n - LoopStart

InsertsOnly == n < Prebuilt \/ program = "ultima_batch_insert"
Updates == program \in {"live_ultima", "ultima_batch_update"}

\* begin_write under the next version number.  The prebuild has one command
\* per transaction.
Begin ==
    /\ wpc = "begin" /\ n < LoopEnd
    /\ version' = version + 1
    /\ wtx' = store[version]
    /\ left' = IF n < Prebuilt THEN 1 ELSE Batch
    /\ wpc' = "apply"
    /\ UNCHANGED <<program, multi, store, n, ids, pending, accepted, skipped, serVars, commVars, bookVars>>

\* One command on the open transaction, on the flat book and on the replica.
Apply(onUltima(_), onFlat) ==
    /\ LET after == onUltima([db |-> wtx, ids |-> ids])
       IN  wtx' = after.db /\ ids' = after.ids
    /\ flat' = onFlat
    /\ replica' = IF joined THEN onUltima(replica) ELSE replica
    /\ n' = n + 1
    /\ left' = left - 1

ApplyInsertCmd(t, qty, side) ==
    Apply(LAMBDA u : IF multi THEN ApplyInsertMt(u, n + 1, PriceOf(t), qty, side)
                     ELSE ApplyInsert(u, n + 1, PriceOf(t), qty, side),
          Insert(flat, n + 1, PriceOf(t), qty, side))

ApplyUpdateCmd(id, fillQty) ==
    Apply(LAMBDA u : IF multi THEN ApplyUpdateMt(u, id, fillQty) ELSE ApplyUpdate(u, id, fillQty),
          Update(flat, id, fillQty))

\* cancel or fill; the two differ in the flat book only.
ApplyDepartCmd(id, isFill) ==
    Apply(LAMBDA u : IF multi THEN ApplyCancelMt(u, id) ELSE ApplyCancel(u, id),
          IF isFill THEN Fill(flat, id) ELSE Cancel(flat, id))

ChurnInsertDue == n % 2 = 0 \/ DOMAIN ids = {}

ApplyCommand ==
    /\ wpc = "apply" /\ left > 0
    /\ IF InsertsOnly \/ (~Updates /\ ChurnInsertDue)
       THEN \E t \in Ticks, qty \in Quantities, side \in Sides : ApplyInsertCmd(t, qty, side)
       ELSE IF Updates
       THEN \E id \in DOMAIN ids, fillQty \in FillQuantities : ApplyUpdateCmd(id, fillQty)
       ELSE \E id \in DOMAIN ids, isFill \in BOOLEAN : ApplyDepartCmd(id, isFill)
    /\ UNCHANGED <<program, multi, store, wpc, version, pending, accepted, skipped, serVars, commVars, joined>>

\* The versions somebody holds a pin on.
Held == (IF wpc = "send" THEN {pending.version} ELSE {})
          \cup {chan[i].version : i \in DOMAIN chan}
          \cup (IF cur = NoMessage THEN {} ELSE {cur.version})

\* Faulty variant: the message carries the number of the version only.
PinnedNone == {}

Pinned == Held

Retained(committed) ==
    {v \in DOMAIN committed : v > version - Retention \/ v \in Pinned}

\* commit publishes the tables and lets the store collect old versions.
Commit ==
    /\ wpc = "apply" /\ left = 0
    /\ LET committed == [v \in DOMAIN store \cup {version} |-> IF v = version THEN wtx ELSE store[v]]
       IN  store' = Restrict(committed, Retained(committed))
    /\ wpc' = IF n < LoopStart THEN "begin"
              ELSE IF IsLive /\ n = LoopStart THEN "handshake" ELSE "trigger"
    /\ UNCHANGED <<program, multi, n, left, version, ids, wtx, pending, accepted, skipped, serVars, commVars, bookVars>>

-----------------------------------------------------------------------------
(* The writer's side of the handover.  The batch programs have none.       *)

\* pin_current: the version, and as history the book it stands for.
PinCurrent(at) == [version |-> version, at |-> at, seen |-> DigestBook(flat)]

StartHandshake ==
    /\ wpc = "handshake"
    /\ busy' = TRUE
    /\ pending' = PinCurrent(Handshake)
    /\ wpc' = "send"
    /\ UNCHANGED <<program, multi, store, n, left, version, ids, wtx, accepted, skipped, serVars, chan, closed, bookVars>>

AwaitHandshake ==
    /\ wpc = "await" /\ ~busy
    /\ wpc' = "trigger"
    /\ UNCHANGED <<program, multi, store, n, left, version, ids, wtx, pending, accepted, skipped, serVars, commVars, bookVars>>

TriggerDue == IsLive /\ k % SnapEvery = 0

NoTrigger ==
    /\ wpc = "trigger" /\ n < LoopEnd /\ ~TriggerDue
    /\ wpc' = "begin"
    /\ UNCHANGED <<program, multi, store, n, left, version, ids, wtx, pending, accepted, skipped, serVars, commVars, bookVars>>

SkipTrigger ==
    /\ wpc = "trigger" /\ n < LoopEnd /\ TriggerDue /\ busy
    /\ skipped' = skipped + 1
    /\ wpc' = "begin"
    /\ UNCHANGED <<program, multi, store, n, left, version, ids, wtx, pending, accepted, serVars, commVars, bookVars>>

TakeTrigger ==
    /\ wpc = "trigger" /\ n < LoopEnd /\ TriggerDue /\ ~busy
    /\ busy' = TRUE
    /\ pending' = PinCurrent(k)
    /\ accepted' = Append(accepted, k)
    /\ wpc' = "send"
    /\ UNCHANGED <<program, multi, store, n, left, version, ids, wtx, skipped, serVars, chan, closed, bookVars>>

Send ==
    /\ wpc = "send" /\ chan = <<>>
    /\ chan' = <<pending>>
    /\ pending' = NoMessage
    /\ wpc' = IF pending.at = Handshake THEN "await" ELSE "begin"
    /\ UNCHANGED <<program, multi, store, n, left, version, ids, wtx, accepted, skipped, serVars, busy, closed, bookVars>>

\* drop(tx); the batch programs report and end.
EndLoop ==
    /\ wpc = "trigger" /\ n = LoopEnd
    /\ closed' = IsLive
    /\ wpc' = IF IsLive THEN "join" ELSE "done"
    /\ UNCHANGED <<program, multi, store, n, left, version, ids, wtx, pending, accepted, skipped, serVars, busy, chan, bookVars>>

Join ==
    /\ wpc = "join" /\ spc = "done"
    /\ durations' = IF durations = <<>> THEN durations ELSE Tail(durations)
    /\ wpc' = "done"
    /\ UNCHANGED <<program, multi, store, n, left, version, ids, wtx, pending, accepted, skipped,
                   spc, cur, view, image, commVars, bookVars>>

\* An image of the current version is restored elsewhere.  The counter of the
\* loaded table is some number above the rows it holds.
JoinReplica ==
    /\ ~IsLive /\ wpc = "trigger" /\ ~joined
    /\ LET db  == store[version]
           img == EncodeAt(db)
       IN  /\ ~EncodeAtPanics(db) /\ ~RestoreUltimaFails(img)
           /\ \E nextRow \in 1..db.nextRow :
                 /\ \A row \in DOMAIN db.orders : row < nextRow
                 /\ replica' = RestoreUltima(img, nextRow)
    /\ joined' = TRUE
    /\ UNCHANGED <<program, multi, store, writerVars, serVars, commVars, flat>>

WriterStep ==
    \/ Begin \/ ApplyCommand \/ Commit
    \/ StartHandshake \/ AwaitHandshake \/ NoTrigger \/ SkipTrigger \/ TakeTrigger
    \/ Send \/ EndLoop \/ Join

-----------------------------------------------------------------------------
(* The serializer.                                                         *)

Recv ==
    /\ spc = "recv" /\ chan # <<>>
    /\ cur' = Head(chan)
    /\ chan' = Tail(chan)
    /\ spc' = "open"
    /\ UNCHANGED <<program, multi, store, writerVars, view, image, durations, busy, closed, bookVars>>

\* Faulty variant: the latest version is opened.
ReadVersionLatest == version

ReadVersion == cur.version

\* begin_read fails on a version the store has collected, and expect panics.
OpenRead ==
    /\ spc = "open"
    /\ IF ReadVersion \in DOMAIN store
       THEN view' = store[ReadVersion] /\ spc' = "encode"
       ELSE spc' = "panicked" /\ UNCHANGED view
    /\ UNCHANGED <<program, multi, store, writerVars, cur, image, durations, commVars, bookVars>>

\* The rest of encode_at and the duration: the view never changes.
EncodeView ==
    /\ spc = "encode"
    /\ IF EncodeAtPanics(view)
       THEN spc' = "panicked" /\ UNCHANGED <<image, durations>>
       ELSE /\ image' = EncodeAt(view)
            /\ durations' = Append(durations, cur.at)
            /\ spc' = "clear"
    /\ UNCHANGED <<program, multi, store, writerVars, cur, view, commVars, bookVars>>

ClearBusy ==
    /\ spc = "clear"
    /\ busy' = FALSE
    /\ spc' = "drop"
    /\ UNCHANGED <<program, multi, store, writerVars, cur, view, image, durations, chan, closed, bookVars>>

\* The pin goes out of scope at the end of the loop body.
DropPin ==
    /\ spc = "drop"
    /\ cur' = NoMessage
    /\ view' = NewTables /\ image' = NoImage
    /\ spc' = "recv"
    /\ UNCHANGED <<program, multi, store, writerVars, durations, commVars, bookVars>>

\* Faulty variant: what is in the channel when the sender goes is not encoded.
ExitLoopEarly ==
    /\ spc = "recv" /\ closed
    /\ spc' = "done"
    /\ UNCHANGED <<program, multi, store, writerVars, cur, view, image, durations, commVars, bookVars>>

ExitLoop ==
    /\ spc = "recv" /\ closed /\ chan = <<>>
    /\ spc' = "done"
    /\ UNCHANGED <<program, multi, store, writerVars, cur, view, image, durations, commVars, bookVars>>

SerializerStep == Recv \/ OpenRead \/ EncodeView \/ ClearBusy \/ DropPin \/ ExitLoop

Finished == wpc = "done" /\ UNCHANGED vars

Next == WriterStep \/ SerializerStep \/ JoinReplica \/ Finished

Spec == Init /\ [][Next]_vars /\ WF_vars(WriterStep) /\ WF_vars(SerializerStep)

-----------------------------------------------------------------------------
(* Properties.                                                             *)

\* Whatever the writer commits in the meantime, the version in a message is
\* still in the store when the serializer opens it (pin_current: "keeps the
\* snapshot alive until the serializer's begin_read"), although the store
\* keeps only a few versions on its own.
PinnedIsReadable ==
    /\ spc # "panicked"
    /\ Held \subseteq DOMAIN store

\* The image the serializer wrote is the book at the moment of the pin: a book
\* restored from it has the digest the flat book had then.
ImageIsPinnedBook ==
    spc = "clear" =>
        /\ ~RestoreUltimaFails(image)
        /\ DigestUltima(RestoreUltima(image, view.nextRow).db) = cur.seen

\* After every commit the ultima book and a flat book with the same history
\* are the same book (digest_ultima, digest_book), although one recycles its
\* slots and the other never does; without departures even the images are
\* equal, and the id map names exactly the live rows.
SameBook ==
    wpc \notin {"begin", "apply"} =>
        /\ DigestUltima(store[version]) = DigestBook(flat)
        /\ Updates \/ program = "ultima_batch_insert" => EncodeAt(store[version]) = Encode(flat)
        /\ \A id \in DOMAIN ids : store[version].orders[ids[id]].id = id
        /\ DOMAIN ids = DOMAIN flat.idmap

\* A book restored from an image goes on like the original: it gives new rows
\* ids of its own and stays the same book.
ReplicaIsSameBook ==
    joined =>
        /\ DigestUltima(replica.db) = DigestBook(flat)
        /\ DOMAIN replica.ids = DOMAIN ids

\* The run ends with every pin dropped and one duration for each trigger that
\* was not skipped, the handshake left out.
RunEnds ==
    <>[](/\ wpc = "done" /\ Held = {} /\ durations = accepted
         /\ IsLive => Len(accepted) + skipped =
                         Cardinality({i \in 0..(LoopEnd - LoopStart - 1) : i % SnapEvery = 0}))
=============================================================================
