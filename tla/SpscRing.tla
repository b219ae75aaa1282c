------------------------------ MODULE SpscRing ------------------------------
(***************************************************************************)
(* The bounded single-producer single-consumer ring of u64 tokens          *)
(* (rust/thread-handoff/ring/src/spsc.rs, and the same ring with bursts in *)
(* rust/handoff-compare/src/spsc.rs), driven by the ring experiment's main *)
(* (warm-up pushes, drain barrier, timed pushes, final barrier).           *)
(*                                                                         *)
(* An action is what one thread does between two accesses of memory the    *)
(* other thread can see.  `head` and `tail` are the two shared atomics;    *)
(* each side's private mirror of the index it owns equals the shared one   *)
(* between operations, so it needs no variable of its own.  The slot       *)
(* stores of a burst are Relaxed: only the Release store of `tail` orders  *)
(* them, so they may take effect in any order before it.                   *)
(*                                                                         *)
(* The ring never looks at a token, so the i-th token is the number i and  *)
(* 0 is the initial content of a slot.                                     *)
(***************************************************************************)
EXTENDS Integers, Sequences

CONSTANTS
    Cap,        \* slots in the ring (TH_RING_CAP)
    Total,      \* tokens pushed: warm-up plus timed
    Warmup,     \* tokens pushed before the timed section
    MaxBurst,   \* largest n given to batch_publish; push is n = 1
    MaxDrain    \* the max given to drain

ASSUME CapAssumption == Cap \in Nat \ {0}
ASSUME TotalAssumption == Total \in Nat /\ Warmup \in 0..Total
\* batch_publish asserts n <= cap.
ASSUME BurstAssumption == MaxBurst \in 1..Cap /\ MaxDrain \in Nat \ {0}

VARIABLES
    buf,            \* the slots
    head,           \* total consumed, written by the consumer
    tail,           \* total published, written by the producer
    ppc,            \* producer: "idle", "full" (spinning), "fill"
    burst,          \* the n of the operation in progress
    unwritten,      \* sequences of the burst not yet stored
    cachedHead,     \* producer's last observed head
    cpc,            \* consumer: "idle", "empty" (spinning), "read"
    take,           \* tokens this pop or drain will read
    got,            \* tokens it has read
    cachedTail,     \* consumer's last observed tail
    out             \* every token read, oldest first

prodVars == <<tail, ppc, burst, unwritten, cachedHead>>
consVars == <<head, cpc, take, got, cachedTail, out>>
vars == <<buf, prodVars, consVars>>

Slot(s) == s % Cap

Init ==
    /\ buf = [i \in 0..(Cap - 1) |-> 0]
    /\ head = 0 /\ tail = 0
    /\ ppc = "idle" /\ burst = 0 /\ unwritten = {} /\ cachedHead = 0
    /\ cpc = "idle" /\ take = 0 /\ got = 0 /\ cachedTail = 0
    /\ out = <<>>

-----------------------------------------------------------------------------
(* The producer.                                                           *)

\* Faulty variant: room for one slot too many.
HasSpaceOffByOne(n, h) == tail + n - h <= Cap + 1

\* A burst of n fits behind the head value h.
HasSpace(n, h) == tail + n - h <= Cap

\* The burst's slots are reserved; they are stored one by one.
StartFill(n) == ppc' = "fill" /\ unwritten' = tail..(tail + n - 1)

\* Faulty variant: main does not wait for the warm-up to drain.
BatchPublishNoBarrier(n) ==
    /\ ppc = "idle"
    /\ tail + n <= Total
    /\ burst' = n
    /\ IF HasSpace(n, cachedHead)
       THEN StartFill(n)
       ELSE ppc' = "full" /\ UNCHANGED unwritten
    /\ UNCHANGED <<buf, tail, cachedHead, consVars>>

\* push / batch_publish is entered: go on by the stale snapshot if it shows
\* room, else spin.  The experiment's main runs its warm-up, waits until
\* consumed() has reached it, and only then pushes the timed tokens.
BatchPublish(n) ==
    /\ ppc = "idle"
    /\ tail + n <= Total
    /\ tail < Warmup => tail + n <= Warmup
    /\ tail = Warmup => head >= Warmup
    /\ burst' = n
    /\ IF HasSpace(n, cachedHead)
       THEN StartFill(n)
       ELSE ppc' = "full" /\ UNCHANGED unwritten
    /\ UNCHANGED <<buf, tail, cachedHead, consVars>>

\* One turn of the spin loop: Acquire load of the real head.
RefreshHead ==
    /\ ppc = "full"
    /\ cachedHead' = head
    /\ IF HasSpace(burst, head)
       THEN StartFill(burst)
       ELSE UNCHANGED <<ppc, unwritten>>
    /\ UNCHANGED <<buf, tail, burst, consVars>>

\* One Relaxed slot store.
StoreSlot(s) ==
    /\ ppc = "fill"
    /\ s \in unwritten
    /\ buf' = [buf EXCEPT ![Slot(s)] = s + 1]
    /\ unwritten' = unwritten \ {s}
    /\ UNCHANGED <<tail, ppc, burst, cachedHead, consVars>>

\* Faulty variant: tail is exposed while slot stores are still outstanding
\* (a Relaxed instead of a Release store).
PublishTailEarly ==
    /\ ppc = "fill"
    /\ tail' = tail + burst
    /\ ppc' = "idle"
    /\ unwritten' = {}
    /\ UNCHANGED <<buf, burst, cachedHead, consVars>>

\* The Release store of tail publishes the whole burst.
PublishTail ==
    /\ ppc = "fill"
    /\ unwritten = {}
    /\ tail' = tail + burst
    /\ ppc' = "idle"
    /\ UNCHANGED <<buf, burst, unwritten, cachedHead, consVars>>

Producer ==
    \/ \E n \in 1..MaxBurst : BatchPublish(n)
    \/ RefreshHead
    \/ \E s \in unwritten : StoreSlot(s)
    \/ PublishTail

-----------------------------------------------------------------------------
(* The consumer.                                                           *)

StartRead(n) == cpc' = "read" /\ take' = n

\* pop is entered: read one token, or spin while the ring looks empty.
Pop ==
    /\ cpc = "idle"
    /\ head < Total
    /\ IF head # cachedTail
       THEN StartRead(1)
       ELSE cpc' = "empty" /\ UNCHANGED take
    /\ UNCHANGED <<buf, prodVars, head, got, cachedTail, out>>

\* One turn of pop's spin loop: Acquire load of the real tail.
RefreshTail ==
    /\ cpc = "empty"
    /\ cachedTail' = tail
    /\ IF head # tail
       THEN StartRead(1)
       ELSE UNCHANGED <<cpc, take>>
    /\ UNCHANGED <<buf, prodVars, head, got, out>>

\* drain(max) never waits: it reloads tail once if the ring looks empty,
\* and returns 0 without touching head if it is.
Drain(max) ==
    /\ cpc = "idle"
    /\ head < Total
    /\ cachedTail' = IF head = cachedTail THEN tail ELSE cachedTail
    /\ LET avail == cachedTail' - head
           n     == IF avail < max THEN avail ELSE max
       IN  IF n > 0
           THEN StartRead(n)
           ELSE UNCHANGED <<cpc, take>>
    /\ UNCHANGED <<buf, prodVars, head, got, out>>

\* Faulty variant: the loop counter is left out of the slot index.
LoadSlotSame ==
    /\ cpc = "read"
    /\ got < take
    /\ out' = Append(out, buf[Slot(head)])
    /\ got' = got + 1
    /\ UNCHANGED <<buf, prodVars, head, cpc, take, cachedTail>>

\* One Relaxed slot load, handed to the caller in order.
LoadSlot ==
    /\ cpc = "read"
    /\ got < take
    /\ out' = Append(out, buf[Slot(head + got)])
    /\ got' = got + 1
    /\ UNCHANGED <<buf, prodVars, head, cpc, take, cachedTail>>

\* The Release store of head gives every slot just read back at once.
PublishHead ==
    /\ cpc = "read"
    /\ got = take
    /\ head' = head + take
    /\ cpc' = "idle"
    /\ take' = 0 /\ got' = 0
    /\ UNCHANGED <<buf, prodVars, cachedTail, out>>

Consumer ==
    \/ Pop
    \/ RefreshTail
    \/ Drain(MaxDrain)
    \/ LoadSlot
    \/ PublishHead

-----------------------------------------------------------------------------

\* Both loops have run to their end; the experiment joins and reports.
Finished ==
    /\ ppc = "idle" /\ tail = Total
    /\ cpc = "idle" /\ head = Total
    /\ UNCHANGED vars

Next == Producer \/ Consumer \/ Finished

\* Both threads are always runnable (they spin, they never park), so each
\* keeps taking steps.
Spec == Init /\ [][Next]_vars /\ WF_vars(Producer) /\ WF_vars(Consumer)

-----------------------------------------------------------------------------
(* Properties.                                                             *)

\* Every variable has its type: indices are counters, a burst fits the ring,
\* and the slots still to be stored belong to the burst in progress.
TypeOK ==
    /\ buf \in [0..(Cap - 1) -> Nat]
    /\ head \in Nat /\ tail \in Nat /\ cachedHead \in Nat /\ cachedTail \in Nat
    /\ ppc \in {"idle", "full", "fill"}
    /\ burst \in 0..MaxBurst
    /\ unwritten \subseteq tail..(tail + burst - 1)
    /\ cpc \in {"idle", "empty", "read"}
    /\ take \in Nat /\ got \in 0..take
    /\ out \in Seq(Nat)

\* The next sequence the consumer will load.
NextRead == head + got

\* No slot is overwritten before it is consumed: the slots the producer is
\* about to store (push / batch_publish) never alias a published token that
\* pop or drain has still to load, although the producer judged the room by
\* a cached head.
NoOverwrite ==
    ppc = "fill" =>
        \A s \in unwritten : \A r \in NextRead..(tail - 1) :
            Slot(s) # Slot(r)

\* The consumer reads the tokens in the order in which they were pushed,
\* each once, none lost and no slot's older content in between, although
\* pop and drain trust a cached tail and read with Relaxed loads.
FifoDelivery == \A i \in 1..Len(out) : out[i] = i

\* The producer is past the drain barrier.
InTimedSection == tail > Warmup \/ (tail = Warmup /\ ppc # "idle")

\* The drain barrier of the experiment: while the timed pushes run, every
\* warm-up token has been read and handed over by the consumer.
TimedExcludesWarmup == InTimedSection => Len(out) >= Warmup

\* How far the cached indices may lag: the producer's view of head and the
\* consumer's view of tail are never ahead of the real ones, the room the
\* producer judged by its view covers the burst it is storing, and a read in
\* progress stays below the tail the consumer has seen.
Lag ==
    /\ cachedHead <= head
    /\ head + take <= cachedTail
    /\ cachedTail <= tail
    /\ tail <= cachedHead + Cap
    /\ ppc = "fill" => tail + burst <= cachedHead + Cap
    /\ ppc # "fill" => unwritten = {}
    /\ cpc # "read" => take = 0

\* The tokens handed over are those below the next one to read.
Progress == Len(out) = NextRead

\* Every published, unread slot holds its own token, and so does every slot
\* of the burst that is already stored.
Contents ==
    /\ \A r \in NextRead..(tail - 1) : buf[Slot(r)] = r + 1
    /\ ppc = "fill" =>
          \A r \in tail..(tail + burst - 1) :
              r \notin unwritten => buf[Slot(r)] = r + 1

\* The barrier in terms of the index the producer polls.
WarmupDrained ==
    /\ InTimedSection => head >= Warmup
    /\ ppc # "idle" /\ tail < Warmup => tail + burst <= Warmup

\* The inductive invariant of the ring: what the code relies on when it
\* trusts a cached index.
Inv ==
    /\ TypeOK
    /\ Lag
    /\ Progress
    /\ Contents
    /\ FifoDelivery
    /\ WarmupDrained

\* The run ends: every token pushed is eventually consumed, so the final
\* barrier `consumed() < total` is left and the consumer can be joined.
AllDelivered == <>(head = Total /\ Len(out) = Total)

\* The ring implements the bounded FIFO channel: published, unread slots are
\* the queue, the values read are the delivered tokens.
Fifo == INSTANCE FifoChannel WITH
            queue <- [i \in 1..(tail - NextRead) |-> buf[Slot(NextRead + i - 1)]],
            delivered <- out

\* Every step of the ring is a step of the bounded FIFO channel or leaves
\* the channel unchanged.
RefinesFifo == Fifo!Spec
=============================================================================
